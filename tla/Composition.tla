---------------------------- MODULE Composition ----------------------------
(***************************************************************************)
(* orchestrator/composition.py: the results of one or two subqueries made  *)
(* into one result.  A row is a function from aliases to values, Null for  *)
(* None.  A source is [rows, error, truncated, empty_reason]; error also   *)
(* stands for a missing result.  A plan is                                 *)
(* [ids : one or two subquery ids, joinKeys, qty : productionQty or 0].    *)
(***************************************************************************)
EXTENDS BomShortage

CONSTANT RowLimit   \* SQL_ROW_LIMIT

ASSUME RowLimitAssumption == RowLimit \in Nat

Null == 0

composition_failure(mode, truncated) ==
  [mode |-> mode, rows |-> <<>>, sections |-> <<>>, error |-> TRUE,
   empty_reason |-> "none", total_count |-> 0, truncated |-> truncated]

composed_rows(mode, rows, reason, total, truncated) ==
  [mode |-> mode, rows |-> rows, sections |-> <<>>, error |-> FALSE,
   empty_reason |-> reason, total_count |-> total, truncated |-> truncated]

\* _source_rows
source_usable(s) == ~s.error /\ (s.rows # <<>> => s.empty_reason = "none")

\* _overall_empty_reason, and the same rule where a join stays empty.
overall_empty_reason(sources) ==
  IF \E i \in DOMAIN sources : sources[i].empty_reason = "INCONCLUSIVE"
    THEN "INCONCLUSIVE" ELSE "NO_DATA"

NoKey == <<>>

\* _row_key
row_key(row, join_keys) ==
  IF \E a \in join_keys : a \notin DOMAIN row \/ row[a] = Null THEN NoKey
  ELSE [a \in join_keys |-> row[a]]

\* _merge_rows
conflicting(left, right, join_keys) ==
  \E f \in ((DOMAIN right) \cap (DOMAIN left)) \ join_keys : left[f] # right[f]

merge_rows(left, right) ==
  [f \in (DOMAIN left) \cup (DOMAIN right) |-> IF f \in DOMAIN left THEN left[f] ELSE right[f]]

\* Mutant: the left row is looked up per right key, the last one wins.
join_pairs_LastLeft(left, right, join_keys) ==
  LET lefts(j) == {i \in DOMAIN left :
                     row_key(left[i], join_keys) = row_key(right[j], join_keys)}
  IN  [j \in DOMAIN right |-> <<left[CHOOSE i \in lefts(j) : \A k \in lefts(j) : k <= i],
                                right[j]>>]

\* The pairs the nested loops meet, in their order: for each left row the right
\* rows with its key.
join_pairs(left, right, join_keys) ==
  LET met == {p \in (DOMAIN left) \X (DOMAIN right) :
                row_key(left[p[1]], join_keys) = row_key(right[p[2]], join_keys)}
      order == InOrder(met, {q \in met \X met :
                               \/ q[1][1] < q[2][1]
                               \/ q[1][1] = q[2][1] /\ q[1][2] < q[2][2]})
  IN  [k \in 1 .. Cardinality(met) |-> <<left[order[k][1]], right[order[k][2]]>>]

compose_joined(sources, join_keys) ==
  LET left == sources[1].rows
      right == sources[2].rows
      left_domain == {row_key(left[i], join_keys) : i \in DOMAIN left}
      right_domain == {row_key(right[j], join_keys) : j \in DOMAIN right}
      pairs == join_pairs(left, right, join_keys)
      rows == [i \in 1 .. (IF Len(pairs) < RowLimit THEN Len(pairs) ELSE RowLimit) |->
                 merge_rows(pairs[i][1], pairs[i][2])]
  IN  IF \E i \in 1 .. 2 : sources[i].truncated THEN composition_failure("joined", TRUE)
      ELSE IF NoKey \in left_domain \/ ~(right_domain \subseteq left_domain)
        THEN composition_failure("joined", FALSE)
      ELSE IF left = <<>> \/ right = <<>>
        THEN composed_rows("joined", <<>>, overall_empty_reason(sources), 0, FALSE)
      ELSE IF \E i \in DOMAIN pairs : conflicting(pairs[i][1], pairs[i][2], join_keys)
        THEN composition_failure("joined", FALSE)
      ELSE composed_rows("joined", rows, IF pairs = <<>> THEN "NO_DATA" ELSE "none",
                         Len(pairs), Len(pairs) > Len(rows))

compose_bom_shortage(sources, qty) ==
  LET final == calculate_bom_shortages(sources[1].rows, sources[2].rows, qty)
      total == Len(final.rows)
      stored == SubSeq(final.rows, 1, IF total < RowLimit THEN total ELSE RowLimit)
  IN  IF \E i \in 1 .. 2 : sources[i].truncated THEN composition_failure("joined", TRUE)
      ELSE IF \A i \in 1 .. 2 : sources[i].rows = <<>>
        THEN composed_rows("joined", <<>>, overall_empty_reason(sources), 0, FALSE)
      ELSE IF ~final.ok THEN composition_failure("joined", FALSE)
      ELSE composed_rows("joined", stored, IF total = 0 THEN "NO_DATA" ELSE "none",
                         total, Len(stored) < total)

\* The rows of all sources together.
RowsIn(sources) ==
  LET upTo[n \in 0 .. Len(sources)] ==
        IF n = 0 THEN 0 ELSE upTo[n - 1] + Len(sources[n].rows)
  IN  upTo[Len(sources)]

\* The mode of a validated plan.
composition_mode(plan) ==
  IF Len(plan.ids) = 1 THEN "single"
  ELSE IF plan.joinKeys = {} THEN "separate" ELSE "joined"

compose_single(source) ==
  composed_rows("single", source.rows, source.empty_reason, Len(source.rows),
                source.truncated)

compose_separate(plan, sources) ==
  [mode |-> "separate", rows |-> <<>>, error |-> FALSE,
   sections |-> [i \in DOMAIN sources |-> [id |-> plan.ids[i], rows |-> sources[i].rows,
                                           empty_reason |-> sources[i].empty_reason]],
   empty_reason |-> IF \E i \in DOMAIN sources : sources[i].rows # <<>> THEN "none"
                    ELSE overall_empty_reason(sources),
   total_count |-> RowsIn(sources),
   truncated |-> \E i \in DOMAIN sources : sources[i].truncated]

\* The plan is one that planning accepted: one or two subqueries, the same join
\* keys in both, a transformation that validate_result_transform lets pass; the
\* row limit is a natural number.  The answers of the code to any other plan are
\* errors that no accepted plan meets.
compose_results(plan, sources) ==
  LET mode == composition_mode(plan) IN
  IF \E i \in DOMAIN sources : ~source_usable(sources[i])
    THEN composition_failure(mode, FALSE)
  ELSE IF plan.qty # 0 THEN compose_bom_shortage(sources, plan.qty)
  ELSE CASE mode = "single" -> compose_single(sources[1])
         [] mode = "separate" -> compose_separate(plan, sources)
         [] mode = "joined" -> compose_joined(sources, plan.joinKeys)
=============================================================================
