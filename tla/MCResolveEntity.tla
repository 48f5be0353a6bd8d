--------------------------- MODULE MCResolveEntity ---------------------------
(***************************************************************************)
(* Two products and a category called Road: a product's name contains the  *)
(* category's, and two short names resemble both products.                 *)
(***************************************************************************)
EXTENDS ResolveEntity

MCEntities == {"Road-150", "Road-250", "Category Road"}

MCNames == {"Road", "Rd", "Road-150", "Road-250"}

MCTypeOf ==
  [e \in MCEntities |-> IF e = "Category Road" THEN "productCategory" ELSE "product"]

MCNameOf == [e \in MCEntities |-> IF e = "Category Road" THEN "Road" ELSE e]

MCAlike == (MCEntities \X {"Road", "Rd"}) \cup {<<e, MCNameOf[e]>> : e \in MCEntities}

Nowhere == [n \in MCNames |-> {}]

\* "Road and Rd", "Road-150 and Road", "Road-150 ... Road-150", and a question with
\* "road 150".
MCQuestions ==
  {[literals |-> {"Road", "Rd"}, loose |-> Nowhere, length |-> 20,
    spans |-> [Nowhere EXCEPT !["Road"] = {<<0, 4>>}, !["Rd"] = {<<5, 7>>}]],
   [literals |-> {"Road", "Road-150"}, loose |-> Nowhere, length |-> 20,
    spans |-> [Nowhere EXCEPT !["Road-150"] = {<<0, 8>>},
                              !["Road"] = {<<0, 4>>, <<9, 13>>}]],
   [literals |-> {"Road-150"}, loose |-> Nowhere, length |-> 20,
    spans |-> [Nowhere EXCEPT !["Road-150"] = {<<0, 8>>, <<9, 17>>},
                              !["Road"] = {<<0, 4>>, <<9, 13>>}]],
   [literals |-> {"Road-150"}, length |-> 20,
    loose |-> [Nowhere EXCEPT !["Rd"] = {<<2, 8>>}],
    spans |-> [Nowhere EXCEPT !["Road-150"] = {<<0, 8>>}]]}

MCLookupName ==
  [x \in MCNames \cup {"product Road", "product"} |->
     IF x = "product Road" THEN "Road" ELSE IF x = "product" THEN "ignored" ELSE x]

MCExtractions ==
  {<<>>,
   <<<<"product", "product">>>>,
   <<<<"product", "Road">>>>,
   <<<<"product", "Road">>, <<"product", "Rd">>>>,
   <<<<"product", "product Road">>, <<"product", "Road">>>>,
   <<<<"product", "Road-150">>, <<"product", "Rd">>>>,
   <<<<"productCategory", "Road">>, <<"product", "Road">>>>}

-----------------------------------------------------------------------------
(***************************************************************************)
(* LiteralNames on every set of up to MaxMatches matches of two entities   *)
(* in a question of QuestionLength characters.                             *)
(***************************************************************************)
QuestionLength == 4

MaxMatches == 3

Spans == {s \in (0 .. QuestionLength) \X (0 .. QuestionLength) : s[1] < s[2]}

SmallMatchSets ==
  UNION {kSubset(k, [span : Spans, entity : {"e1", "e2"}]) : k \in 0 .. MaxMatches}

\* The greedy loops of _select_literal_entities choose what the definition without
\* loops does.  (Of the arguments only: looked at where a dialog starts.)
LiteralsAsSpecified == Init => \A matches \in SmallMatchSets : SelectedAsSpecified(matches)
=============================================================================
