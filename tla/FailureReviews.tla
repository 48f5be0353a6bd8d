--------------------------- MODULE FailureReviews ---------------------------
(***************************************************************************)
(* The two application tables and the operations on them: conversations    *)
(* (core/history.py), the review of a failed one                           *)
(* (core/query_failure_reviews.py) and the two admin endpoints             *)
(* (api/query_failures.py).  A review belongs to one conversation, which   *)
(* belongs to one request, so each is named by its request.                *)
(*                                                                         *)
(* Every statement is committed alone, so it is one step; what an admin    *)
(* does with a review takes several: it is opened, changed with the        *)
(* version that was seen, and read again on another connection after the   *)
(* change is committed.  Meanwhile other admins change it and the          *)
(* conversation may be deleted, which deletes the review with it.          *)
(***************************************************************************)
EXTENDS Naturals

CONSTANTS
  Requests,
  Users,
  Admins,      \* the users with role admin
  Nobody,      \* the username of no row
  Records,     \* what a conversation stores of a response
  NoRecord,    \* the record of no row
  Statuses,
  RESOLVED,
  Notes,       \* values of the other columns an admin can write
  MaxVersion   \* bound on the number of changes to a review

ASSUME ReviewAssumption ==
  /\ Admins \subseteq Users
  /\ "NEW" \in Statuses \ RESOLVED
  /\ "null" \notin Statuses
  /\ "null" \in Notes
  /\ MaxVersion \in Nat \ {0}

VARIABLES
  history,   \* request |-> its row in app.conversation_history
  review,    \* request |-> its row in app.query_failure_reviews, version 0: none
  seen,      \* admin |-> request |-> the review as last shown, version 0: never
  saving     \* admin |-> requests whose review it changed and has not read again

reviewVars == <<history, review, seen, saving>>

Review ==
  [status : Statuses, note : Notes, resolved_at : {"null", "time"}, version : Nat]

NoReview ==
  [status |-> "NEW", note |-> "null", resolved_at |-> "null", version |-> 0]

\* The columns' defaults.
NewReview == [NoReview EXCEPT !.version = 1]

\* An omitted field is "unset"; an explicit null is "null".
ReviewPatch ==
  [status : Statuses \cup {"null", "unset"}, note : Notes \cup {"unset"}]

NoRow == [state |-> "never", username |-> Nobody, record |-> NoRecord]

Row(username, record) ==
  [state |-> "stored", username |-> username, record |-> record]

Deleted == [NoRow EXCEPT !.state = "deleted"]

Stored(r) == history[r].state = "stored"

ReviewInit ==
  /\ history = [r \in Requests |-> NoRow]
  /\ review = [r \in Requests |-> NoReview]
  /\ seen = [a \in Admins |-> [r \in Requests |-> NoReview]]
  /\ saving = [a \in Admins |-> {}]

-----------------------------------------------------------------------------
(***************************************************************************)
(* core/history.py                                                         *)
(***************************************************************************)
save_conversation(r, username, record) ==
  /\ history[r].state = "never"
  /\ history' = [history EXCEPT ![r] = Row(username, record)]
  /\ UNCHANGED <<review, seen, saving>>

\* ON DELETE CASCADE takes the review along.  For anyone but the owner and the
\* admins nothing is deleted and the answer is 404.
delete_conversation(u, r) ==
  /\ Stored(r)
  /\ u \in Admins \/ u = history[r].username
  /\ history' = [history EXCEPT ![r] = Deleted]
  /\ review' = [review EXCEPT ![r] = NoReview]
  /\ UNCHANGED <<seen, saving>>

-----------------------------------------------------------------------------
(***************************************************************************)
(* core/query_failure_reviews.py                                           *)
(***************************************************************************)
\* Fails on the foreign key if the conversation is gone.  ON CONFLICT only
\* touches updated_at.
create_failure_review(r) ==
  /\ Stored(r)
  /\ review' = [review EXCEPT ![r] = IF @.version = 0 THEN NewReview ELSE @]
  /\ UNCHANGED <<history, seen, saving>>

\* Read a review to show it.  If there is none (404, or 409 as the answer to a
\* PATCH) the admin keeps what it has.
Show(a, r) ==
  seen' = [seen EXCEPT ![a][r] = IF review[r].version = 0 THEN @ ELSE review[r]]

get_failure_review(a, r) ==
  /\ Show(a, r)
  /\ UNCHANGED <<history, review, saving>>

\* Mutant: the version is counted only when the status changes.
Changed_StatusVersion(row, clean) ==
  [status |-> IF clean.status = "unset" THEN row.status ELSE clean.status,
   note |-> IF clean.note = "unset" THEN row.note ELSE clean.note,
   resolved_at |-> IF clean.status = "unset" THEN row.resolved_at
                   ELSE IF clean.status \in RESOLVED THEN "time" ELSE "null",
   version |-> IF clean.status = "unset" THEN row.version ELSE row.version + 1]

\* The row after UPDATE ... SET.
Changed(row, clean) ==
  [status |-> IF clean.status = "unset" THEN row.status ELSE clean.status,
   note |-> IF clean.note = "unset" THEN row.note ELSE clean.note,
   resolved_at |-> IF clean.status = "unset" THEN row.resolved_at
                   ELSE IF clean.status \in RESOLVED THEN "time" ELSE "null",
   version |-> row.version + 1]

\* Mutant: UPDATE ... WHERE review_id = ..., without the version.
update_failure_review_AnyVersion(a, r, clean) ==
  /\ seen[a][r].version \in 1 .. MaxVersion - 1
  /\ r \notin saving[a]
  /\ clean.status # "null"
  /\ clean.status # "unset" \/ clean.note # "unset"
  /\ review[r].version \in 1 .. MaxVersion - 1
  /\ review' = [review EXCEPT ![r] = Changed(@, clean)]
  /\ saving' = [saving EXCEPT ![a] = @ \cup {r}]
  /\ UNCHANGED <<history, seen>>

\* The handler up to the commit, with the version that was shown.  A null
\* status breaks NOT NULL, and a version that is not the row's matches no row
\* (409): neither changes anything.  Without a field to change it only reads.
update_failure_review(a, r, clean) ==
  /\ seen[a][r].version \in 1 .. MaxVersion - 1
  /\ r \notin saving[a]
  /\ UNCHANGED history
  /\ IF clean.status = "unset" /\ clean.note = "unset"
       THEN /\ Show(a, r)
            /\ UNCHANGED <<review, saving>>
       ELSE /\ clean.status # "null"
            /\ review[r].version = seen[a][r].version
            /\ review' = [review EXCEPT ![r] = Changed(@, clean)]
            /\ saving' = [saving EXCEPT ![a] = @ \cup {r}]
            /\ UNCHANGED seen

\* The read that answers the PATCH, on another connection.  If the row is gone
\* by now the answer is 409 although the change was made.
reread_review(a, r) ==
  /\ r \in saving[a]
  /\ saving' = [saving EXCEPT ![a] = @ \ {r}]
  /\ Show(a, r)
  /\ UNCHANGED <<history, review>>

\* That read fails, or its answer is lost: the admin keeps the old version.
reread_fails(a, r) ==
  /\ r \in saving[a]
  /\ saving' = [saving EXCEPT ![a] = @ \ {r}]
  /\ UNCHANGED <<history, review, seen>>

AdminStep ==
  \E a \in Admins, r \in Requests :
    \/ get_failure_review(a, r)
    \/ \E clean \in ReviewPatch : update_failure_review(a, r, clean)
    \/ reread_review(a, r)
    \/ reread_fails(a, r)

\* The server stops: PATCHes under way are not answered.
Restart ==
  /\ saving' = [a \in Admins |-> {}]
  /\ UNCHANGED <<history, review, seen>>

ReviewNext ==
  \/ \E r \in Requests, u \in Users, rec \in Records : save_conversation(r, u, rec)
  \/ \E r \in Requests, u \in Users : delete_conversation(u, r)
  \/ \E r \in Requests : create_failure_review(r)
  \/ AdminStep
  \/ Restart

ReviewSpec == ReviewInit /\ [][ReviewNext]_reviewVars

-----------------------------------------------------------------------------
(***************************************************************************)
(* Properties.                                                             *)
(***************************************************************************)
HistoryRow ==
  [state : {"never", "stored", "deleted"}, username : Users \cup {Nobody},
   record : Records \cup {NoRecord}]

\* The tables and what the admins see hold values of their types.
ReviewTypeOK ==
  /\ history \in [Requests -> HistoryRow]
  /\ review \in [Requests -> Review]
  /\ seen \in [Admins -> [Requests -> Review]]
  /\ saving \in [Admins -> SUBSET Requests]

\* The foreign key and its cascade: a review never outlives its conversation,
\* however deletions interleave with changes to it, so get_failure_review's JOIN
\* finds every review.
ReviewHasConversation ==
  \A r \in Requests : review[r].version # 0 => Stored(r)

\* resolved_at is set exactly for a review whose status is final
\* (update_failure_review sets or clears it whenever it writes the status).
ResolvedAtMatchesStatus ==
  \A r \in Requests : review[r].resolved_at = "time" <=> review[r].status \in RESOLVED

\* Two reads that show the same version show the same review: each change of
\* update_failure_review counts the version up.
VersionIdentifiesContent ==
  \A a \in Admins, r \in Requests :
    seen[a][r].version # 0 /\ review[r].version # 0 =>
      \/ seen[a][r].version < review[r].version
      \/ seen[a][r] = review[r]

\* Reviews stay sound under every interleaving of admins, deletions and
\* restarts: none without its conversation, none with a wrong resolved_at, and
\* a version stands for one content.
ReviewsSound ==
  ReviewHasConversation /\ ResolvedAtMatchesStatus /\ VersionIdentifiesContent

\* No admin overwrites a change it has not seen: when an update is accepted,
\* the row it is applied to is, column for column, the one on that admin's
\* screen (WHERE review_id AND version).
NoLostUpdate ==
  [][\A a \in Admins, r \in Requests :
       r \notin saving[a] /\ r \in saving'[a] => review[r] = seen[a][r]]_reviewVars
=============================================================================
