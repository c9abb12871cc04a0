------------------------------- MODULE AuditLog -------------------------------
(***************************************************************************)
(* What persistent ingestion promises its callers, without tables,         *)
(* transactions or locks: each attempt is logged at most once, as one      *)
(* outcome; it is answered at most once; and an answer that speaks of a    *)
(* record is given only after the record was logged with that outcome      *)
(* ("The application does not claim an audit record exists unless it       *)
(* committed successfully", docs/architecture.md).                         *)
(*                                                                         *)
(* Administrators may erase records, many at a time, and a crash may leave *)
(* attempts unanswered, logged or not.                                     *)
(***************************************************************************)
CONSTANTS Attempts

VARIABLES
    logged,   \* the outcome each attempt was ever logged with
    visible,  \* the attempts whose record is still there
    answer    \* what each caller was told

auditVars == <<logged, visible, answer>>

Outcomes == {"success", "failure"}

\* "disclaim" says that nothing was recorded; "unavailable" says nothing of that.
Answers == Outcomes \cup {"disclaim", "unavailable"}

AuditInit ==
    /\ logged = [a \in Attempts |-> "none"]
    /\ visible = {}
    /\ answer = [a \in Attempts |-> "none"]

Log(a, outcome) ==
    /\ logged[a] = "none" /\ answer[a] = "none"
    /\ logged' = [logged EXCEPT ![a] = outcome]
    /\ visible' = visible \cup {a}
    /\ UNCHANGED answer

Tell(a, r) ==
    /\ answer[a] = "none"
    /\ r \in Outcomes => logged[a] = r
    /\ r = "disclaim" => logged[a] = "none"
    /\ answer' = [answer EXCEPT ![a] = r]
    /\ UNCHANGED <<logged, visible>>

Erase(S) ==
    /\ visible' = visible \ S
    /\ UNCHANGED <<logged, answer>>

AuditNext ==
    \/ \E a \in Attempts, o \in Outcomes : Log(a, o)
    \/ \E a \in Attempts, r \in Answers : Tell(a, r)
    \/ \E S \in SUBSET visible : Erase(S)

AuditSpec == AuditInit /\ [][AuditNext]_auditVars

\* What a caller may conclude from an answer.
AnswersTruthful ==
    \A a \in Attempts :
        /\ answer[a] \in Outcomes => logged[a] = answer[a]
        /\ answer[a] = "disclaim" => logged[a] = "none"

=============================================================================
