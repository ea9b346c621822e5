----------------------------- MODULE RulesState -----------------------------
(***************************************************************************)
(* What a detection run of Rules keeps, and what it promises of the report *)
(* it leaves: the order of the rules, which of them give way to others,    *)
(* and when two issues are the same.                                       *)
(***************************************************************************)
EXTENDS Integers, Sequences, FiniteSets

CONSTANTS
  Books,    \* the snapshots a run may be started on
  Today,    \* the day of the snapshot
  Missing   \* a value that is not there

\* Rows have their ids to themselves; those of invoices are compared.
ASSUME RulesAssumption ==
  \A b \in Books :
    /\ \A c, d \in b.contracts : c.id = d.id => c = d
    /\ \A i, j \in b.invoices : i.id \in Nat /\ (i.id = j.id => i = j)

VARIABLES
  rulBook,    \* the input of the run
  rulStep,    \* the index in Order of the next rule, then the two last steps
  rulFired,   \* the rules that raised an issue
  rulRaw,     \* every issue the rules raised
  rulIssues   \* the issues of the run, once deduplicated

rulVars == <<rulBook, rulStep, rulFired, rulRaw, rulIssues>>

-----------------------------------------------------------------------------
\* The registered rules in the order of tier and priority.
Order ==
  <<"R001", "R006", "R007", "R008", "R009", "R002", "R003", "R010", "R017", "R018", "R004",
    "R005", "R011", "R012", "R013", "R014", "R016", "R110", "R111", "R113", "R060", "R061",
    "R062", "R160", "R064">>

LastRule == Len(Order)
Scored == LastRule + 3

\* What an issue of a rule is suppressed by, in the runner and the deduplicator.
Hierarchy(rule) ==
  CASE rule \in {"R002", "R003"} -> {"R004", "R005"}
    [] rule = "R062" -> {"R061"}
    [] OTHER -> {}

SameKey(x, y) == x.rule = y.rule /\ x.dims = y.dims

Capped(x, b) == \E c \in b.contracts : c.id = x.contract /\ ~c.ready

-----------------------------------------------------------------------------
Deduplicated == rulStep \in {Scored - 1, Scored}
Finished == rulStep = Scored

\* The rules that are more specific than one reported for the contract, or for the
\* customer of it; R062 is not run at all once R061 fired.
Explained(rule, contract, customers) ==
  \E x \in rulIssues :
    /\ x.rule \in Hierarchy(rule)
    /\ x.contract = contract \/ x.customer \in customers \/ rule = "R062"

\* The issues of a run have different keys: the insert that follows relies on it,
\* a second row of one key is refused and fails the run (removeDuplicates).
OneIssuePerKey == Deduplicated => \A x, y \in rulIssues : SameKey(x, y) => x = y

\* What a rule raised is reported by its key, no less severe and, unless the contract
\* is not ready, no less certain, or a more specific rule is reported instead
\* (removeDuplicates, applyHierarchySuppression, scoreIssues).
NothingSilenced ==
  Finished =>
    \A x \in rulRaw :
      \/ \E y \in rulIssues :
           /\ SameKey(x, y) /\ y.severity >= x.severity
           /\ y.confidence >= x.confidence \/ Capped(x, rulBook)
      \/ Explained(x.rule, x.contract, {x.customer} \ {Missing})

\* The issues of a run have different keys, and nothing raised is lost or played down
\* on the way into the report (deduplicateIssues, scoreIssues).
ReportInv == OneIssuePerKey /\ NothingSilenced
=============================================================================
