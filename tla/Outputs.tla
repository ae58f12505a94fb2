------------------------------ MODULE Outputs -------------------------------
(***************************************************************************)
(* What the agent makes of a snapshot: the page of a report                *)
(* (internal/report), the support bundle (internal/ticket), the measure of *)
(* a profile (internal/profile), and where any of it may be sent           *)
(* (internal/egress).  Rendering and wording are left out.                 *)
(***************************************************************************)
EXTENDS Redact, FiniteSets, SequencesExt

CONSTANTS
    MaxAttachments,     \* the files one ticket carries
    MaxExpectations,    \* the rules one profile carries
    FixesHere           \* the fixes this build runs on this platform

ASSUME LimitsAssumption == MaxAttachments \in Nat /\ MaxExpectations \in Nat

Severities == {"ok", "attention", "urgent", "unknown"}

\* A snapshot: for each check its evidence, the arguments of its message and its error.
Leaf == [field : STRING, kind : STRING, value : Seq(STRING), number : Nat]
Result == [CheckID : STRING, severity : Severities, detail : Seq(Leaf), args : Seq(Leaf),
           err : Seq(STRING)]
Report == [results : Seq(Result), skipped : SUBSET STRING]

-----------------------------------------------------------------------------
(* The report. *)

\* The results of one severity, in the order of their IDs: they come in that one
\* (registry.go:66-75).
Rated(results, severity) ==
    LET upTo[n \in 0..Len(results)] ==
          IF n = 0 THEN <<>>
          ELSE IF results[n].severity = severity THEN Append(upTo[n - 1], results[n])
          ELSE upTo[n - 1]
    IN upTo[Len(results)]

\* The order a reader meets them in.
severityOrder(results) ==
    Rated(results, "urgent") \o Rated(results, "attention")
        \o Rated(results, "unknown") \o Rated(results, "ok")

\* The list of updates is a part of one check's evidence, and so is the number of them
\* the machine has on record.
patchTable(snap) ==
    LET own == SelectSeq(snap.results, LAMBDA r : r.CheckID = "updates.installed")
        evidence == IF own = <<>> THEN <<>> ELSE Head(own).detail
        rows == SelectSeq(evidence, LAMBDA l : l.field = "patches")
        recorded == {l.number : l \in {m \in ToSet(evidence) : m.field = "recorded"}}
    IN [rows |-> rows, capped |-> \E n \in recorded : n > Len(rows)]

\* Nothing urgent and nothing to attend to is said to be nothing found, whatever could
\* not be checked (README).
buildPage(snap) ==
    [results |-> severityOrder(snap.results),
     noFindings |-> \A r \in ToSet(snap.results) : r.severity \notin {"urgent", "attention"},
     skipped |-> snap.skipped,
     patches |-> patchTable(snap)]

-----------------------------------------------------------------------------
(* The ticket.  None stands for a refusal. *)

New(snap, description) ==
    IF description = "over the limit" THEN None
    ELSE [snapshot |-> snap, description |-> description, attachments |-> <<>>]

\* No attachment takes the place of the bundle's own files.
safeName(name) == IF name \in {"", "ticket.json", "report.html"} THEN "attachment" ELSE name

\* A file that grows while it is read is refused as one that was too large.
Refused(t, file) ==
    \/ Len(t.attachments) >= MaxAttachments
    \/ file.kind \in {"missing", "folder", "over the limit", "growing"}
    \/ file.media # "image"

\* One refusal ends it: nothing is dropped from a bundle in silence.
Attach(t, file) ==
    IF t = None THEN None
    ELSE IF Refused(t, file) THEN None
    ELSE [t EXCEPT !.attachments = Append(@, [name |-> safeName(file.name), content |-> file])]

Attached(t, files) ==
    LET after[n \in 0..Len(files)] == IF n = 0 THEN t ELSE Attach(after[n - 1], files[n])
    IN after[Len(files)]

\* The archive: what a tool reads, what a person reads, what the user put in.
Write(t) == [json |-> t.snapshot, html |-> buildPage(t.snapshot), files |-> t.attachments]

-----------------------------------------------------------------------------
(* The profile. *)

Valid(p) ==
    /\ p.schema = 1
    /\ p.name # ""
    /\ Len(p.expectations) \in 1..MaxExpectations
    /\ \A i \in DOMAIN p.expectations :
          /\ p.expectations[i].check # ""
          /\ p.expectations[i].worst \in Severities
          /\ \A j \in 1..i - 1 : p.expectations[j].check # p.expectations[i].check

Rank(s) == CASE s = "attention" -> 1 [] s = "urgent" -> 2 [] OTHER -> 0

ResultOf(snap, check) == SelectSeq(snap.results, LAMBDA r : r.CheckID = check)

State(e, snap) ==
    LET own == ResultOf(snap, e.check) IN
    CASE own = <<>> /\ e.check \in snap.skipped -> "unknown"
      [] own = <<>> /\ e.check \notin snap.skipped -> "missing"
      [] OTHER -> IF Head(own).severity = "unknown" THEN "unknown"
                  ELSE IF Rank(Head(own).severity) <= Rank(e.worst) THEN "met" ELSE "unmet"

\* A fix is offered only if this build can run it, and not for a check that is missing.
Measured(e, snap) ==
    [check |-> e.check, state |-> State(e, snap),
     offer |-> IF State(e, snap) \in {"unmet", "unknown"} THEN e.offer \cap FixesHere ELSE {}]

Measure(p, snap) ==
    [i \in DOMAIN p.expectations |-> Measured(p.expectations[i], snap)]

Conforms(findings) == \A f \in ToSet(findings) : f.state = "met"

-----------------------------------------------------------------------------
(* The rule on where to connect: an address is none at all, not a URL, of a *)
(* scheme that is not sent over, in the clear, or one of the two allowed.   *)

Secure == {"https", "http on this computer"}
CheckURL(address) == address \in Secure
=============================================================================
