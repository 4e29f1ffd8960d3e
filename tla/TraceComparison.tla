--------------------------- MODULE TraceComparison ---------------------------
(***************************************************************************)
(* diff_manifest: the manifest is run again in lockstep with the trace of  *)
(* another core.  Both sides are lazy: the reference runs to its next      *)
(* boundary when a record is asked for, then one record is read.           *)
(*                                                                         *)
(* A behaviour records a run, lets the other core's file differ from the   *)
(* record in up to two places, and compares.                               *)
(***************************************************************************)
EXTENDS Conformance

CONSTANTS
  Compared  \* bound: the initial states whose traces are compared

ASSUME ComparedAssumption == Compared \subseteq Initials

VARIABLES
  manifest,  \* the initial machine and the events, to run again
  records,   \* the records of the run, as write_trace writes them
  ending,    \* why that run stopped
  external,  \* the lines of the other core's file
  unread,    \* those read_trace has not come to
  pending,   \* the reference's record, waiting for its partner
  verdict    \* what first_trace_divergence returned or raised

diffVars == <<manifest, records, ending, external, unread, pending, verdict>>
tvars == <<cvars, diffVars>>

-----------------------------------------------------------------------------
(* Records *)

Cpu == [pc |-> pc, sp |-> sp, i |-> i, iff1 |-> iff1, iff2 |-> iff2, im |-> im,
        halted |-> halted, eiDelay |-> eiDelay, resetPending |-> resetPending,
        intVector |-> intVector, nmiPending |-> nmiPending]

(* trace_manifest's session does not track accesses *)
Recorded == [form |-> "record", kind |-> event'.kind, before |-> Cpu, after |-> Cpu',
             accesses |-> None]

Blank     == [form |-> "blank"]
Malformed == [form |-> "malformed"]

(* A file that differs in one place: cut short, gone on, a line that is    *)
(* blank or does not decode, a field with another value                    *)
Edited(file) ==
  LET found == {k \in DOMAIN file : file[k].form = "record"}
  IN {SubSeq(file, 1, k) : k \in 0 .. Len(file)}
       \cup {Append(file, file[k]) : k \in found}
       \cup {InsertAt(file, k, Blank) : k \in 1 .. Len(file) + 1}
       \cup {ReplaceAt(file, k, Malformed) : k \in DOMAIN file}
       \cup {[file EXCEPT ![k].kind = "halted"] : k \in found}
       \cup {[file EXCEPT ![k].before.iff1 = ~@] : k \in found}
       \cup {[file EXCEPT ![k].after.sp = Wrap(@ + 1)] : k \in found}
       \cup {[file EXCEPT ![k].accesses = {"read"}] : k \in found}

(* compare_step_records; accesses only where both have them *)
Differ(left, right) ==
  \/ left.kind # right.kind
  \/ left.before # right.before
  \/ left.after # right.after
  \/ /\ left.accesses # None /\ right.accesses # None
     /\ left.accesses # right.accesses

-----------------------------------------------------------------------------
(* The reference, in the run that is recorded and in the one compared *)

Asked == mode = "diff" => pending = None /\ verdict = None

Reference ==
  /\ Asked
  /\ RunStep
  /\ records' = IF mode = "trace" /\ stage = "step" /\ stage' = "top"
                  THEN Append(records, Recorded) ELSE records
  /\ pending' = IF mode = "diff" /\ stage = "step" /\ stage' = "top"
                  THEN Recorded ELSE pending
  /\ UNCHANGED <<manifest, ending, external, unread, verdict>>

RunSegment == StartSegment /\ UNCHANGED diffVars

StartDiff ==
  /\ mode = "trace" /\ stage = "ended"
  /\ \E m \in Compared : \A field \in DOMAIN m : m[field] = manifest.initial[field]
  /\ \E file \in {records} \cup Edited(records) :
       external' \in {file} \cup Edited(file)
  /\ unread' = external'
  /\ ending' = reason
  /\ Load(manifest.initial)
  /\ events' = manifest.events
  /\ Quiet("init") /\ afterEI' = FALSE
  /\ mode' = "diff" /\ stage' = "top" /\ steps' = 0
  /\ cursor' = 0 /\ output' = 0 /\ reason' = None /\ segTrace' = <<>>
  /\ UNCHANGED <<saved, budget, checkpoints, segment, trace, final,
                 manifest, records, pending, verdict>>

-----------------------------------------------------------------------------
(* One position of zip_longest, the reference's side first *)

(* read_trace: the next line that is not blank, 0 at the end *)
NextLine == SelectInSeq(unread, LAMBDA line : line.form # "blank")

Took(k) == unread' = IF k = 0 THEN <<>> ELSE SubSeq(unread, k + 1, Len(unread))

Answer(outcome, position) == verdict' = [outcome |-> outcome, position |-> position]

ComparePair ==
  /\ pending # None
  /\ LET k == NextLine  position == Len(segTrace) IN
       /\ Took(k)
       /\ IF k = 0 THEN Answer("diverged", position)
          ELSE IF unread[k].form = "malformed" THEN Answer("invalid", position)
          ELSE IF Differ(pending, unread[k]) THEN Answer("diverged", position)
          ELSE UNCHANGED verdict
  /\ pending' = None
  /\ stage' = IF verdict' = None THEN stage ELSE "ended"
  /\ UNCHANGED <<vars, mode, budget, steps, events, cursor, output, reason,
                 checkpoints, segment, trace, segTrace, final,
                 manifest, records, ending, external>>

AtEnd == mode = "diff" /\ stage = "ended" /\ pending = None /\ verdict = None

(* Mutant of ReferenceEnds: zip for zip_longest *)
ReferenceEndsAll ==
  /\ AtEnd
  /\ Answer(IF reason = "raised" THEN "raised" ELSE "equal", Len(segTrace) + 1)
  /\ UNCHANGED <<cvars, manifest, records, ending, external, unread, pending>>

(* The reference has no more records *)
ReferenceEnds ==
  /\ AtEnd
  /\ LET k == NextLine  position == Len(segTrace) + 1 IN
       IF reason = "raised" THEN Answer("raised", position) /\ UNCHANGED unread
       ELSE /\ Took(k)
            /\ Answer(IF k = 0 THEN "equal"
                      ELSE IF unread[k].form = "malformed" THEN "invalid" ELSE "diverged",
                      position)
  /\ UNCHANGED <<cvars, manifest, records, ending, external, pending>>

-----------------------------------------------------------------------------

TraceInit ==
  /\ ManifestInit
  /\ manifest = [initial |-> Machine, events |-> events]
  /\ records = <<>> /\ ending = None /\ external = <<>> /\ unread = <<>>
  /\ pending = None /\ verdict = None

TraceNext ==
  \/ Reference
  \/ RunSegment
  \/ StartDiff
  \/ ComparePair
  \/ ReferenceEnds

(* One Python loop drives both sides *)
FairTraces == TraceInit /\ [][TraceNext]_tvars /\ WF_tvars(TraceNext)

-----------------------------------------------------------------------------
(* Properties *)

(* The place reported is the first one where the file disagrees with the   *)
(* run as it was recorded: a field, a record one side lacks, or a line     *)
(* that does not decode, which is an error of that place; blank lines,     *)
(* accesses that only one side has and anything behind the place do not    *)
(* count.  A boundary that raises does so unless the file disagrees        *)
(* before.  No boundary is run behind the place (trace.py,                 *)
(* iter_trace_divergences; conformance.py, diff_manifest).                 *)
FirstDifferenceReported ==
  verdict # None =>
    LET n       == Len(records)
        file    == SelectSeq(external, LAMBDA line : line.form # "blank")
        invalid == {k \in DOMAIN file : file[k].form = "malformed"}
        unequal == {k \in (DOMAIN file \cap DOMAIN records) \ invalid :
                      \E field \in {"kind", "before", "after"} :
                        file[k][field] # records[k][field]}
        lone    == {k \in 1 .. n + Len(file) :
                      (k \in DOMAIN file) # (k \in DOMAIN records)}
        places  == invalid \cup unequal \cup lone
                     \cup IF ending = "raised" THEN {n + 1} ELSE {}
    IN IF places = {} THEN verdict.outcome = "equal"
       ELSE /\ verdict.position = Min(places)
            /\ verdict.outcome = IF ending = "raised" /\ Min(places) = n + 1 THEN "raised"
                                 ELSE IF Min(places) \in invalid THEN "invalid" ELSE "diverged"
            /\ Len(segTrace) <= verdict.position

=============================================================================
