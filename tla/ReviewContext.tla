--------------------------- MODULE ReviewContext ---------------------------
(***************************************************************************)
(* Composing a review context out of files and changes that somebody is    *)
(* still working on, and freezing it for a run: compose of                 *)
(* src/afriend/reviewcontext.py and capture_artifact_input of              *)
(* src/afriend/commands/reviewcontext.py.                                  *)
(*                                                                         *)
(* Nothing locks the evidence.  A composer looks at all of it, one piece   *)
(* after the other, then looks at all of it again, and publishes only what *)
(* it saw twice: first the composite, then the sidecar with its digest.  A *)
(* run takes both as it finds them.  Composers of one output may overlap.  *)
(*                                                                         *)
(* A piece of evidence is worth what it is now: a number, new with every   *)
(* edit.  A composite is the pieces it was made of, 0 for what it was not  *)
(* asked for, and its digest is the composite.                             *)
(***************************************************************************)
EXTENDS Naturals, Sequences, FiniteSets

CONSTANTS
    Composers,   \* the invocations of afriend context compose
    InputsOf,    \* the files each was asked for: plan, review
    ChangesOf,   \* the parts of the changes it was asked for, in git's order
    None,        \* the file is not there
    MaxEdits,    \* bound on the edits of the evidence and of the composite
    MaxFailures, \* bound on the writes that fail and on the deaths
    MaxRuns      \* bound on the runs

Elements(s) == {s[i] : i \in 1 .. Len(s)}

\* All a composer was asked for, in the order it takes it.
Asked(c) == InputsOf[c] \o ChangesOf[c]
Pieces   == UNION {Elements(InputsOf[c]) \union Elements(ChangesOf[c]) : c \in Composers}

ASSUME AskedAssumption ==
    \A c \in Composers : InputsOf[c] \in Seq(Pieces) /\ ChangesOf[c] \in Seq(Pieces)
ASSUME ComposeBounds   == MaxEdits \in Nat /\ MaxFailures \in Nat /\ MaxRuns \in Nat

VARIABLES
    worth,     \* the evidence as it is
    output,    \* the composite
    sidecar,   \* the digest in the manifest beside it
    step,      \* where each composer stands
    at,        \* how many looks it has taken
    got,       \* what it has captured
    staged,    \* its temporary files
    reader,    \* where the run stands
    bytes,     \* the one read it made of the composite
    taken,     \* the pairs <<artifact, manifest>> that runs have frozen
    past,      \* history: the evidence as it has been
    outputs,   \* history: the composites that have been published
    edits, failures, runs

composing == <<step, at, got, staged>>
files     == <<output, sidecar>>
running   == <<reader, bytes, taken>>
bounds    == <<edits, failures, runs>>
vars      == <<worth, files, composing, running, past, outputs, bounds>>

Unseen == [p \in Pieces |-> 0]

Init ==
    /\ worth = [p \in Pieces |-> 1] /\ past = {worth}
    /\ output = None /\ sidecar = None /\ outputs = {}
    /\ step = [c \in Composers |-> "look"] /\ at = [c \in Composers |-> 0]
    /\ got = [c \in Composers |-> Unseen] /\ staged = [c \in Composers |-> {}]
    /\ reader = "idle" /\ bytes = None /\ taken = {}
    /\ edits = 0 /\ failures = 0 /\ runs = 0

\* Somebody works on the evidence, or on the composite itself.
Edit(p) ==
    /\ edits < MaxEdits /\ edits' = edits + 1
    /\ worth' = [worth EXCEPT ![p] = @ + 1]
    /\ past' = past \union {worth'}
    /\ UNCHANGED <<files, composing, running, outputs, failures, runs>>

EditComposite ==
    /\ edits < MaxEdits /\ edits' = edits + 1
    /\ output \notin {None, Unseen} /\ output' = Unseen
    /\ UNCHANGED <<worth, sidecar, composing, running, past, outputs, failures, runs>>

-----------------------------------------------------------------------------
(* Looking.                                                                *)

\* _read_input takes a file twice in a row; _capture_changes takes the tracked
\* and the untracked part of the working tree, then both ends of a range.
Twice(s)     == [i \in 1 .. 2 * Len(s) |-> s[(i + 1) \div 2]]
FirstLook(c) == Twice(InputsOf[c]) \o ChangesOf[c]

\* Slip: each piece is looked at again before the next is looked at.
LooksByPiece(c) == Twice(Asked(c))

\* _verify_input of all the inputs, then _verify_change of all the changes.
Looks(c) == FirstLook(c) \o Asked(c)

Refuse(c) ==
    /\ step' = [step EXCEPT ![c] = "refused"]
    /\ staged' = [staged EXCEPT ![c] = {}]

\* read_bounded_bytes of a file, git's account of a change.
Seen(p) == worth[p]

\* The first look captures, every other one compares.
Look(c) ==
    /\ step[c] = "look" /\ at[c] < Len(Looks(c))
    /\ at' = [at EXCEPT ![c] = @ + 1]
    /\ LET p == Looks(c)[at[c] + 1] IN
       \/ got[c][p] = 0
          /\ got' = [got EXCEPT ![c][p] = Seen(p)]
          /\ UNCHANGED <<step, staged>>
       \/ got[c][p] = Seen(p)
          /\ UNCHANGED <<step, got, staged>>
       \/ got[c][p] \notin {0, Seen(p)} /\ Refuse(c) /\ UNCHANGED got
    /\ UNCHANGED <<worth, files, running, past, outputs, bounds>>

\* A file that is no bounded regular UTF-8 file, an empty or oversized change,
\* an endpoint that is no commit, an output that is one of the inputs.
Unfit(c) ==
    /\ step[c] = "look" /\ failures < MaxFailures /\ failures' = failures + 1
    /\ Refuse(c)
    /\ UNCHANGED <<worth, files, at, got, running, past, outputs, edits, runs>>

-----------------------------------------------------------------------------
(* Publishing: two files are staged, then put in place one by one.         *)

\* _render_composite; and of the ContextManifest the output_sha256.
Composite(c) == got[c]
Manifest(c)  == Composite(c)

StageOutput(c) ==
    /\ step[c] = "look" /\ at[c] = Len(Looks(c))
    /\ staged' = [staged EXCEPT ![c] = {"output"}]
    /\ step' = [step EXCEPT ![c] = "staging"]
    /\ UNCHANGED <<worth, files, at, got, running, past, outputs, bounds>>

StageSidecar(c) ==
    /\ step[c] = "staging"
    /\ staged' = [staged EXCEPT ![c] = {"output", "sidecar"}]
    /\ step' = [step EXCEPT ![c] = "staged"]
    /\ UNCHANGED <<worth, files, at, got, running, past, outputs, bounds>>

PlaceOutput(c) ==
    /\ output' = Composite(c) /\ outputs' = outputs \union {output'}
    /\ staged' = [staged EXCEPT ![c] = @ \ {"output"}]
    /\ UNCHANGED sidecar

PlaceSidecar(c) ==
    /\ sidecar' = Manifest(c)
    /\ staged' = [staged EXCEPT ![c] = @ \ {"sidecar"}]
    /\ UNCHANGED <<output, outputs>>

\* Slip: the manifest is put in place before the composite.
SidecarFirst(c, first) == IF first THEN PlaceSidecar(c) ELSE PlaceOutput(c)

\* The composite is the authoritative artifact and goes first.
Place(c, first) == IF first THEN PlaceOutput(c) ELSE PlaceSidecar(c)

Publish(c) ==
    /\ step[c] \in {"staged", "placed"}
    /\ Place(c, step[c] = "staged")
    /\ step' = [step EXCEPT ![c] = IF @ = "staged" THEN "placed" ELSE "done"]
    /\ UNCHANGED <<worth, at, got, running, past, bounds>>

\* A write that fails takes the temporary files with it; a composite that is
\* in place stays there.
WriteFails(c) ==
    /\ step[c] \in {"staging", "staged", "placed"}
    /\ failures < MaxFailures /\ failures' = failures + 1
    /\ Refuse(c)
    /\ UNCHANGED <<worth, files, at, got, running, past, outputs, edits, runs>>

Die(c) ==
    /\ step[c] \notin {"done", "refused", "dead"}
    /\ failures < MaxFailures /\ failures' = failures + 1
    /\ step' = [step EXCEPT ![c] = "dead"]
    /\ UNCHANGED <<worth, files, at, got, staged, running, past, outputs, edits, runs>>

-----------------------------------------------------------------------------
(* A run reads the composite once, then the sidecar.                       *)

Read ==
    /\ reader = "idle" /\ runs < MaxRuns /\ runs' = runs + 1
    /\ output # None
    /\ bytes' = output
    /\ reader' = "marked"
    /\ UNCHANGED <<worth, files, composing, taken, past, outputs, edits, failures>>

\* Slip: the digest is compared with another read of the composite.
BoundByAnotherRead == sidecar # None /\ sidecar = output

\* capture_review_context: the digest is that of the bytes in hand.
Bound == sidecar # None /\ sidecar = bytes

\* artifact_copy_bytes freezes the bytes in hand as well.
Take ==
    /\ reader = "marked"
    /\ taken' = IF Bound THEN taken \union {<<bytes, sidecar>>} ELSE taken
    /\ reader' = "idle" /\ bytes' = None
    /\ UNCHANGED <<worth, files, composing, past, outputs, bounds>>

Next ==
    \/ \E p \in Pieces : Edit(p)
    \/ EditComposite
    \/ \E c \in Composers :
         \/ Look(c) \/ Unfit(c) \/ StageOutput(c) \/ StageSidecar(c)
         \/ Publish(c) \/ WriteFails(c) \/ Die(c)
    \/ Read \/ Take

Spec == Init /\ [][Next]_vars

-----------------------------------------------------------------------------
\* What is published was all true at one moment: plan, review and changes of
\* one composite belong together, although they were taken one by one while
\* they were being edited.
IsACut(composite) == \E w \in past : \A p \in Pieces : composite[p] \in {0, w[p]}

PublishedIsACut == \A o \in outputs : IsACut(o)

\* A sidecar never runs ahead of its composite: it attests one that has been
\* published, whichever write fails and whoever else composes.
SidecarFollowsComposite == sidecar = None \/ sidecar \in outputs

\* What a run has frozen is what its manifest attests, and is a composite as
\* it was composed, although both files may be replaced between its reads.
TakenIsAttested == \A t \in taken : t[1] = t[2] /\ IsACut(t[1])
=============================================================================
