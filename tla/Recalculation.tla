---------------------------- MODULE Recalculation ----------------------------
(***************************************************************************)
(* A worksheet in the browser while collaborators change the document:     *)
(* the calculator of the sheet, and the view that brings remote changes in *)
(* (sheet-view.tsx, runRemoteSync and scheduleRemoteSync).                 *)
(*                                                                         *)
(* Remote changes are gathered into one run per frame.  A run loads the    *)
(* state of the sheet and, if the change that asked for it needs it,       *)
(* evaluates the formulas that read other worksheets.                      *)
(***************************************************************************)
EXTENDS Calculator

CONSTANTS
    RemoteKinds,  \* what collaborators do: "style", "outside", "edit"
    MaxRemote,    \* bound: remote changes
    MaxShared     \* bound: cells in use in a sheet that sees remote changes

ASSUME BoundsAssumption == MaxRemote \in Nat

VARIABLES
    frame,        \* recalcFrame: the needsRecalc it was asked with, or None
    running,      \* recalcInFlight: the needsRecalc of the run, or None
    pending,      \* recalcPending
    cache,        \* crossSheetFormulaSrefs: formulas known to read other sheets, or None
    arrived,      \* history: remote changes so far
    loaded,       \* history: those the last run has loaded
    unlike        \* history: one of them was no change of another sheet's cells

sheet == <<cells, blockers, typed, circular>>
sync == <<frame, running, pending>>
vars == <<sheet, sync, cache, arrived, loaded, unlike>>

InUse(contents) == Cardinality({p \in Cells : contents[p] # Blank})

Init ==
    /\ cells = [p \in Cells \cup Outside |-> Empty]
    /\ blockers = <<>>
    /\ typed = [p \in Cells |-> Blank]
    /\ circular = FALSE
    /\ frame = None /\ running = TRUE /\ pending = FALSE
    /\ cache = None
    /\ arrived = 0 /\ loaded = 0 /\ unlike = FALSE

(* Mutant: the set of formulas that read other sheets is kept. *)
EditKeepsCache ==
    /\ \E order \in Orders :
          \/ \E n \in DOMAIN Inputs : SetData(Inputs[n][1], Inputs[n][2], order)
          \/ \E selection \in Selections : RemoveData(selection, order)
    /\ arrived > 0 => InUse(typed') <= MaxShared
    /\ UNCHANGED <<sync, cache, arrived, loaded, unlike>>
\* The user edits the sheet, or tries to; the cached set is dropped either way.
Edit ==
    /\ \E order \in Orders :
          \/ \E n \in DOMAIN Inputs : SetData(Inputs[n][1], Inputs[n][2], order)
          \/ \E selection \in Selections : RemoveData(selection, order)
    /\ arrived > 0 => InUse(typed') <= MaxShared
    /\ cache' = None
    /\ UNCHANGED <<sync, arrived, loaded, unlike>>

-----------------------------------------------------------------------------
(* Remote changes.                                                         *)

\* scheduleRemoteSync: a frame that is already asked for keeps its needsRecalc.
Schedule(needsRecalc) ==
    frame' = IF frame = None THEN needsRecalc ELSE frame

Remote(kind) ==
    /\ kind \in RemoteKinds
    /\ arrived < MaxRemote
    /\ InUse(typed) <= MaxShared
    /\ arrived' = arrived + 1
    /\ unlike' = (unlike \/ kind # "outside")
    /\ Schedule(kind # "style")
    /\ UNCHANGED <<running, pending, cache, loaded>>

\* Anything but cells, merges and the names of tabs.
RemoteStyle ==
    /\ Remote("style")
    /\ UNCHANGED sheet

\* A cell of another worksheet.
RemoteOutside ==
    /\ Remote("outside")
    /\ \E p \in Outside, v \in {Blank, Number} :
          /\ cells[p].v # v
          /\ cells' = [cells EXCEPT ![p].v = v]
    /\ UNCHANGED <<blockers, typed, circular>>

\* A collaborator edits this worksheet, in a browser that has met no blocked spill.
RemoteEdit ==
    /\ Remote("edit")
    /\ \E n \in DOMAIN Inputs, order \in Orders :
          LET p == Inputs[n][1]
              after == Set([cells |-> cells, blockers |-> <<>>], p, Inputs[n][2], order)
          IN  /\ cells[p].ghostOf = None
              /\ Become([after EXCEPT !.blockers = blockers], {p}, Inputs[n][2])
    /\ InUse(typed') <= MaxShared

-----------------------------------------------------------------------------
(* Runs.                                                                   *)

(* Mutant: nothing is noted for the run that is under way. *)
FrameWhileBusy ==
    /\ frame # None
    /\ frame' = None
    /\ running' = IF running = None THEN frame ELSE running
    /\ loaded' = IF running = None THEN arrived ELSE loaded
    /\ UNCHANGED <<sheet, pending, cache, arrived, unlike>>
\* The animation frame calls runRemoteSync, which loads the state or leaves a note.
Frame ==
    /\ frame # None
    /\ frame' = None
    /\ IF running = None
       THEN running' = frame /\ loaded' = arrived /\ UNCHANGED pending
       ELSE pending' = TRUE /\ UNCHANGED <<running, loaded>>
    /\ UNCHANGED <<sheet, cache, arrived, unlike>>

ReadsOutside(cs, p) == HasFormula(cs, p) /\ Reads(cs, p) \cap Outside # {}

\* recalculateCrossSheetFormulas; a set kept from before is not looked at again.
Recalculate(order) ==
    LET roots == IF cache # None THEN cache ELSE {p \in Cells : ReadsOutside(cells, p)}
        after == Calculate([cells |-> cells, blockers |-> blockers],
                           Dependants(cells, order), Omitting(order, Cells \ roots))
    IN  /\ Become(after, {}, Blank)
        /\ cache' = roots

\* The promises of a run have settled; with a note it starts again, for what it was
\* started for.
Settled ==
    /\ running # None
    /\ pending' = FALSE
    /\ running' = IF pending THEN running ELSE None
    /\ loaded' = IF pending THEN arrived ELSE loaded
    /\ UNCHANGED <<frame, arrived, unlike>>

RunEnds ==
    /\ Settled
    /\ IF running = TRUE THEN \E order \in Orders : Recalculate(order)
       ELSE UNCHANGED <<sheet, cache>>

-----------------------------------------------------------------------------
Next == Edit \/ RemoteStyle \/ RemoteOutside \/ RemoteEdit \/ Frame \/ RunEnds

Spec == Init /\ [][Next]_vars
\* The browser paints the tab at some time, and the promises of a run settle.
FairSpec == Spec /\ WF_vars(Frame) /\ WF_sync(Settled)

TypeOK ==
    /\ cells \in [Cells \cup Outside -> CellType]
    /\ DOMAIN blockers \subseteq Cells
    /\ ~circular /\ ~unlike => \A p \in DOMAIN blockers :
          cells[blockers[p]].blocked /\ p \in ToSet(Around(cells[blockers[p]].f))
    /\ typed \in [Cells -> Formulas \cup {Number, Blank}]
    /\ {frame, running} \subseteq {None, TRUE, FALSE} /\ pending \in BOOLEAN
    /\ cache = None \/ cache \subseteq Cells
    /\ loaded \in 0 .. arrived /\ arrived \in 0 .. MaxRemote

\* Every remote change is loaded by a run that starts after it, and shown when that
\* run has ended, whatever runs and frames it meets.
ChangesAreShown == \A n \in 1 .. MaxRemote : arrived >= n ~> loaded >= n /\ running = None

\* Formulas that read the other worksheet, at any distance, and no spill.
Stale ==
    \E p \in Cells :
        /\ HasFormula(cells, p) /\ ~Spills(cells[p].f)
        /\ Upstream(cells, p) \cap Outside # {}
        /\ Upstream(cells, p) \cap (SpillCells \cup {p}) = {}
        /\ cells[p].v # Evaluate(cells, cells[p].f)[1]
\* As long as only cells of the other worksheet change remotely, the formulas that
\* read them catch up.
FormulasCatchUp == Stale ~> ~Stale \/ unlike \/ circular

\* Formulas show what they evaluate to and circular references an error.
ShownIsRight == FormulasAreCurrent /\ CirclesShowErrors

\* Spills come and go without a trace: blockers are noted for anchors that are
\* blocked, ghosts go with their formula, what was typed remains.
SpillsAreClean == TypeOK /\ GhostsHaveTheirFormula /\ TypedIsKept
=============================================================================
