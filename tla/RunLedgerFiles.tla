--------------------------- MODULE RunLedgerFiles ---------------------------
(***************************************************************************)
(* The files of the node's run ledger: how the ledger comes to exist, is   *)
(* adopted on a node that already ran jobs, and is opened again            *)
(* (crates/agent/src/run_ledger.rs).  Four files beside the checkpoint     *)
(* root tell one story between them:                                       *)
(*                                                                         *)
(*   ledger      the SQLite file, its generation and its rows              *)
(*   pair        the generation once more, in the start record folder      *)
(*   creating    marker of an unfinished first creation                    *)
(*   adopting    marker of an unfinished adoption                          *)
(*                                                                         *)
(* and `started` is the folder of start records.  One process at a time    *)
(* holds the root lock: an agent without the ledger ("legacy"), an agent   *)
(* with it ("agent"), or the adopt-legacy command ("adopt").  Each file    *)
(* operation is a step of its own and the process may die between any two. *)
(***************************************************************************)
EXTENDS Naturals, FiniteSets

CONSTANTS
    Attempt,     \* attempts the node may start
    Generation,  \* values new_generation may draw
    Void,        \* no file, no process, no attempt
    MaxCrash,    \* how often a process dies
    MaxLoss      \* how often a file is lost or put back from a backup

ASSUME VoidAssumption ==
    /\ Void \notin Generation /\ Void \notin Attempt
    /\ Void \notin {"legacy", "agent", "adopt"}
    /\ Void \notin [generation : Generation, rows : SUBSET Attempt]

ASSUME LedgerBoundsAssumption == MaxCrash \in Nat /\ MaxLoss \in Nat

VARIABLES
    started,   \* attempts with a start record
    ledger,    \* Void, or the ledger file
    pair,      \* Void, or the generation in the pair file
    creating,  \* Void, or the generation in the creating marker
    adopting,  \* Void, or the generation in the adopting marker
    temp,      \* Void, or the unpublished ledger file
    process,   \* the holder of the root lock
    used,      \* history: the ledger has been handed over for use
    crashes,
    losses

files == <<started, ledger, pair, creating, adopting, temp>>
ledgerVars == <<files, process, used, crashes, losses>>

Ledger == [generation : Generation, rows : SUBSET Attempt]

Down == [who |-> Void, at |-> "down", generation |-> Void,
         rows |-> {}, attempt |-> Void]

Steps == {"down", "mark", "pair", "temp", "link", "unlink", "unmark",
          "open", "rows", "serve", "inserted"}

Process == [who : {Void, "legacy", "agent", "adopt"}, at : Steps,
            generation : Generation \cup {Void}, rows : SUBSET Attempt,
            attempt : Attempt \cup {Void}]

\* Every file and process is what the code may write or hold.
LedgerTypeOK ==
    /\ started \subseteq Attempt
    /\ ledger \in Ledger \cup {Void}
    /\ pair \in Generation \cup {Void}
    /\ creating \in Generation \cup {Void}
    /\ adopting \in Generation \cup {Void}
    /\ temp \in Ledger \cup {Void}
    /\ process \in Process
    /\ used \in BOOLEAN
    /\ crashes \in 0 .. MaxCrash
    /\ losses \in 0 .. MaxLoss

LedgerInit ==
    /\ started = {} /\ ledger = Void /\ pair = Void
    /\ creating = Void /\ adopting = Void /\ temp = Void
    /\ process = Down /\ used = FALSE
    /\ crashes = 0 /\ losses = 0

(***************************************************************************)
(* Presence::never_enabled: none of the four files is there.               *)
(***************************************************************************)
\* Broken: looks at the ledger only, not at the pair and the markers.
NeverEnabledByLedger == ledger = Void

NeverEnabled ==
    ledger = Void /\ pair = Void /\ adopting = Void /\ creating = Void

(***************************************************************************)
(* The agent without the ledger.  open_run_ledger_at_startup lets it pass  *)
(* a root that never had one, and refuses every other root.                *)
(***************************************************************************)
LegacyMayStart == NeverEnabled

LegacyStart ==
    /\ process = Down
    /\ LegacyMayStart
    /\ process' = [Down EXCEPT !.who = "legacy", !.at = "serve"]
    /\ UNCHANGED <<files, used, crashes, losses>>

LegacyRecordsStart(a) ==
    /\ process.who = "legacy"
    /\ a \notin started
    /\ started' = started \cup {a}
    /\ UNCHANGED <<ledger, pair, creating, adopting, temp,
                   process, used, crashes, losses>>

(***************************************************************************)
(* open_for_agent, before it writes anything: which generation a missing   *)
(* ledger may be created with.  The value already written wins; a pair     *)
(* without the creating marker is a ledger that was in use and is lost.    *)
(***************************************************************************)
\* Broken: takes every pair for a lost ledger, the marker notwithstanding.
CreationAllowedOnce == started = {} /\ pair = Void

CreationAllowed ==
    /\ started = {}
    /\ ~ (pair # Void /\ creating = Void)
    /\ ~ (creating # Void /\ pair # Void /\ creating # pair)

\* Broken: draws a generation of its own after an interrupted creation.
CreationGenerationsFresh == Generation

CreationGenerations ==
    IF creating # Void THEN {creating} ELSE Generation

AgentOpens ==
    /\ process = Down
    /\ adopting = Void
    /\ \/ /\ ledger = Void
          /\ CreationAllowed
          /\ \E g \in CreationGenerations :
                 process' = [Down EXCEPT !.who = "agent", !.at = "mark",
                                         !.generation = g]
       \/ /\ ledger # Void
          /\ pair # Void
          /\ process' = [Down EXCEPT !.who = "agent", !.at = "open"]
    /\ UNCHANGED <<files, used, crashes, losses>>

(***************************************************************************)
(* adopt_legacy_files.  An adoption that already published its ledger only *)
(* has its marker removed; otherwise every start record becomes a closed   *)
(* row of a new ledger.  adopt_legacy_run_ledger has looked for open       *)
(* incidents and left-over containers before, and may stop there: then     *)
(* this step does not happen.                                              *)
(***************************************************************************)
AdoptionPublished ==
    /\ adopting # Void /\ ledger # Void
    /\ pair = adopting /\ ledger.generation = pair
    /\ started \subseteq ledger.rows

AdoptionAllowed ==
    /\ ledger = Void
    /\ creating = Void
    /\ ~ (pair # Void /\ adopting = Void)
    /\ ~ (pair # Void /\ adopting # Void /\ pair # adopting)

AdoptionGenerations ==
    IF pair # Void THEN {pair}
    ELSE IF adopting # Void THEN {adopting}
    ELSE Generation

AdoptOpens ==
    /\ process = Down
    /\ \/ /\ AdoptionPublished
          /\ process' = [Down EXCEPT !.who = "adopt", !.at = "unmark"]
       \/ /\ AdoptionAllowed
          /\ \E g \in AdoptionGenerations :
                 process' = [Down EXCEPT !.who = "adopt", !.at = "mark",
                                         !.generation = g, !.rows = started]
    /\ UNCHANGED <<files, used, crashes, losses>>

(***************************************************************************)
(* The creation sequence both share: the marker, the pair, the unpublished *)
(* file, the hard link that never replaces a ledger, the removal of the    *)
(* unpublished name, and the removal of the marker.  write_once accepts a  *)
(* file that already holds the same value and refuses another one.         *)
(***************************************************************************)
WritesOnce(held, g) == held \in {Void, g}

WriteMarker ==
    /\ process.at = "mark"
    /\ \/ /\ process.who = "agent"
          /\ WritesOnce(creating, process.generation)
          /\ creating' = process.generation
          /\ UNCHANGED adopting
       \/ /\ process.who = "adopt"
          /\ WritesOnce(adopting, process.generation)
          /\ adopting' = process.generation
          /\ UNCHANGED creating
    /\ process' = [process EXCEPT !.at = "pair"]
    /\ UNCHANGED <<started, ledger, pair, temp, used, crashes, losses>>

WritePair ==
    /\ process.at = "pair"
    /\ WritesOnce(pair, process.generation)
    /\ pair' = process.generation
    /\ process' = [process EXCEPT !.at = "temp"]
    /\ UNCHANGED <<started, ledger, creating, adopting, temp,
                   used, crashes, losses>>

WriteTemp ==
    /\ process.at = "temp"
    /\ temp' = [generation |-> process.generation, rows |-> process.rows]
    /\ process' = [process EXCEPT !.at = "link"]
    /\ UNCHANGED <<started, ledger, pair, creating, adopting,
                   used, crashes, losses>>

LinkLedger ==
    /\ process.at = "link"
    /\ ledger = Void
    /\ ledger' = temp
    /\ process' = [process EXCEPT !.at = "unlink"]
    /\ UNCHANGED <<started, pair, creating, adopting, temp,
                   used, crashes, losses>>

RemoveTemp ==
    /\ process.at = "unlink"
    /\ temp' = Void
    /\ process' = [process EXCEPT !.at = "unmark"]
    /\ UNCHANGED <<started, ledger, pair, creating, adopting,
                   used, crashes, losses>>

(***************************************************************************)
(* finish_marker.  The adopt command ends here: the ledger is handed over. *)
(***************************************************************************)
RemoveMarker ==
    /\ process.at = "unmark"
    /\ \/ /\ process.who = "agent"
          /\ creating' = Void
          /\ process' = [process EXCEPT !.at = "open"]
          /\ UNCHANGED <<adopting, used>>
       \/ /\ process.who = "adopt"
          /\ adopting' = Void
          /\ process' = Down
          /\ used' = TRUE
          /\ UNCHANGED creating
    /\ UNCHANGED <<started, ledger, pair, temp, crashes, losses>>

(***************************************************************************)
(* The rest of open_for_agent: an old unpublished file is removed, the     *)
(* generations are compared, a marker left by a creation that had already  *)
(* published its ledger is removed, and every start record must have a     *)
(* row.                                                                    *)
(***************************************************************************)
GenerationsAgree ==
    pair = ledger.generation /\ creating \in {Void, pair}

CheckGenerations ==
    /\ process.at = "open"
    /\ GenerationsAgree
    /\ temp' = Void
    /\ creating' = Void
    /\ process' = [process EXCEPT !.at = "rows"]
    /\ UNCHANGED <<started, ledger, pair, adopting, used, crashes, losses>>

\* Broken: forgets to compare the start records with the rows.
RowsCompleteUnchecked == TRUE

RowsComplete == started \subseteq ledger.rows

CheckRows ==
    /\ process.at = "rows"
    /\ RowsComplete
    /\ process' = [process EXCEPT !.at = "serve"]
    /\ used' = TRUE
    /\ UNCHANGED <<files, crashes, losses>>

\* A ledger that does not fit ends the process; nothing is written.
RefuseLedger ==
    /\ \/ process.at = "open" /\ ~ GenerationsAgree
       \/ process.at = "rows" /\ ~ RowsComplete
    /\ process' = Down
    /\ UNCHANGED <<files, used, crashes, losses>>

(***************************************************************************)
(* A run: the row first, then the start record.                            *)
(***************************************************************************)
InsertRow(a) ==
    /\ process.who = "agent" /\ process.at = "serve"
    /\ a \notin started /\ a \notin ledger.rows
    /\ ledger' = [ledger EXCEPT !.rows = @ \cup {a}]
    /\ process' = [process EXCEPT !.at = "inserted", !.attempt = a]
    /\ UNCHANGED <<started, pair, creating, adopting, temp,
                   used, crashes, losses>>

RecordStart ==
    /\ process.at = "inserted"
    /\ started' = started \cup {process.attempt}
    /\ process' = [process EXCEPT !.at = "serve", !.attempt = Void]
    /\ UNCHANGED <<ledger, pair, creating, adopting, temp,
                   used, crashes, losses>>

ProcessEnds ==
    /\ process.at = "serve"
    /\ process' = Down
    /\ UNCHANGED <<files, used, crashes, losses>>

(***************************************************************************)
(* The surroundings: a process dies, a file is lost, an older copy of the  *)
(* ledger is put back.                                                     *)
(***************************************************************************)
Crash ==
    /\ process # Down
    /\ crashes < MaxCrash
    /\ crashes' = crashes + 1
    /\ process' = Down
    /\ UNCHANGED <<files, used, losses>>

LoseFile ==
    /\ process = Down
    /\ losses < MaxLoss
    /\ losses' = losses + 1
    /\ \/ ledger # Void /\ ledger' = Void /\ UNCHANGED pair
       \/ pair # Void /\ pair' = Void /\ UNCHANGED ledger
    /\ UNCHANGED <<started, creating, adopting, temp, process, used, crashes>>

RestoreOldLedger ==
    /\ process = Down
    /\ losses < MaxLoss
    /\ losses' = losses + 1
    /\ ledger # Void
    /\ \E older \in SUBSET ledger.rows :
           /\ older # ledger.rows
           /\ ledger' = [ledger EXCEPT !.rows = older]
    /\ UNCHANGED <<started, pair, creating, adopting, temp,
                   process, used, crashes>>

LedgerNext ==
    \/ LegacyStart
    \/ \E a \in Attempt : LegacyRecordsStart(a)
    \/ AgentOpens
    \/ AdoptOpens
    \/ WriteMarker
    \/ WritePair
    \/ WriteTemp
    \/ LinkLedger
    \/ RemoveTemp
    \/ RemoveMarker
    \/ CheckGenerations
    \/ CheckRows
    \/ RefuseLedger
    \/ \E a \in Attempt : InsertRow(a)
    \/ RecordStart
    \/ ProcessEnds
    \/ Crash
    \/ LoseFile
    \/ RestoreOldLedger

(***************************************************************************)
(* The agent is started again whenever it is down (agent-loop), an         *)
(* unfinished adoption is run again (RUN_LEDGER_ADOPT_UNFINISHED tells the *)
(* operator to), and a running process moves on.                           *)
(***************************************************************************)
ProcessMoves ==
    \/ WriteMarker \/ WritePair \/ WriteTemp \/ LinkLedger \/ RemoveTemp
    \/ RemoveMarker \/ CheckGenerations \/ CheckRows \/ RefuseLedger
    \/ RecordStart \/ ProcessEnds

LedgerFairness ==
    /\ WF_ledgerVars(ProcessMoves)
    /\ SF_ledgerVars(AgentOpens)
    /\ WF_ledgerVars(adopting # Void /\ AdoptOpens)

LedgerSpec == LedgerInit /\ [][LedgerNext]_ledgerVars

LedgerFairSpec == LedgerSpec /\ LedgerFairness

-----------------------------------------------------------------------------
(***************************************************************************)
(* Properties.                                                             *)
(***************************************************************************)

\* The generations that stand in the files or are about to.
GenerationsWritten ==
    {pair, creating, adopting, process.generation} \cup
    {IF ledger = Void THEN Void ELSE ledger.generation}

\* However creations and adoptions were interrupted and resumed, the files
\* and the process that is writing them agree on one generation.
OneGeneration ==
    \A g, h \in GenerationsWritten \ {Void} : g = h

\* An agent that serves with the ledger has a ledger of the generation the
\* start record folder names, with a row for every attempt ever started on
\* this node: no start is forgotten, whatever crash or old copy came before.
ServesWithCompleteLedger ==
    process.who = "agent" /\ process.at \in {"serve", "inserted"} =>
        /\ ledger # Void
        /\ pair = ledger.generation
        /\ started \subseteq ledger.rows

\* The use of the ledger is final.  A ledger that was in use and is gone, its pair
\* file still there, is never created again, neither by the agent nor by the
\* adoption: RUN_LEDGER_LOST asks for a human.  And switching it on cannot be
\* undone: once it was handed over, no agent without it works on this root again.
LossIsNotPaperedOver == used /\ ledger = Void => ledger' = Void
NeverSwitchedOff == used /\ process.who # "legacy" => process'.who # "legacy"

LedgerUseIsFinal == [][LossIsNotPaperedOver /\ NeverSwitchedOff]_ledgerVars

\* A creation that was interrupted is finished by a later start, and an
\* adoption when it is run again, unless the ledger file or the pair file is
\* lost: then a human has to look.
InterruptedIsFinished ==
    /\ creating # Void
           ~> \/ process.who = "agent" /\ process.at = "serve"
              \/ losses > 0
    /\ adopting # Void ~> adopting = Void \/ losses > 0

=============================================================================
