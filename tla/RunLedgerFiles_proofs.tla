----------------------- MODULE RunLedgerFiles_proofs -----------------------
(***************************************************************************)
(* Proofs about the files of the run ledger, for any attempts, any         *)
(* generations and any number of crashes.  The two theorems about a lost   *)
(* ledger assume what they are about: that at most one file was lost.      *)
(***************************************************************************)
EXTENDS RunLedgerFiles, TLAPS

Writing == {"mark", "pair", "temp", "link"}

\* What each step of the process may rely on from the steps before it.
StepsFollow ==
    /\ process.at \in Writing => process.generation # Void
    /\ process.at = "link" => /\ temp # Void
                              /\ temp.generation = process.generation
    /\ process.at \in {"unlink", "unmark", "open", "rows"} => ledger # Void
    /\ process.at \in {"open", "rows", "inserted"} => process.who = "agent"
    /\ process.at = "rows" => pair = ledger.generation
    /\ process.at = "inserted" => /\ process.attempt # Void
                                  /\ process.attempt \in ledger.rows

IInv == LedgerTypeOK /\ StepsFollow /\ OneGeneration /\ ServesWithCompleteLedger

\* The process AgentOpens starts, with the generation it is to write.
LEMMA AgentOpensCases ==
    ASSUME LedgerTypeOK, AgentOpens
    PROVE  \/ /\ ledger # Void /\ pair # Void
              /\ process' = [who |-> "agent", at |-> "open", generation |-> Void,
                             rows |-> {}, attempt |-> Void]
           \/ /\ ledger = Void /\ CreationAllowed
              /\ \E g \in Generation :
                     /\ creating # Void => g = creating
                     /\ process' = [who |-> "agent", at |-> "mark",
                                    generation |-> g, rows |-> {},
                                    attempt |-> Void]
<1>1. CASE ledger = Void
  <2>1. PICK g \in CreationGenerations :
              process' = [Down EXCEPT !.who = "agent", !.at = "mark",
                                      !.generation = g]
    BY <1>1 DEF AgentOpens
  <2>2. g \in Generation /\ (creating # Void => g = creating)
    BY <2>1 DEF CreationGenerations, LedgerTypeOK
  <2>3. process' = [who |-> "agent", at |-> "mark", generation |-> g,
                    rows |-> {}, attempt |-> Void]
    BY <2>1 DEF Down
  <2> QED BY <1>1, <2>2, <2>3 DEF AgentOpens
<1>2. CASE ledger # Void BY <1>2 DEF AgentOpens, Down
<1> QED BY <1>1, <1>2

\* The process AdoptOpens starts, likewise.
LEMMA AdoptOpensCases ==
    ASSUME LedgerTypeOK, AdoptOpens
    PROVE  \/ /\ AdoptionPublished
              /\ process' = [who |-> "adopt", at |-> "unmark",
                             generation |-> Void, rows |-> {}, attempt |-> Void]
           \/ /\ AdoptionAllowed
              /\ \E g \in Generation :
                     /\ adopting # Void => g = adopting
                     /\ process' = [who |-> "adopt", at |-> "mark",
                                    generation |-> g, rows |-> started,
                                    attempt |-> Void]
<1>1. CASE AdoptionAllowed /\ \E g \in AdoptionGenerations :
              process' = [Down EXCEPT !.who = "adopt", !.at = "mark",
                                      !.generation = g, !.rows = started]
  <2>1. PICK g \in AdoptionGenerations :
              process' = [Down EXCEPT !.who = "adopt", !.at = "mark",
                                      !.generation = g, !.rows = started]
    BY <1>1
  <2>2. g \in Generation /\ (adopting # Void => g = adopting)
    BY <1>1, <2>1 DEF AdoptionGenerations, AdoptionAllowed, LedgerTypeOK
  <2>3. process' = [who |-> "adopt", at |-> "mark", generation |-> g,
                    rows |-> started, attempt |-> Void]
    BY <2>1 DEF Down
  <2> QED BY <1>1, <2>2, <2>3
<1>2. CASE /\ AdoptionPublished
           /\ process' = [Down EXCEPT !.who = "adopt", !.at = "unmark"]
  BY <1>2 DEF Down
<1> QED BY <1>1, <1>2 DEF AdoptOpens

\* Every step keeps the types.
LEMMA TypeStep == IInv /\ [LedgerNext]_ledgerVars => LedgerTypeOK'
<1> SUFFICES ASSUME LedgerTypeOK, StepsFollow, ServesWithCompleteLedger, [LedgerNext]_ledgerVars
               PROVE  LedgerTypeOK'
  BY DEF IInv
<1> USE VoidAssumption, LedgerBoundsAssumption
        DEF LedgerTypeOK, Ledger, Process, Steps, Down, files, Writing
<1>1. CASE LegacyStart BY <1>1 DEF LegacyStart
<1>2. ASSUME NEW a \in Attempt, LegacyRecordsStart(a) PROVE LedgerTypeOK'
  BY <1>2 DEF LegacyRecordsStart
<1>3. CASE AgentOpens
  <2>0. UNCHANGED <<files, used, crashes, losses>>
    BY <1>3 DEF AgentOpens
  <2>1. CASE ledger # Void
    <3>1. process' = [who |-> "agent", at |-> "open", generation |-> Void,
                      rows |-> {}, attempt |-> Void]
      BY <1>3, <2>1, AgentOpensCases
    <3> QED BY <2>0, <2>1, <3>1
  <2>2. CASE ledger = Void
    <3>1. PICK g \in Generation :
                /\ creating # Void => g = creating
                /\ process' = [who |-> "agent", at |-> "mark", generation |-> g,
                               rows |-> {}, attempt |-> Void]
      BY <1>3, <2>2, AgentOpensCases
    <3> QED BY <1>3, <2>0, <2>2, <3>1 DEF CreationAllowed, AgentOpens
  <2> QED BY <2>1, <2>2
<1>4. CASE AdoptOpens
  <2>0. UNCHANGED <<files, used, crashes, losses>>
    BY <1>4 DEF AdoptOpens
  <2>1. CASE /\ AdoptionPublished
             /\ process' = [who |-> "adopt", at |-> "unmark",
                            generation |-> Void, rows |-> {}, attempt |-> Void]
    BY <2>0, <2>1 DEF AdoptionPublished
  <2>2. ASSUME AdoptionAllowed,
               NEW g \in Generation,
               adopting # Void => g = adopting,
               process' = [who |-> "adopt", at |-> "mark", generation |-> g,
                           rows |-> started, attempt |-> Void]
        PROVE  LedgerTypeOK'
    BY <2>0, <2>2 DEF AdoptionAllowed
  <2> QED BY <1>4, <2>1, <2>2, AdoptOpensCases
<1>5. CASE WriteMarker BY <1>5 DEF WriteMarker
<1>6. CASE WritePair BY <1>6 DEF WritePair
<1>7. CASE WriteTemp BY <1>7 DEF WriteTemp, StepsFollow
<1>8. CASE LinkLedger BY <1>8 DEF LinkLedger
<1>9. CASE RemoveTemp BY <1>9 DEF RemoveTemp
<1>10. CASE RemoveMarker
  <2>1. CASE process.who = "agent" /\ process' = [process EXCEPT !.at = "open"]
    BY <1>10, <2>1 DEF RemoveMarker
  <2>2. CASE process.who = "adopt" /\ process' = Down
    BY <1>10, <2>2 DEF RemoveMarker
  <2> QED BY <1>10, <2>1, <2>2 DEF RemoveMarker
<1>11. CASE CheckGenerations BY <1>11 DEF CheckGenerations
<1>12. CASE CheckRows BY <1>12 DEF CheckRows
<1>13. CASE RefuseLedger BY <1>13 DEF RefuseLedger
<1>14. ASSUME NEW a \in Attempt, InsertRow(a) PROVE LedgerTypeOK'
  <2>1. ledger # Void
    BY <1>14 DEF InsertRow, ServesWithCompleteLedger
  <2> QED BY <1>14, <2>1 DEF InsertRow
<1>15. CASE RecordStart BY <1>15 DEF RecordStart, StepsFollow
<1>16. CASE ProcessEnds BY <1>16 DEF ProcessEnds
<1>17. CASE Crash BY <1>17 DEF Crash
<1>18. CASE LoseFile BY <1>18 DEF LoseFile
<1>19. CASE RestoreOldLedger BY <1>19 DEF RestoreOldLedger
<1>20. CASE UNCHANGED ledgerVars BY <1>20 DEF ledgerVars
<1> QED
  BY <1>1, <1>2, <1>3, <1>4, <1>5, <1>6, <1>7, <1>8, <1>9, <1>10, <1>11,
     <1>12, <1>13, <1>14, <1>15, <1>16, <1>17, <1>18, <1>19, <1>20 DEF LedgerNext

\* Every step of the process finds what the steps before it wrote.
LEMMA StepsFollowStep == IInv /\ [LedgerNext]_ledgerVars => StepsFollow'
<1> SUFFICES ASSUME LedgerTypeOK, StepsFollow, ServesWithCompleteLedger, [LedgerNext]_ledgerVars
             PROVE  StepsFollow'
  BY DEF IInv
<1> USE VoidAssumption
        DEF LedgerTypeOK, StepsFollow, Ledger, Process, Steps, Down, files, Writing
<1>1. CASE LegacyStart BY <1>1 DEF LegacyStart
<1>2. ASSUME NEW a \in Attempt, LegacyRecordsStart(a) PROVE StepsFollow'
  BY <1>2 DEF LegacyRecordsStart
<1>3. CASE AgentOpens
  <2>0. UNCHANGED <<files, used, crashes, losses>>
    BY <1>3 DEF AgentOpens
  <2>1. CASE ledger # Void
    <3>1. process' = [who |-> "agent", at |-> "open", generation |-> Void,
                      rows |-> {}, attempt |-> Void]
      BY <1>3, <2>1, AgentOpensCases
    <3> QED BY <2>0, <2>1, <3>1
  <2>2. CASE ledger = Void
    <3>1. PICK g \in Generation :
                /\ creating # Void => g = creating
                /\ process' = [who |-> "agent", at |-> "mark", generation |-> g,
                               rows |-> {}, attempt |-> Void]
      BY <1>3, <2>2, AgentOpensCases
    <3> QED BY <1>3, <2>0, <2>2, <3>1 DEF CreationAllowed, AgentOpens
  <2> QED BY <2>1, <2>2
<1>4. CASE AdoptOpens
  <2>0. UNCHANGED <<files, used, crashes, losses>>
    BY <1>4 DEF AdoptOpens
  <2>1. CASE /\ AdoptionPublished
             /\ process' = [who |-> "adopt", at |-> "unmark",
                            generation |-> Void, rows |-> {}, attempt |-> Void]
    BY <2>0, <2>1 DEF AdoptionPublished
  <2>2. ASSUME AdoptionAllowed,
               NEW g \in Generation,
               adopting # Void => g = adopting,
               process' = [who |-> "adopt", at |-> "mark", generation |-> g,
                           rows |-> started, attempt |-> Void]
        PROVE  StepsFollow'
    BY <2>0, <2>2 DEF AdoptionAllowed
  <2> QED BY <1>4, <2>1, <2>2, AdoptOpensCases
<1>5. CASE WriteMarker BY <1>5 DEF WriteMarker
<1>6. CASE WritePair BY <1>6 DEF WritePair
<1>7. CASE WriteTemp BY <1>7 DEF WriteTemp
<1>8. CASE LinkLedger BY <1>8 DEF LinkLedger
<1>9. CASE RemoveTemp BY <1>9 DEF RemoveTemp
<1>10. CASE RemoveMarker BY <1>10 DEF RemoveMarker
<1>11. CASE CheckGenerations BY <1>11 DEF CheckGenerations, GenerationsAgree
<1>12. CASE CheckRows BY <1>12 DEF CheckRows
<1>13. CASE RefuseLedger BY <1>13 DEF RefuseLedger
<1>14. ASSUME NEW a \in Attempt, InsertRow(a) PROVE StepsFollow'
  BY <1>14 DEF InsertRow, ServesWithCompleteLedger
<1>15. CASE RecordStart BY <1>15 DEF RecordStart
<1>16. CASE ProcessEnds BY <1>16 DEF ProcessEnds
<1>17. CASE Crash BY <1>17 DEF Crash
<1>18. CASE LoseFile BY <1>18 DEF LoseFile
<1>19. CASE RestoreOldLedger BY <1>19 DEF RestoreOldLedger
<1>20. CASE UNCHANGED ledgerVars BY <1>20 DEF ledgerVars
<1> QED
  BY <1>1, <1>2, <1>3, <1>4, <1>5, <1>6, <1>7, <1>8, <1>9, <1>10, <1>11,
     <1>12, <1>13, <1>14, <1>15, <1>16, <1>17, <1>18, <1>19, <1>20 DEF LedgerNext

\* No step brings in a second generation.
LEMMA GenerationStep == IInv /\ [LedgerNext]_ledgerVars => OneGeneration'
<1> SUFFICES ASSUME LedgerTypeOK, StepsFollow, OneGeneration,
                    ServesWithCompleteLedger, [LedgerNext]_ledgerVars
             PROVE  OneGeneration'
  BY DEF IInv
<1> USE VoidAssumption
        DEF LedgerTypeOK, OneGeneration, GenerationsWritten, Ledger, Process, Down, files
<1>1. CASE LegacyStart BY <1>1 DEF LegacyStart
<1>2. ASSUME NEW a \in Attempt, LegacyRecordsStart(a) PROVE OneGeneration'
  BY <1>2 DEF LegacyRecordsStart
<1>3. CASE AgentOpens
  <2>0. UNCHANGED <<files, used, crashes, losses>>
    BY <1>3 DEF AgentOpens
  <2>1. CASE ledger # Void
    <3>1. process' = [who |-> "agent", at |-> "open", generation |-> Void,
                      rows |-> {}, attempt |-> Void]
      BY <1>3, <2>1, AgentOpensCases
    <3> QED BY <2>0, <2>1, <3>1
  <2>2. CASE ledger = Void
    <3>1. PICK g \in Generation :
                /\ creating # Void => g = creating
                /\ process' = [who |-> "agent", at |-> "mark", generation |-> g,
                               rows |-> {}, attempt |-> Void]
      BY <1>3, <2>2, AgentOpensCases
    <3> QED BY <1>3, <2>0, <2>2, <3>1 DEF CreationAllowed, AgentOpens
  <2> QED BY <2>1, <2>2
<1>4. CASE AdoptOpens
  <2>0. UNCHANGED <<files, used, crashes, losses>>
    BY <1>4 DEF AdoptOpens
  <2>1. CASE /\ AdoptionPublished
             /\ process' = [who |-> "adopt", at |-> "unmark",
                            generation |-> Void, rows |-> {}, attempt |-> Void]
    BY <2>0, <2>1 DEF AdoptionPublished
  <2>2. ASSUME AdoptionAllowed,
               NEW g \in Generation,
               adopting # Void => g = adopting,
               process' = [who |-> "adopt", at |-> "mark", generation |-> g,
                           rows |-> started, attempt |-> Void]
        PROVE  OneGeneration'
    BY <2>0, <2>2 DEF AdoptionAllowed
  <2> QED BY <1>4, <2>1, <2>2, AdoptOpensCases
<1>5. CASE WriteMarker BY <1>5 DEF WriteMarker, StepsFollow
<1>6. CASE WritePair BY <1>6 DEF WritePair
<1>7. CASE WriteTemp BY <1>7 DEF WriteTemp
<1>8. CASE LinkLedger BY <1>8 DEF LinkLedger, StepsFollow
<1>9. CASE RemoveTemp BY <1>9 DEF RemoveTemp
<1>10. CASE RemoveMarker BY <1>10 DEF RemoveMarker
<1>11. CASE CheckGenerations BY <1>11 DEF CheckGenerations
<1>12. CASE CheckRows BY <1>12 DEF CheckRows
<1>13. CASE RefuseLedger BY <1>13 DEF RefuseLedger
<1>14. ASSUME NEW a \in Attempt, InsertRow(a) PROVE OneGeneration'
  BY <1>14 DEF InsertRow, ServesWithCompleteLedger
<1>15. CASE RecordStart BY <1>15 DEF RecordStart
<1>16. CASE ProcessEnds BY <1>16 DEF ProcessEnds
<1>17. CASE Crash BY <1>17 DEF Crash
<1>18. CASE LoseFile BY <1>18 DEF LoseFile
<1>19. CASE RestoreOldLedger BY <1>19 DEF RestoreOldLedger
<1>20. CASE UNCHANGED ledgerVars BY <1>20 DEF ledgerVars
<1> QED
  BY <1>1, <1>2, <1>3, <1>4, <1>5, <1>6, <1>7, <1>8, <1>9, <1>10, <1>11,
     <1>12, <1>13, <1>14, <1>15, <1>16, <1>17, <1>18, <1>19, <1>20 DEF LedgerNext

\* No step leaves an agent serving without the row of a start record.
LEMMA ServesStep == IInv /\ [LedgerNext]_ledgerVars => ServesWithCompleteLedger'
<1> SUFFICES ASSUME LedgerTypeOK, StepsFollow, ServesWithCompleteLedger, [LedgerNext]_ledgerVars
             PROVE  ServesWithCompleteLedger'
  BY DEF IInv
<1> USE VoidAssumption
        DEF LedgerTypeOK, ServesWithCompleteLedger, Ledger, Process, Down, files
<1>1. CASE LegacyStart BY <1>1 DEF LegacyStart
<1>2. ASSUME NEW a \in Attempt, LegacyRecordsStart(a) PROVE ServesWithCompleteLedger'
  BY <1>2 DEF LegacyRecordsStart
<1>3. CASE AgentOpens
  <2>0. UNCHANGED <<files, used, crashes, losses>>
    BY <1>3 DEF AgentOpens
  <2>1. CASE ledger # Void
    <3>1. process' = [who |-> "agent", at |-> "open", generation |-> Void,
                      rows |-> {}, attempt |-> Void]
      BY <1>3, <2>1, AgentOpensCases
    <3> QED BY <2>0, <2>1, <3>1
  <2>2. CASE ledger = Void
    <3>1. PICK g \in Generation :
                /\ creating # Void => g = creating
                /\ process' = [who |-> "agent", at |-> "mark", generation |-> g,
                               rows |-> {}, attempt |-> Void]
      BY <1>3, <2>2, AgentOpensCases
    <3> QED BY <1>3, <2>0, <2>2, <3>1 DEF CreationAllowed, AgentOpens
  <2> QED BY <2>1, <2>2
<1>4. CASE AdoptOpens
  <2>0. UNCHANGED <<files, used, crashes, losses>>
    BY <1>4 DEF AdoptOpens
  <2>1. CASE /\ AdoptionPublished
             /\ process' = [who |-> "adopt", at |-> "unmark",
                            generation |-> Void, rows |-> {}, attempt |-> Void]
    BY <2>0, <2>1 DEF AdoptionPublished
  <2>2. ASSUME AdoptionAllowed,
               NEW g \in Generation,
               adopting # Void => g = adopting,
               process' = [who |-> "adopt", at |-> "mark", generation |-> g,
                           rows |-> started, attempt |-> Void]
        PROVE  ServesWithCompleteLedger'
    BY <2>0, <2>2 DEF AdoptionAllowed
  <2> QED BY <1>4, <2>1, <2>2, AdoptOpensCases
<1>5. CASE WriteMarker BY <1>5 DEF WriteMarker
<1>6. CASE WritePair BY <1>6 DEF WritePair
<1>7. CASE WriteTemp BY <1>7 DEF WriteTemp
<1>8. CASE LinkLedger BY <1>8 DEF LinkLedger
<1>9. CASE RemoveTemp BY <1>9 DEF RemoveTemp
<1>10. CASE RemoveMarker BY <1>10 DEF RemoveMarker
<1>11. CASE CheckGenerations BY <1>11 DEF CheckGenerations
<1>12. CASE CheckRows BY <1>12 DEF CheckRows, RowsComplete, StepsFollow
<1>13. CASE RefuseLedger BY <1>13 DEF RefuseLedger
<1>14. ASSUME NEW a \in Attempt, InsertRow(a) PROVE ServesWithCompleteLedger'
  BY <1>14 DEF InsertRow
<1>15. CASE RecordStart BY <1>15 DEF RecordStart, StepsFollow
<1>16. CASE ProcessEnds BY <1>16 DEF ProcessEnds
<1>17. CASE Crash BY <1>17 DEF Crash
<1>18. CASE LoseFile BY <1>18 DEF LoseFile
<1>19. CASE RestoreOldLedger BY <1>19 DEF RestoreOldLedger
<1>20. CASE UNCHANGED ledgerVars BY <1>20 DEF ledgerVars
<1> QED
  BY <1>1, <1>2, <1>3, <1>4, <1>5, <1>6, <1>7, <1>8, <1>9, <1>10, <1>11,
     <1>12, <1>13, <1>14, <1>15, <1>16, <1>17, <1>18, <1>19, <1>20 DEF LedgerNext

\* A root without any ledger file satisfies the invariant.
LEMMA IInvInit == LedgerInit => IInv
<1> SUFFICES ASSUME LedgerInit PROVE IInv
  OBVIOUS
<1> USE VoidAssumption, LedgerBoundsAssumption DEF LedgerInit, Down
<1>1. LedgerTypeOK
  <2>1. process \in Process BY DEF Process, Steps
  <2>2. crashes \in 0 .. MaxCrash /\ losses \in 0 .. MaxLoss OBVIOUS
  <2>3. used \in BOOLEAN OBVIOUS
  <2>4. /\ started \subseteq Attempt
        /\ ledger \in Ledger \cup {Void} /\ temp \in Ledger \cup {Void}
        /\ pair \in Generation \cup {Void}
        /\ creating \in Generation \cup {Void}
        /\ adopting \in Generation \cup {Void}
    OBVIOUS
  <2> HIDE DEF LedgerInit
  <2> QED BY <2>1, <2>2, <2>3, <2>4 DEF LedgerTypeOK
<1>2. StepsFollow BY DEF StepsFollow, Writing
<1>3. OneGeneration BY DEF OneGeneration, GenerationsWritten
<1>4. ServesWithCompleteLedger BY DEF ServesWithCompleteLedger
<1> QED BY <1>1, <1>2, <1>3, <1>4 DEF IInv

\* The invariant is inductive.
LEMMA IInvStep == IInv /\ [LedgerNext]_ledgerVars => IInv'
BY TypeStep, StepsFollowStep, GenerationStep, ServesStep DEF IInv

\* The inductive invariant holds throughout: each step of a creation, an
\* adoption or an opening finds what the steps before it have written.
THEOREM LedgerInvariance == LedgerSpec => []IInv
BY IInvInit, IInvStep, PTL DEF LedgerSpec

\* Every file and process keeps its type.
THEOREM LedgerTypeCorrect == LedgerSpec => []LedgerTypeOK
<1>1. IInv => LedgerTypeOK BY DEF IInv
<1> QED BY <1>1, LedgerInvariance, PTL

\* One generation, however creations and adoptions were interrupted and
\* resumed and whatever file was lost.
THEOREM GenerationUnique == LedgerSpec => []OneGeneration
<1>1. IInv => OneGeneration BY DEF IInv
<1> QED BY <1>1, LedgerInvariance, PTL

\* An agent with the ledger never serves with a start record that has no row,
\* whatever crash, lost file or old copy of the ledger came before.
THEOREM NoStartForgotten == LedgerSpec => []ServesWithCompleteLedger
<1>1. IInv => ServesWithCompleteLedger BY DEF IInv
<1> QED BY <1>1, LedgerInvariance, PTL

-----------------------------------------------------------------------------
(***************************************************************************)
(* A ledger in use.  While at most one file was ever lost, one of ledger   *)
(* and pair is there, and nobody is creating or adopting.                  *)
(***************************************************************************)
Settled ==
    /\ used /\ losses = 0 => ledger # Void /\ pair # Void
    /\ used /\ losses <= 1 => ledger # Void \/ pair # Void
    /\ used => /\ creating = Void /\ adopting = Void
               /\ process.at \notin Writing \cup {"unlink", "unmark"}

\* A creation and an adoption exclude each other, and the process knows of
\* the one that is under way.
MarkersFollow ==
    /\ creating = Void \/ adopting = Void
    /\ process.who = "agent" => adopting = Void
    /\ process.who = "adopt" => creating = Void
    /\ process.who = "legacy" => ~ used
    /\ process.at = "rows" => creating = Void
    /\ process.at \in {"temp", "link", "unlink"} => pair # Void
    /\ process.at = "unmark" => pair # Void
    /\ process.at = "serve" => process.who \in {"agent", "legacy"}

SInv == IInv /\ MarkersFollow /\ Settled

\* A creation and an adoption never begin beside each other.
LEMMA MarkersStep ==
    MaxLoss <= 1 /\ SInv /\ [LedgerNext]_ledgerVars => MarkersFollow'
<1> SUFFICES ASSUME MaxLoss <= 1, LedgerTypeOK, StepsFollow, MarkersFollow, Settled,
                    [LedgerNext]_ledgerVars
             PROVE  MarkersFollow'
  BY DEF SInv, IInv
<1> USE VoidAssumption, LedgerBoundsAssumption
        DEF LedgerTypeOK, MarkersFollow, Process, Steps, Down, files
<1>1. CASE LegacyStart BY <1>1 DEF LegacyStart, LegacyMayStart, NeverEnabled, Settled
<1>2. ASSUME NEW a \in Attempt, LegacyRecordsStart(a) PROVE MarkersFollow'
  BY <1>2 DEF LegacyRecordsStart
<1>3. CASE AgentOpens
  <2>0. UNCHANGED <<files, used, crashes, losses>>
    BY <1>3 DEF AgentOpens
  <2>1. CASE ledger # Void
    <3>1. process' = [who |-> "agent", at |-> "open", generation |-> Void,
                      rows |-> {}, attempt |-> Void]
      BY <1>3, <2>1, AgentOpensCases
    <3> QED BY <1>3, <2>0, <2>1, <3>1 DEF AgentOpens
  <2>2. CASE ledger = Void
    <3>1. PICK g \in Generation :
                /\ creating # Void => g = creating
                /\ process' = [who |-> "agent", at |-> "mark", generation |-> g,
                               rows |-> {}, attempt |-> Void]
      BY <1>3, <2>2, AgentOpensCases
    <3> QED BY <1>3, <2>0, <2>2, <3>1 DEF CreationAllowed, AgentOpens
  <2> QED BY <2>1, <2>2
<1>4. CASE AdoptOpens
  <2>0. UNCHANGED <<files, used, crashes, losses>>
    BY <1>4 DEF AdoptOpens
  <2>1. CASE /\ AdoptionPublished
             /\ process' = [who |-> "adopt", at |-> "unmark",
                            generation |-> Void, rows |-> {}, attempt |-> Void]
    BY <2>0, <2>1 DEF AdoptionPublished
  <2>2. ASSUME AdoptionAllowed,
               NEW g \in Generation,
               adopting # Void => g = adopting,
               process' = [who |-> "adopt", at |-> "mark", generation |-> g,
                           rows |-> started, attempt |-> Void]
        PROVE  MarkersFollow'
    BY <2>0, <2>2 DEF AdoptionAllowed
  <2> QED BY <1>4, <2>1, <2>2, AdoptOpensCases
<1>5. CASE WriteMarker BY <1>5 DEF WriteMarker
<1>6. CASE WritePair BY <1>6 DEF WritePair, StepsFollow, Writing
<1>7. CASE WriteTemp BY <1>7 DEF WriteTemp
<1>8. CASE LinkLedger BY <1>8 DEF LinkLedger
<1>9. CASE RemoveTemp BY <1>9 DEF RemoveTemp
<1>10. CASE RemoveMarker BY <1>10 DEF RemoveMarker
<1>11. CASE CheckGenerations BY <1>11 DEF CheckGenerations, StepsFollow
<1>12. CASE CheckRows BY <1>12 DEF CheckRows, StepsFollow
<1>13. CASE RefuseLedger BY <1>13 DEF RefuseLedger
<1>14. ASSUME NEW a \in Attempt, InsertRow(a) PROVE MarkersFollow'
  BY <1>14 DEF InsertRow
<1>15. CASE RecordStart BY <1>15 DEF RecordStart, StepsFollow
<1>16. CASE ProcessEnds BY <1>16 DEF ProcessEnds
<1>17. CASE Crash BY <1>17 DEF Crash
<1>18. CASE LoseFile BY <1>18 DEF LoseFile
<1>19. CASE RestoreOldLedger BY <1>19 DEF RestoreOldLedger
<1>20. CASE UNCHANGED ledgerVars BY <1>20 DEF ledgerVars
<1> QED
  BY <1>1, <1>2, <1>3, <1>4, <1>5, <1>6, <1>7, <1>8, <1>9, <1>10, <1>11,
     <1>12, <1>13, <1>14, <1>15, <1>16, <1>17, <1>18, <1>19, <1>20 DEF LedgerNext

\* A ledger in use leaves a trace as long as only one file is lost.
LEMMA SettledStep ==
    MaxLoss <= 1 /\ SInv /\ [LedgerNext]_ledgerVars => Settled'
<1> SUFFICES ASSUME MaxLoss <= 1, LedgerTypeOK, StepsFollow, MarkersFollow, Settled,
                    ServesWithCompleteLedger, [LedgerNext]_ledgerVars
             PROVE  Settled'
  BY DEF SInv, IInv
<1> USE VoidAssumption, LedgerBoundsAssumption
        DEF LedgerTypeOK, Settled, Ledger, Process, Steps, Down, Writing, files
<1>1. CASE LegacyStart BY <1>1 DEF LegacyStart
<1>2. ASSUME NEW a \in Attempt, LegacyRecordsStart(a) PROVE Settled'
  BY <1>2 DEF LegacyRecordsStart
<1>3. CASE AgentOpens
  <2>0. UNCHANGED <<files, used, crashes, losses>>
    BY <1>3 DEF AgentOpens
  <2>1. CASE ledger # Void
    <3>1. process' = [who |-> "agent", at |-> "open", generation |-> Void,
                      rows |-> {}, attempt |-> Void]
      BY <1>3, <2>1, AgentOpensCases
    <3> QED BY <2>0, <2>1, <3>1
  <2>2. CASE ledger = Void
    <3>1. PICK g \in Generation :
                /\ creating # Void => g = creating
                /\ process' = [who |-> "agent", at |-> "mark", generation |-> g,
                               rows |-> {}, attempt |-> Void]
      BY <1>3, <2>2, AgentOpensCases
    <3>2. losses <= 1
      OBVIOUS
    <3>3. ~ used
      BY <1>3, <2>2, <3>2 DEF CreationAllowed, AgentOpens
    <3> QED BY <2>0, <3>3
  <2> QED BY <2>1, <2>2
<1>4. CASE AdoptOpens
  <2>0. UNCHANGED <<files, used, crashes, losses>>
    BY <1>4 DEF AdoptOpens
  <2>1. CASE /\ AdoptionPublished
             /\ process' = [who |-> "adopt", at |-> "unmark",
                            generation |-> Void, rows |-> {}, attempt |-> Void]
    BY <2>0, <2>1 DEF AdoptionPublished
  <2>2. ASSUME AdoptionAllowed,
               NEW g \in Generation,
               adopting # Void => g = adopting,
               process' = [who |-> "adopt", at |-> "mark", generation |-> g,
                           rows |-> started, attempt |-> Void]
        PROVE  Settled'
    BY <2>0, <2>2 DEF AdoptionAllowed
  <2> QED BY <1>4, <2>1, <2>2, AdoptOpensCases
<1>5. CASE WriteMarker BY <1>5 DEF WriteMarker
<1>6. CASE WritePair BY <1>6 DEF WritePair
<1>7. CASE WriteTemp BY <1>7 DEF WriteTemp
<1>8. CASE LinkLedger BY <1>8 DEF LinkLedger
<1>9. CASE RemoveTemp BY <1>9 DEF RemoveTemp
<1>10. CASE RemoveMarker BY <1>10 DEF RemoveMarker, StepsFollow, MarkersFollow
<1>11. CASE CheckGenerations BY <1>11 DEF CheckGenerations
<1>12. CASE CheckRows BY <1>12 DEF CheckRows, StepsFollow, MarkersFollow
<1>13. CASE RefuseLedger BY <1>13 DEF RefuseLedger
<1>14. ASSUME NEW a \in Attempt, InsertRow(a) PROVE Settled'
  BY <1>14 DEF InsertRow, ServesWithCompleteLedger
<1>15. CASE RecordStart BY <1>15 DEF RecordStart
<1>16. CASE ProcessEnds BY <1>16 DEF ProcessEnds
<1>17. CASE Crash BY <1>17 DEF Crash
<1>18. CASE LoseFile BY <1>18 DEF LoseFile
<1>19. CASE RestoreOldLedger BY <1>19 DEF RestoreOldLedger
<1>20. CASE UNCHANGED ledgerVars BY <1>20 DEF ledgerVars
<1> QED
  BY <1>1, <1>2, <1>3, <1>4, <1>5, <1>6, <1>7, <1>8, <1>9, <1>10, <1>11,
     <1>12, <1>13, <1>14, <1>15, <1>16, <1>17, <1>18, <1>19, <1>20 DEF LedgerNext

\* A root without any ledger file satisfies the second invariant.
LEMMA SInvInit == LedgerInit => SInv
<1> SUFFICES ASSUME LedgerInit PROVE SInv
  OBVIOUS
<1>1. MarkersFollow BY VoidAssumption DEF LedgerInit, Down, MarkersFollow
<1>2. Settled BY DEF LedgerInit, Settled
<1> QED BY <1>1, <1>2, IInvInit DEF SInv

\* The second invariant is inductive.
LEMMA SInvStep == MaxLoss <= 1 /\ SInv /\ [LedgerNext]_ledgerVars => SInv'
BY IInvStep, MarkersStep, SettledStep DEF SInv

\* While at most one file is lost, the ledger that was in use stays lost when
\* it is lost: open_for_agent and adopt_legacy_files do not create another.
LEMMA LossReported ==
    ASSUME MaxLoss <= 1, SInv, [LedgerNext]_ledgerVars PROVE [LossIsNotPaperedOver]_ledgerVars
<1>1. SInv /\ [LedgerNext]_ledgerVars
  OBVIOUS
<1>2. [used /\ ledger = Void => ledger' = Void]_ledgerVars
  <2> SUFFICES ASSUME used, ledger = Void, LedgerNext PROVE ledger' = Void
    BY <1>1 DEF ledgerVars, files
  <2>1. process.at \notin Writing
    BY <1>1 DEF SInv, Settled
  <2>2. ~ LinkLedger
    BY <2>1 DEF LinkLedger, Writing
  <2>3. ASSUME NEW a \in Attempt PROVE ~ InsertRow(a)
    BY <1>1 DEF InsertRow, SInv, IInv, ServesWithCompleteLedger
  <2> QED
    BY <2>2, <2>3 DEF LedgerNext, LegacyStart, LegacyRecordsStart, AgentOpens,
       AdoptOpens, WriteMarker, WritePair, WriteTemp, RemoveTemp, RemoveMarker,
       CheckGenerations, CheckRows, RefuseLedger, RecordStart, ProcessEnds,
       Crash, LoseFile, RestoreOldLedger, files
<1> QED BY <1>2 DEF LossIsNotPaperedOver

\* While at most one file is lost, the agent without the ledger never works
\* on a root whose ledger was in use (open_run_ledger_at_startup).
LEMMA SwitchIsFinal ==
    ASSUME MaxLoss <= 1, SInv, [LedgerNext]_ledgerVars PROVE [NeverSwitchedOff]_ledgerVars
<1>1. SInv /\ [LedgerNext]_ledgerVars
  OBVIOUS
<1>2. [used /\ process.who # "legacy" => process'.who # "legacy"]_ledgerVars
  <2> SUFFICES ASSUME used, process.who # "legacy", LedgerNext
               PROVE  process'.who # "legacy"
    BY <1>1 DEF ledgerVars
  <2> USE VoidAssumption DEF Down, files
  <2>0. process \in Process
    BY <1>1 DEF SInv, IInv, LedgerTypeOK
  <2>1. ~ LegacyStart
    <3>1. losses <= 1
      BY <1>1, LedgerBoundsAssumption DEF SInv, IInv, LedgerTypeOK
    <3>2. ledger # Void \/ pair # Void
      BY <1>1, <3>1 DEF SInv, Settled
    <3> QED BY <3>2 DEF LegacyStart, LegacyMayStart, NeverEnabled
  <2>2. ASSUME AgentOpens PROVE process'.who # "legacy"
    BY <2>2, <1>1, AgentOpensCases DEF SInv, IInv
  <2>3. ASSUME AdoptOpens PROVE process'.who # "legacy"
    BY <2>3, <1>1, AdoptOpensCases DEF SInv, IInv
  <2>4. ASSUME NEW a \in Attempt, InsertRow(a) PROVE process'.who # "legacy"
    BY <2>0, <2>4 DEF InsertRow, Process
  <2>5. ASSUME WriteMarker \/ WritePair \/ WriteTemp \/ LinkLedger \/ RemoveTemp
        PROVE  process'.who # "legacy"
    BY <2>0, <2>5
       DEF Process, WriteMarker, WritePair, WriteTemp, LinkLedger, RemoveTemp
  <2>6. ASSUME CheckGenerations \/ CheckRows \/ RecordStart
        PROVE  process'.who # "legacy"
    BY <2>0, <2>6 DEF Process, CheckGenerations, CheckRows, RecordStart
  <2>7. ASSUME RemoveMarker PROVE process'.who # "legacy"
    <3>1. process' = [process EXCEPT !.at = "open"] \/ process' = Down
      BY <2>7 DEF RemoveMarker
    <3> QED BY <2>0, <3>1 DEF Process
  <2>8. ASSUME RefuseLedger \/ ProcessEnds \/ Crash
        PROVE  process'.who # "legacy"
    <3>1. process' = Down BY <2>8 DEF RefuseLedger, ProcessEnds, Crash
    <3> QED BY <3>1
  <2>9. ASSUME NEW a \in Attempt, LegacyRecordsStart(a)
        PROVE  process'.who # "legacy"
    BY <2>9 DEF LegacyRecordsStart
  <2>10. ASSUME LoseFile \/ RestoreOldLedger PROVE process'.who # "legacy"
    BY <2>10 DEF LoseFile, RestoreOldLedger
  <2> QED
    BY <2>1, <2>2, <2>3, <2>4, <2>5, <2>6, <2>7, <2>8, <2>9, <2>10 DEF LedgerNext
<1> QED BY <1>2 DEF NeverSwitchedOff

\* If at most one file is lost, the use of the ledger is final: it is neither
\* created anew nor switched off.
THEOREM UseIsFinal ==
    ASSUME MaxLoss <= 1 PROVE LedgerSpec => LedgerUseIsFinal
<1>1. SInv /\ [LedgerNext]_ledgerVars => [LossIsNotPaperedOver /\ NeverSwitchedOff]_ledgerVars
  BY LossReported, SwitchIsFinal
<1>2. SInv /\ [LedgerNext]_ledgerVars => SInv'
  BY SInvStep
<1> QED BY <1>1, <1>2, SInvInit, PTL DEF LedgerSpec, LedgerUseIsFinal
=============================================================================
