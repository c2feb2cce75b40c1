------------------------------ MODULE CpuHistory ------------------------------
(* The processor with two history variables: how many steps in a row have     *)
(* charged no cycle, and the level below which the program owes silence.      *)
EXTENDS CpuControl

VARIABLES timeless,  \* exception entries since a cycle was last charged
          floor      \* no interrupt below this level is due

historyVars == <<cpu, lines, dump, outcome, timeless, floor>>

HistoryInit == /\ Init
               /\ timeless = 0
               /\ floor = 0

\* An interrupt of level n owes the program silence up to n, until software
\* itself lowers the level, by ldsr or by returning.
HistoryStep ==
  /\ Step
  /\ timeless' = IF outcome'.charged THEN 0
                 ELSE IF outcome'.kind \in {"interrupt", "exception"} THEN timeless + 1
                 ELSE timeless
  /\ floor' = IF outcome'.kind = "interrupt" THEN (outcome'.code - \hFE00) \div 16 + 1
              ELSE IF cpu'.psw.level < cpu.psw.level /\ cpu'.psw.level < floor
                THEN cpu'.psw.level
              ELSE floor

HistoryNext == HistoryStep \/ (Elapse /\ UNCHANGED <<timeless, floor>>)

HistorySpec == HistoryInit /\ [][HistoryNext]_historyVars

-----------------------------------------------------------------------------
\* Time never stands still: an interrupt entry, an address trap and an illegal
\* opcode charge no cycle, but a third in a row finds both banks taken and is
\* fatal, so the devices are ticked again after at most two.
TimeDoesNotStandStill ==
  /\ timeless <= 2
  /\ timeless = 1 => cpu.psw.ep
  /\ timeless = 2 => cpu.psw.np

\* A handler is not interrupted by its own source or a less urgent one, nor is
\* what it calls, whatever it does to ID, EP and NP, while it leaves the level
\* of PSW alone.
OwedSilence ==
  [][outcome'.kind = "interrupt" /\ outcome' # outcome
       => outcome'.code >= \hFE00 + 16 * floor]_historyVars
=============================================================================
