----------------------------- MODULE DramTiming -----------------------------
(***************************************************************************)
(* The state of one DRAM channel as DRAMsim3 keeps it: the banks           *)
(* (DRAMSIM3/src/bankstate.cc), the channel that holds them                *)
(* (channel_state.cc) and the command-to-command delays (timing.cc).       *)
(*                                                                         *)
(* A bank is named by its number in the channel, rank * banks +            *)
(* bankgroup * banks_per_group + bank, the number CommandQueue uses too.   *)
(* Time is relative: where the code keeps the first clock at which a       *)
(* command may be issued, the model keeps how many clocks are left, so     *)
(* that the clock itself need not be part of the state.                    *)
(*                                                                         *)
(* AbruptExit and exit(1) are the command type ABRUPT_EXIT: whoever gets   *)
(* it as an answer has ended the simulation.                               *)
(*                                                                         *)
(* AL is 0, and what timing.cc adds for GDDR, HBM and LPDDR4 only (tPPD,   *)
(* tRCDRD, tRCDWR, the 32-activate window) is left out.                    *)
(***************************************************************************)
EXTENDS Integers, Sequences, FiniteSets, SequencesExt, FiniteSetsExt

CONSTANTS
  ranks, bankgroups, banks_per_group,
  Param          \* the [timing] section of the .ini file, a record of cycles

ASSUME DramGeometry ==
  /\ {ranks, bankgroups, banks_per_group} \subseteq Nat \ {0}
  /\ \A f \in DOMAIN Param : Param[f] \in Nat

banks == bankgroups * banks_per_group
Ranks == 0 .. ranks - 1
Banks == 0 .. ranks * banks - 1
RankOf(b) == b \div banks
GroupOf(b) == b \div banks_per_group     \* bankgroups of all ranks, numbered
BanksOf(r) == {b \in Banks : RankOf(b) = r}

Reads == {"READ", "READ_PRECHARGE"}
Writes == {"WRITE", "WRITE_PRECHARGE"}
Refreshes == {"REFRESH", "REFRESH_BANK"}
RankCMDs == {"REFRESH", "SREF_ENTER", "SREF_EXIT"}
CommandType == Reads \cup Writes \cup Refreshes \cup RankCMDs \cup
               {"ACTIVATE", "PRECHARGE"}

\* Command(): the invalid command.  A rank command names the rank's first bank.
NoCommand == [type |-> "SIZE", bank |-> -1, row |-> -1, addr |-> -1]
IsValid(cmd) == cmd.type # "SIZE"
Command(type, bank) == [NoCommand EXCEPT !.type = type, !.bank = bank]

-----------------------------------------------------------------------------
(* Timing: the delay from a command c to a later command t                 *)

Later(m, n) == IF m > n THEN m ELSE n

read_delay == Param.RL + Param.burst_cycle
write_delay == Param.WL + Param.burst_cycle
read_to_write == Param.RL + Param.burst_cycle - Param.WL + Param.tRTRS
write_to_precharge == Param.WL + Param.burst_cycle + Param.tWR
tRC == Param.tRAS + Param.tRP

\* tXXX_S replaces tXXX_L when there is a single bankgroup
Long(l, s) == IF bankgroups = 1 THEN Param[s] ELSE Param[l]

\* READ and WRITE to READ and WRITE, and their auto-precharge forms, for a
\* pair of banks with the given column delay and write-to-read delay.
column(c, t, ccd, wtr) ==
  CASE c \in Reads /\ t \in Reads -> Later(Param.burst_cycle, ccd)
    [] c \in Reads /\ t \in Writes -> read_to_write
    [] c \in Writes /\ t \in Reads -> write_delay + wtr
    [] c \in Writes /\ t \in Writes -> Later(Param.burst_cycle, ccd)
    [] OTHER -> 0

Idles == {"ACTIVATE", "REFRESH", "REFRESH_BANK", "SREF_ENTER"}

same_bank(c, t) ==
  CASE c = "READ" /\ t = "PRECHARGE" -> Param.tRTP
    [] c = "WRITE" /\ t = "PRECHARGE" -> write_to_precharge
    [] c \in {"READ", "WRITE"} ->
         column(c, t, Long("tCCD_L", "tCCD_S"), Long("tWTR_L", "tWTR_S"))
    [] c = "READ_PRECHARGE" /\ t = "ACTIVATE" ->
         Param.burst_cycle + Param.tRTP + Param.tRP
    [] c = "READ_PRECHARGE" /\ t \in Idles -> Param.tRTP + Param.tRP
    [] c = "WRITE_PRECHARGE" /\ t \in Idles -> write_to_precharge + Param.tRP
    [] c = "ACTIVATE" /\ t = "ACTIVATE" -> tRC
    [] c = "ACTIVATE" /\ t \in Reads \cup Writes -> Param.tRCD
    [] c = "ACTIVATE" /\ t = "PRECHARGE" -> Param.tRAS
    [] c = "PRECHARGE" /\ t \in Idles -> Param.tRP
    [] OTHER -> 0

\* Other banks of the rank: they differ in the delays of the same bankgroup
\* (other_banks_same_bankgroup) and of other ones (other_bankgroups_same_rank).
other_banks(c, t, ccd, wtr, rrd) ==
  CASE c \in Reads \cup Writes -> column(c, t, ccd, wtr)
    [] c = "ACTIVATE" /\ t = "ACTIVATE" -> rrd
    [] c = "ACTIVATE" /\ t = "REFRESH_BANK" -> tRC
    [] c = "REFRESH_BANK" /\ t = "ACTIVATE" -> Param.tRFC
    [] c = "REFRESH_BANK" /\ t = "REFRESH_BANK" -> Param.tREFI
    [] OTHER -> 0

other_ranks(c, t) ==
  CASE c \in Reads /\ t \in Reads -> Param.burst_cycle + Param.tRTRS
    [] c \in Reads /\ t \in Writes ->
         read_delay + Param.burst_cycle + Param.tRTRS - write_delay
    [] c \in Writes /\ t \in Reads ->
         write_delay + Param.burst_cycle + Param.tRTRS - read_delay
    [] c \in Writes /\ t \in Writes -> Param.burst_cycle
    [] OTHER -> 0

same_rank(c, t) ==
  CASE c = "REFRESH" /\ t \in Idles \ {"REFRESH_BANK"} -> Param.tRFC
    [] c = "SREF_ENTER" /\ t = "SREF_EXIT" -> Param.tCKESR
    [] c = "SREF_EXIT" /\ t \in Idles -> Param.tXS
    [] OTHER -> 0

\* ChannelState::UpdateTiming: which table applies to bank b.  REFRESH_BANK is
\* looked up in the tables of bank commands; the same_rank entry that timing.cc
\* fills in for it (lines 225-230) is never read.
Delay(cmd, b, t) ==
  IF cmd.type \in RankCMDs
  THEN IF RankOf(b) = RankOf(cmd.bank) THEN same_rank(cmd.type, t) ELSE 0
  ELSE CASE b = cmd.bank -> same_bank(cmd.type, t)
         [] RankOf(b) # RankOf(cmd.bank) -> other_ranks(cmd.type, t)
         [] GroupOf(b) = GroupOf(cmd.bank) /\ b # cmd.bank ->
              other_banks(cmd.type, t, Long("tCCD_L", "tCCD_S"),
                          Long("tWTR_L", "tWTR_S"), Long("tRRD_L", "tRRD_S"))
         [] OTHER -> other_banks(cmd.type, t, Param.tCCD_S, Param.tWTR_S,
                                 Param.tRRD_S)

-----------------------------------------------------------------------------
(* BankState                                                               *)

ROW_HIT_LIMIT == 4   \* row_hit_count_ is only compared with this number

BankState == [state |-> "CLOSED", open_row |-> -1, row_hit_count |-> 0]

\* The command that must come first for cmd to be possible in a bank.
RequiredType(b, cmd) ==
  CASE b.state = "CLOSED" /\ cmd.type \in Reads \cup Writes -> "ACTIVATE"
    [] b.state = "CLOSED" /\ cmd.type \in Refreshes \cup {"SREF_ENTER"} -> cmd.type
    [] b.state = "OPEN" /\ cmd.type \in Reads \cup Writes ->
         IF cmd.row = b.open_row THEN cmd.type ELSE "PRECHARGE"
    [] b.state = "OPEN" /\ cmd.type \in Refreshes \cup {"SREF_ENTER"} -> "PRECHARGE"
    [] b.state = "SREF" /\ cmd.type \in Reads \cup Writes -> "SREF_EXIT"
    [] OTHER -> "ABRUPT_EXIT"

UpdateState(b, cmd) ==
  CASE b.state = "OPEN" /\ cmd.type \in {"READ", "WRITE"} ->
         [b EXCEPT !.row_hit_count = Min({@ + 1, ROW_HIT_LIMIT})]
    [] b.state = "OPEN" /\ cmd.type \in
         {"READ_PRECHARGE", "WRITE_PRECHARGE", "PRECHARGE"} -> BankState
    [] b.state = "CLOSED" /\ cmd.type \in Refreshes -> b
    [] b.state = "CLOSED" /\ cmd.type = "ACTIVATE" ->
         [b EXCEPT !.state = "OPEN", !.open_row = cmd.row]
    [] b.state = "CLOSED" /\ cmd.type = "SREF_ENTER" -> [b EXCEPT !.state = "SREF"]
    [] b.state = "SREF" /\ cmd.type = "SREF_EXIT" -> [b EXCEPT !.state = "CLOSED"]
    [] OTHER -> [b EXCEPT !.state = "ABRUPT_EXIT"]

-----------------------------------------------------------------------------
(* ChannelState: a record of                                               *)
(*   bank_states   the banks, and cmd_timing, what each of them still      *)
(*                 forbids for how long                                    *)
(*   refresh_q     the refreshes to be done                                *)
(*   four_aw       for each rank, for how long its last activations count  *)
(*                 towards the four-activate window                        *)
(*   rank_is_sref, rank_idle_cycles                                        *)

ChannelState ==
  [bank_states |-> [b \in Banks |-> BankState],
   cmd_timing |-> [b \in Banks |-> [t \in CommandType |-> 0]],
   refresh_q |-> <<>>,
   four_aw |-> [r \in Ranks |-> <<>>],
   rank_is_sref |-> [r \in Ranks |-> FALSE],
   rank_idle_cycles |-> [r \in Ranks |-> 0]]

\* BankState::GetReadyCommand for bank b: what must come first, if its time has come
ReadyIf(ch, cmd, b, required) ==
  CASE required = "ABRUPT_EXIT" -> Command(required, b)
    [] required \in CommandType /\ ch.cmd_timing[b][required] = 0 ->
         [cmd EXCEPT !.type = required]
    [] OTHER -> NoCommand

BankReady(ch, cmd, b) == ReadyIf(ch, cmd, b, RequiredType(ch.bank_states[b], cmd))

\* IsFAWReady
ActivationWindowOk(ch, r) ==
  ~(Len(ch.four_aw[r]) >= 4 /\ Head(ch.four_aw[r]) > 0)

\* A bank command: ready is the answer of its bank.
InWindow(ch, ready) ==
  IF ready.type = "ACTIVATE" /\ ~ActivationWindowOk(ch, RankOf(ready.bank))
  THEN NoCommand
  ELSE ready

\* A rank command needs every bank of the rank; the first bank that needs something
\* else first (a PRECHARGE) gets that.  ready has the answers of the rank's banks.
RankReady(cmd, ready) ==
  LET other == {b \in DOMAIN ready : IsValid(ready[b]) /\ ready[b].type # cmd.type}
  IN  CASE other # {} -> Command(ready[Min(other)].type, Min(other))
        [] \A b \in DOMAIN ready : IsValid(ready[b]) -> cmd
        [] OTHER -> NoCommand

\* Mutant: a rank command looks only at the bank it names.
GetReadyCommand_FirstBank(ch, cmd) == InWindow(ch, BankReady(ch, cmd, cmd.bank))

\* ChannelState::GetReadyCommand
GetReadyCommand(ch, cmd) ==
  IF cmd.type \in RankCMDs
  THEN RankReady(cmd, [b \in BanksOf(RankOf(cmd.bank)) |-> BankReady(ch, cmd, b)])
  ELSE InWindow(ch, BankReady(ch, cmd, cmd.bank))

\* UpdateActivationTimes
UpdateActivationTimes(aw) ==
  Append(IF aw # <<>> /\ Head(aw) = 0 THEN Tail(aw) ELSE aw, Param.tFAW)

\* RankNeedRefresh and BankNeedRefresh with need = false: the first entry goes.
RefreshDone(refresh_q, cmd) ==
  LET hit == {i \in DOMAIN refresh_q :
                IF cmd.type = "REFRESH"
                THEN RankOf(refresh_q[i].bank) = RankOf(cmd.bank)
                ELSE refresh_q[i].bank = cmd.bank}
  IN  IF hit = {} THEN refresh_q ELSE RemoveAt(refresh_q, Min(hit))

\* ChannelState::UpdateTimingAndStates
UpdateTimingAndStates(ch, cmd) ==
  LET rank == RankOf(cmd.bank)
      hit == IF cmd.type \in RankCMDs THEN BanksOf(rank) ELSE {cmd.bank}
  IN  [ch EXCEPT
         !.bank_states = [b \in Banks |-> IF b \in hit THEN UpdateState(@[b], cmd)
                                                       ELSE @[b]],
         !.cmd_timing = [b \in Banks |-> [t \in CommandType |->
                           Later(@[b][t], Delay(cmd, b, t))]],
         !.refresh_q = IF cmd.type \in Refreshes THEN RefreshDone(@, cmd) ELSE @,
         !.four_aw[rank] = IF cmd.type = "ACTIVATE"
                           THEN UpdateActivationTimes(@) ELSE @,
         !.rank_is_sref[rank] = CASE cmd.type = "SREF_ENTER" -> TRUE
                                  [] cmd.type = "SREF_EXIT" -> FALSE
                                  [] OTHER -> @]

\* One clock passes.
Elapse(ch) ==
  [ch EXCEPT
     !.cmd_timing = [b \in Banks |-> [t \in CommandType |-> Later(@[b][t] - 1, 0)]],
     !.four_aw = [r \in Ranks |-> [i \in DOMAIN @[r] |-> Later(@[r][i] - 1, 0)]]]

IsAllBankIdleInRank(ch, r) == \A b \in BanksOf(r) : ch.bank_states[b].state # "OPEN"
=============================================================================
