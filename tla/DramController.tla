--------------------------- MODULE DramController ---------------------------
(***************************************************************************)
(* One channel of DRAMsim3: the controller (DRAMSIM3/src/controller.cc),   *)
(* its command queues (command_queue.cc) and its refresh counter           *)
(* (refresh.cc), over the channel state of DramTiming.                     *)
(*                                                                         *)
(* A clock is one call of Controller::ClockTick, a composition of          *)
(* functions on the record ctl of the controller's state.  A transaction   *)
(* has an address; that address is in some row and column of some bank.    *)
(* The field id of a transaction is a ghost: it says for which request of  *)
(* the client the transaction was made, which DRAMsim3 does not know.      *)
(***************************************************************************)
EXTENDS DramTiming

CONSTANT Addrs       \* the addresses of transactions

VARIABLES
  config,            \* the [system] section of the .ini file
  ctl                \* the channel's controller

\* AddressMapping: [bank, row, column] of every address
Loc(a) == config.mapping[a]

NumQueues == IF config.queue_structure = "PER_BANK" THEN ranks * banks ELSE ranks
GetQueueIndex(b) == IF config.queue_structure = "PER_BANK" THEN b ELSE RankOf(b)

Controller ==
  [ch |-> ChannelState,
   queues |-> [q \in 0 .. NumQueues - 1 |-> <<>>],
   queue_idx |-> 0, is_in_ref |-> FALSE, ref_q_indices |-> {},
   rank_q_empty |-> [r \in Ranks |-> TRUE],
   refresh_clk |-> 0, next_bank |-> 0,
   unified_queue |-> <<>>, read_queue |-> <<>>, write_buffer |-> <<>>,
   pending_rd_q |-> <<>>, pending_wr_q |-> <<>>,
   return_queue |-> <<>>, write_draining |-> 0,
   issued |-> {},                \* ghost: the commands of the last clock
   fatal |-> FALSE]              \* exit(1) or AbruptExit was called

At(q, a) == SelectSeq(q, LAMBDA t : t.addr = a)
Without(q, a) == SelectSeq(q, LAMBDA t : t.addr # a)

-----------------------------------------------------------------------------
(* CommandQueue                                                            *)

\* Entry i of queue q may close the open row of its bank: nothing before it
\* wants the bank, and no row hit is waiting or there have been enough.
ArbitratePrecharge(c, q, i) ==
  LET b == c.ch.bank_states[q[i].bank]
  IN  /\ \A j \in 1 .. i - 1 : q[j].bank # q[i].bank
      /\ \/ \A j \in i .. Len(q) : ~(q[j].bank = q[i].bank /\ q[j].row = b.open_row)
         \/ b.row_hit_count >= ROW_HIT_LIMIT

\* Mutant: a write passes the reads that are before it.
HasRWDependency_Ignored(q, i) == FALSE

\* A write waits for the reads of the same place that are before it.
HasRWDependency(q, i) ==
  \E j \in 1 .. i - 1 :
    /\ q[j].type \in Reads
    /\ q[j].row = q[i].row
    /\ Loc(q[j].addr).column = Loc(q[i].addr).column
    /\ q[j].bank % banks = q[i].bank % banks

\* The first entry of q that can be issued; ready has the command each entry needs now.
FirstReady(c, q, ready) ==
  LET ok == {i \in DOMAIN q :
               /\ IsValid(ready[i])
               /\ ready[i].type = "PRECHARGE" => ArbitratePrecharge(c, q, i)
               /\ ready[i].type \in Writes => ~HasRWDependency(q, i)}
  IN  IF ok = {} THEN NoCommand ELSE ready[Min(ok)]

GetFirstReadyInQueue(c, q) ==
  FirstReady(c, q, [i \in DOMAIN q |-> GetReadyCommand(c.ch, q[i])])

\* Mutant: a command that is issued stays in its queue.
EraseRWCommand_Stays(c, cmd) == c

\* EraseRWCommand: the entry the command was made from is taken out.
EraseRWCommand(c, cmd) ==
  LET q == GetQueueIndex(cmd.bank)
      same == {i \in DOMAIN c.queues[q] : /\ c.queues[q][i].addr = cmd.addr
                                          /\ c.queues[q][i].type = cmd.type}
  IN  IF same = {} THEN [c EXCEPT !.fatal = TRUE]
      ELSE [c EXCEPT !.queues[q] = RemoveAt(@, Min(same))]

\* The command cmd is taken from queue q; a read or write leaves the queue.
Take(c, q, cmd) ==
  LET taken == [c EXCEPT !.queue_idx = q]
  IN  [cmd |-> cmd,
       c |-> IF cmd.type \in Reads \cup Writes THEN EraseRWCommand(taken, cmd) ELSE taken]

Nth(c, k) == (c.queue_idx + k) % NumQueues

\* The first of the queues, polled from the one after the last, that has an offer.
TakeFirst(c, offer) ==
  LET some == {k \in DOMAIN offer : IsValid(offer[k])}
  IN  IF some = {} THEN [cmd |-> NoCommand, c |-> c]
      ELSE Take(c, Nth(c, Min(some)), offer[Min(some)])

\* The queues are polled round robin.  The answer is the command and the command
\* queues after it has been taken out.
GetCommandToIssue(c) ==
  TakeFirst(c, [k \in 1 .. NumQueues |->
                  IF c.is_in_ref /\ Nth(c, k) \in c.ref_q_indices
                  THEN NoCommand
                  ELSE GetFirstReadyInQueue(c, c.queues[Nth(c, k)])])

GetRefQIndices(ref) ==
  IF ref.type = "REFRESH"
  THEN {GetQueueIndex(b) : b \in BanksOf(RankOf(ref.bank))}
  ELSE {GetQueueIndex(ref.bank)}

\* Mutant: the queues are not opened again.
FinishRefresh_StaysClosed(c) ==
  [cmd |-> GetReadyCommand(c.ch, Head(c.ch.refresh_q)),
   c |-> [c EXCEPT !.is_in_ref = TRUE,
                   !.ref_q_indices = GetRefQIndices(Head(c.ch.refresh_q))]]

\* The queues of the rank or bank to be refreshed are closed until the refresh
\* itself can be issued; the rows that are open are precharged first.
FinishRefresh(c) ==
  LET ref == Head(c.ch.refresh_q)
      cmd == GetReadyCommand(c.ch, ref)
      done == cmd.type \in Refreshes
  IN  [cmd |-> cmd,
       c |-> [c EXCEPT !.is_in_ref = ~done,
                       !.ref_q_indices = CASE done -> {}
                                           [] c.is_in_ref -> @
                                           [] OTHER -> GetRefQIndices(ref)]]

-----------------------------------------------------------------------------
(* Refresh                                                                 *)

refresh_interval ==
  CASE config.refresh_policy = "RANK_LEVEL_SIMULTANEOUS" -> Param.tREFI
    [] config.refresh_policy = "BANK_LEVEL_STAGGERED" -> Param.tREFIb
    [] OTHER -> Param.tREFI \div ranks

\* InsertRefresh and IterateNext.  next_bank stands for next_rank_, next_bg_ and
\* next_bank_: the bankgroup moves fastest, then the bank, then the rank.
NextBank(b) ==
  LET k == b % banks
      g == ((k \div banks_per_group) + 1) % bankgroups
      i == IF g = 0 THEN ((k % banks_per_group) + 1) % banks_per_group
                    ELSE k % banks_per_group
      r == IF g = 0 /\ i = 0 THEN (RankOf(b) + 1) % ranks ELSE RankOf(b)
  IN  r * banks + g * banks_per_group + i

InsertRefresh(c) ==
  LET awake == {r \in Ranks : ~c.ch.rank_is_sref[r]}
      need(cmd) == [c EXCEPT !.ch.refresh_q = Append(@, cmd)]
      b == c.next_bank
  IN  CASE config.refresh_policy = "RANK_LEVEL_SIMULTANEOUS" ->
             IF awake = {} THEN c ELSE need(Command("REFRESH", Min(awake) * banks))
        [] config.refresh_policy = "RANK_LEVEL_STAGGERED" ->
             [(IF RankOf(b) \in awake THEN need(Command("REFRESH", b)) ELSE c)
                EXCEPT !.next_bank = (b + banks) % (ranks * banks)]
        [] OTHER ->
             [(IF RankOf(b) \in awake THEN need(Command("REFRESH_BANK", b)) ELSE c)
                EXCEPT !.next_bank = NextBank(b)]

\* Refresh::ClockTick; the counter runs from 1 to the interval, and is 0 only
\* before the first clock.
RefreshTick(c) ==
  LET k == c.refresh_clk
  IN  [(IF k = refresh_interval THEN InsertRefresh(c) ELSE c)
         EXCEPT !.refresh_clk = (k % refresh_interval) + 1]

-----------------------------------------------------------------------------
(* Controller                                                              *)

WillAcceptTransaction(c, is_write) ==
  Len(IF config.unified_queue THEN c.unified_queue
      ELSE IF is_write THEN c.write_buffer ELSE c.read_queue) < config.trans_queue_size

Push(c, t) ==
  CASE config.unified_queue -> [c EXCEPT !.unified_queue = Append(@, t)]
    [] ~config.unified_queue /\ t.is_write -> [c EXCEPT !.write_buffer = Append(@, t)]
    [] OTHER -> [c EXCEPT !.read_queue = Append(@, t)]

\* Completed transactions, with the clocks they still have to wait.
Return(t, delay) == [addr |-> t.addr, is_write |-> t.is_write, id |-> t.id, left |-> delay]

\* A write to the address of t is pending.
Buffered(c, t) == At(c.pending_wr_q, t.addr) # <<>>

\* A write is merged with one that is pending and is answered at once; a read
\* is answered from a pending write, or joins the reads of its address.
AddTransaction(c, t) ==
  IF t.is_write
  THEN [(IF Buffered(c, t) THEN c
         ELSE Push([c EXCEPT !.pending_wr_q = Append(@, t)], t))
          EXCEPT !.return_queue = Append(@, Return(t, 1))]
  ELSE IF Buffered(c, t)
  THEN [c EXCEPT !.return_queue = Append(@, Return(t, 1))]
  ELSE LET p == [c EXCEPT !.pending_rd_q = Append(@, t)]
       IN  IF Len(At(p.pending_rd_q, t.addr)) = 1 THEN Push(p, t) ELSE p

\* IssueCommand
IssueCommand(c0, cmd) ==
  LET c == [c0 EXCEPT !.issued = @ \cup {cmd}]
      reads == At(c.pending_rd_q, cmd.addr)
      none == \/ cmd.type \in Reads /\ reads = <<>>
              \/ cmd.type \in Writes /\ At(c.pending_wr_q, cmd.addr) = <<>>
      moved == CASE cmd.type \in Reads ->
                      [c EXCEPT !.pending_rd_q = Without(@, cmd.addr),
                                !.return_queue = @ \o [i \in DOMAIN reads |->
                                                         Return(reads[i], read_delay)]]
                 [] cmd.type \in Writes ->
                      [c EXCEPT !.pending_wr_q = Without(@, cmd.addr)]
                 [] OTHER -> c
      ch == UpdateTimingAndStates(c.ch, cmd)
  IN  IF cmd.type = "ABRUPT_EXIT" \/ none
      THEN [c EXCEPT !.fatal = TRUE]
      ELSE [moved EXCEPT !.ch = ch,
                         !.fatal = @ \/ \E b \in Banks : ch.bank_states[b].state = "ABRUPT_EXIT"]

TransToCommand(t) ==
  [type |-> CASE config.row_buf_policy = "OPEN_PAGE" ->
                   IF t.is_write THEN "WRITE" ELSE "READ"
              [] OTHER -> IF t.is_write THEN "WRITE_PRECHARGE" ELSE "READ_PRECHARGE",
   bank |-> Loc(t.addr).bank, row |-> Loc(t.addr).row, addr |-> t.addr]

DRAIN_THRESHOLD == 8

\* "Enforce R->W dependency"
RWDependency(c, t) ==
  ~config.unified_queue /\ t.is_write /\ At(c.pending_rd_q, t.addr) # <<>>

\* The first transaction whose command queue has room moves there.  The write
\* buffer has its turn from when it is full until it has been drained, or until
\* a read of the same address is found to be pending.
ScheduleTransaction(c) ==
  LET full == \/ Len(c.write_buffer) >= config.trans_queue_size
              \/ Len(c.write_buffer) > DRAIN_THRESHOLD /\ \A q \in DOMAIN c.queues : c.queues[q] = <<>>
      draining == IF c.write_draining = 0 /\ ~config.unified_queue /\ full
                  THEN Len(c.write_buffer) ELSE c.write_draining
      from == CASE config.unified_queue -> "unified_queue"
                [] draining > 0 -> "write_buffer"
                [] OTHER -> "read_queue"
      fits == {i \in DOMAIN c[from] :
                 Len(c.queues[GetQueueIndex(Loc(c[from][i].addr).bank)]) < config.cmd_queue_size}
      t == c[from][Min(fits)]
      b == Loc(t.addr).bank
  IN  CASE fits = {} -> [c EXCEPT !.write_draining = draining]
        [] fits # {} /\ RWDependency(c, t) -> [c EXCEPT !.write_draining = 0]
        [] OTHER ->
             [c EXCEPT ![from] = RemoveAt(@, Min(fits)),
                       !.queues[GetQueueIndex(b)] = Append(@, TransToCommand(t)),
                       !.rank_q_empty[RankOf(b)] = FALSE,
                       !.write_draining = IF t.is_write /\ ~config.unified_queue
                                          THEN draining - 1 ELSE draining]

\* "power updates": idle ranks are counted and, when nothing was issued, put to
\* sleep; a rank that has ever had a command is woken up (rank_q_empty is never
\* set back).  rank_idle_cycles is counted up to the threshold it is compared with.
PowerUpdates(c, cmd_issued) ==
  LET idle == [c EXCEPT !.ch.rank_idle_cycles = [r \in Ranks |->
                 CASE c.ch.rank_is_sref[r] -> @[r]
                   [] IsAllBankIdleInRank(c.ch, r) -> Min({@[r] + 1, Param.sref_threshold})
                   [] OTHER -> 0]]
      want == [r \in Ranks |->
                 CASE c.ch.rank_is_sref[r] /\ ~c.rank_q_empty[r] -> "SREF_EXIT"
                   [] /\ ~c.ch.rank_is_sref[r] /\ c.rank_q_empty[r]
                      /\ idle.ch.rank_idle_cycles[r] >= Param.sref_threshold -> "SREF_ENTER"
                   [] OTHER -> "SIZE"]
      ready == [r \in Ranks |->
                  IF want[r] = "SIZE" THEN NoCommand
                  ELSE GetReadyCommand(c.ch, Command(want[r], r * banks))]
      some == {r \in Ranks : IsValid(ready[r])}
  IN  CASE ~config.enable_self_refresh -> c
        [] config.enable_self_refresh /\ ~cmd_issued /\ some # {} ->
             IssueCommand(idle, ready[Min(some)])
        [] OTHER -> idle

\* enable_hbm_dual_cmd: a second command, one of a row and one of a column.
DualCommand(first, second) ==
  LET rw(cmd) == cmd.type \in Reads \cup Writes
  IN  IF IsValid(second.cmd) /\ rw(second.cmd) # rw(first)
      THEN IssueCommand(second.c, second.cmd)
      ELSE second.c

\* The steps of Controller::ClockTick.  got is a command and the controller without it.
RefreshFirst(c) ==
  IF c.ch.refresh_q # <<>> THEN FinishRefresh(c) ELSE [cmd |-> NoCommand, c |-> c]
ElseQueued(got) == IF IsValid(got.cmd) THEN got ELSE GetCommandToIssue(got.c)
Issue(got) ==
  CASE ~IsValid(got.cmd) -> got.c
    [] IsValid(got.cmd) /\ config.enable_hbm_dual_cmd ->
         DualCommand(got.cmd, GetCommandToIssue(IssueCommand(got.c, got.cmd)))
    [] OTHER -> IssueCommand(got.c, got.cmd)
IssueAndSchedule(got) == ScheduleTransaction(PowerUpdates(Issue(got), IsValid(got.cmd)))
EndOfClock(c) ==
  [c EXCEPT !.ch = Elapse(@),
            !.return_queue = [i \in DOMAIN @ |-> [@[i] EXCEPT !.left = Later(@ - 1, 0)]]]

ControllerTick(c) ==
  EndOfClock(IssueAndSchedule(ElseQueued(RefreshFirst(RefreshTick([c EXCEPT !.issued = {}])))))

\* ReturnDoneTrans, called until nothing is left to return: the transactions
\* that are done, and the controller without them.
ReturnDoneTrans(c) ==
  [done |-> SelectSeq(c.return_queue, LAMBDA t : t.left = 0),
   c |-> [c EXCEPT !.return_queue = SelectSeq(@, LAMBDA t : t.left > 0)]]
=============================================================================
