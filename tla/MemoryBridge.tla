---------------------------- MODULE MemoryBridge ----------------------------
(***************************************************************************)
(* How the emulated machine reaches DRAMsim3: memory_request and           *)
(* memory_response (src/main/resources/csrc/ram.cc), which the Verilog of  *)
(* AXI4Memory.scala calls every cycle, over the co-simulation wrapper      *)
(* ComplexCoDRAMsim3 (DRAMSIM3/src/cosimulation.cc) and JedecDRAMSystem    *)
(* (dram_system.cc) with one channel.                                      *)
(*                                                                         *)
(* The machine repeats a request that was refused until it is taken, so a  *)
(* refused request is no step.  How many CPU clocks there are to a DRAM    *)
(* clock, and the padding time of a response, are left open: a response    *)
(* may be fetched at any time after its callback, in the order of the      *)
(* callbacks.  Two requests that are in flight together have different     *)
(* ids; id is therefore the number of those in flight with the same        *)
(* address and type, which is all that the pairing below depends on.       *)
(***************************************************************************)
EXTENDS DramController

CONSTANTS
  Configs,            \* the [system] sections to be considered, and in each of
                      \* them write_under_read: whether the client also writes
                      \* an address it is waiting to read
  SETTLE_TICKS        \* DRAM_RESET_SETTLE_TICKS

ASSUME QueueSizes ==
  \A c \in Configs : {c.cmd_queue_size, c.trans_queue_size} \subseteq Nat \ {0}

VARIABLES
  dram_step_count,
  read_addrs_outstanding, write_addrs_outstanding,
  req_list,           \* requests DRAMsim3 has not called back for, oldest first
  resp_read_queue, resp_write_queue,
  quiet,              \* the program has ended and sends no more requests
  mispaired,          \* ghost: a callback was taken for another request's
  rest                \* ghost: clocks left of the last refresh of each bank

bridgeVars == <<dram_step_count, read_addrs_outstanding, write_addrs_outstanding,
                req_list, resp_read_queue, resp_write_queue, quiet, mispaired, rest>>
dramVars == <<config, ctl, bridgeVars>>

BridgeInit ==
  /\ config \in Configs
  /\ ctl = Controller
  /\ dram_step_count = 0
  /\ read_addrs_outstanding = {} /\ write_addrs_outstanding = {}
  /\ req_list = <<>>
  /\ resp_read_queue = <<>> /\ resp_write_queue = <<>>
  /\ quiet = FALSE
  /\ mispaired = FALSE
  /\ rest = [b \in Banks |-> 0]

\* A request of the same type to the same address is in flight.
Refused(a, is_write) ==
  a \in (IF is_write THEN write_addrs_outstanding ELSE read_addrs_outstanding)

Matching(l, a, is_write) ==
  {i \in DOMAIN l : l[i].addr = a /\ l[i].is_write = is_write}

\* memory_request, ComplexCoDRAMsim3::add_request, JedecDRAMSystem::AddTransaction
memory_request(a, is_write) ==
  LET req == [addr |-> a, is_write |-> is_write,
              id |-> Cardinality(Matching(req_list, a, is_write))]
  IN  /\ ~quiet /\ ~ctl.fatal
      /\ is_write /\ ~config.write_under_read => a \notin read_addrs_outstanding
      /\ dram_step_count >= SETTLE_TICKS
      /\ ~Refused(a, is_write)
      /\ WillAcceptTransaction(ctl, is_write)
      /\ ctl' = AddTransaction(ctl, req)
      /\ req_list' = Append(req_list, req)
      /\ read_addrs_outstanding' =
           IF is_write THEN read_addrs_outstanding ELSE read_addrs_outstanding \cup {a}
      /\ write_addrs_outstanding' =
           IF is_write THEN write_addrs_outstanding \cup {a} ELSE write_addrs_outstanding
      /\ UNCHANGED <<config, dram_step_count, resp_read_queue, resp_write_queue,
                     quiet, mispaired, rest>>

\* memory_response, ComplexCoDRAMsim3::check_response
memory_response(is_write) ==
  /\ UNCHANGED <<config, ctl, dram_step_count, req_list, quiet, mispaired, rest>>
  /\ \/ /\ is_write /\ resp_write_queue # <<>>
        /\ resp_write_queue' = Tail(resp_write_queue)
        /\ write_addrs_outstanding' = write_addrs_outstanding \ {Head(resp_write_queue).addr}
        /\ UNCHANGED <<resp_read_queue, read_addrs_outstanding>>
     \/ /\ ~is_write /\ resp_read_queue # <<>>
        /\ resp_read_queue' = Tail(resp_read_queue)
        /\ read_addrs_outstanding' = read_addrs_outstanding \ {Head(resp_read_queue).addr}
        /\ UNCHANGED <<resp_write_queue, write_addrs_outstanding>>

\* ComplexCoDRAMsim3::callback for one completed transaction: the first request
\* with its address and type is answered.
callback(s, t) ==
  LET hit == Matching(s.list, t.addr, t.is_write)
      req == s.list[Min(hit)]
  IN  IF hit = {} THEN [s EXCEPT !.abort = TRUE]
      ELSE [s EXCEPT !.list = RemoveAt(@, Min(hit)),
                     !.reads = IF t.is_write THEN @ ELSE Append(@, req),
                     !.writes = IF t.is_write THEN Append(@, req) ELSE @,
                     !.wrong = @ \/ req.id # t.id]

\* How long the commands of a clock forbid the activation of bank b.
RefreshTime(cmds, b) ==
  CASE \E cmd \in cmds : cmd.type = "REFRESH" /\ RankOf(cmd.bank) = RankOf(b) -> Param.tRFC
    [] \E cmd \in cmds : cmd.type = "REFRESH_BANK" /\ cmd.bank = b -> Param.tRFCb
    [] OTHER -> 0

\* dramsim3_step, when a DRAM clock is due: JedecDRAMSystem::ClockTick
dramsim3_step ==
  LET back == ReturnDoneTrans(ctl)
      s == FoldLeft(callback, [list |-> req_list, reads |-> resp_read_queue,
                               writes |-> resp_write_queue, wrong |-> mispaired,
                               abort |-> FALSE], back.done)
      c == ControllerTick(back.c)
  IN  /\ ~ctl.fatal
      /\ ctl' = [c EXCEPT !.fatal = @ \/ s.abort]
      /\ req_list' = s.list
      /\ resp_read_queue' = s.reads
      /\ resp_write_queue' = s.writes
      /\ mispaired' = s.wrong
      /\ rest' = [b \in Banks |-> Max({rest[b] - 1, RefreshTime(c.issued, b) - 1, 0})]
      /\ dram_step_count' = Min({dram_step_count + 1, SETTLE_TICKS})
      /\ UNCHANGED <<config, read_addrs_outstanding, write_addrs_outstanding, quiet>>

\* The program ends.
Quiesce ==
  /\ ~quiet
  /\ quiet' = TRUE
  /\ UNCHANGED <<config, ctl, dram_step_count, read_addrs_outstanding,
                 write_addrs_outstanding, req_list, resp_read_queue,
                 resp_write_queue, mispaired, rest>>

BridgeNext ==
  \/ \E a \in Addrs, is_write \in BOOLEAN : memory_request(a, is_write)
  \/ \E is_write \in BOOLEAN : memory_response(is_write)
  \/ dramsim3_step
  \/ Quiesce

\* A step is a DRAM clock.
Clocked == ctl'.refresh_clk # ctl.refresh_clk

\* The emulator's main loop steps DRAMsim3 on every tick and polls for responses.
BridgeFairness ==
  /\ []<><<Clocked>>_ctl
  /\ \A is_write \in BOOLEAN : WF_dramVars(memory_response(is_write))

BridgeSpec == BridgeInit /\ [][BridgeNext]_dramVars /\ BridgeFairness
-----------------------------------------------------------------------------
BridgeTypeOK ==
  /\ config \in Configs
  /\ \A q \in {ctl.unified_queue, ctl.read_queue, ctl.write_buffer} : Len(q) <= config.trans_queue_size
  /\ \A q \in DOMAIN ctl.queues : Len(ctl.queues[q]) <= config.cmd_queue_size
  /\ ctl.write_draining \in 0 .. Len(ctl.write_buffer)
  /\ read_addrs_outstanding \subseteq Addrs /\ write_addrs_outstanding \subseteq Addrs
  /\ \A q \in {req_list, resp_read_queue, resp_write_queue} :
       \A i \in DOMAIN q : q[i].addr \in Addrs /\ q[i].is_write \in BOOLEAN
  /\ {quiet, mispaired} \subseteq BOOLEAN
  /\ rest \in [Banks -> Nat]

\* No command finds itself without its transaction ("not in read queue!", "not in
\* write queue!", "cannot find cmd!"), no bank is asked for the impossible
\* (AbruptExit in bankstate.cc) and no completion is left without its request
\* ("INTERNAL ERROR: Do not find matched request for this response").
NoFatalExit == ~ctl.fatal

\* The completion DRAMsim3 reports for an address is handed to the request it was
\* made for, although the callback names only the address and the type.
CompletionPaired == ~mispaired

\* When a write reaches its row, every read of that address that was accepted
\* before it has been done: later reads were answered from the write buffer.
WriteAfterRead ==
  [][Clocked => \A cmd \in ctl'.issued :
       cmd.type \in Writes => At(ctl'.pending_rd_q, cmd.addr) = <<>>]_ctl

\* A bank that is being refreshed is not activated for the time a refresh takes.
RefreshedBankRests ==
  [][Clocked => \A cmd \in ctl'.issued :
       cmd.type = "ACTIVATE" => rest[cmd.bank] = 0]_ctl

\* Every address with a read (write) that waits for DRAM has exactly one
\* transaction or command under way for it: none is lost between the queues,
\* and none is done twice.
UnderWay(a, is_write) ==
  LET waiting == SelectSeq(ctl.unified_queue \o ctl.read_queue \o ctl.write_buffer,
                           LAMBDA t : t.addr = a /\ t.is_write = is_write)
      queued == SelectSeq(ctl.queues[GetQueueIndex(Loc(a).bank)],
                          LAMBDA cmd : /\ cmd.addr = a
                                       /\ cmd.type \in IF is_write THEN Writes ELSE Reads)
  IN  Len(waiting) + Len(queued)
PendingOnce ==
  \A a \in Addrs :
    /\ UnderWay(a, FALSE) = IF At(ctl.pending_rd_q, a) = <<>> THEN 0 ELSE 1
    /\ UnderWay(a, TRUE) = Len(At(ctl.pending_wr_q, a))

\* Every request that waits for its callback has a transaction that will be
\* returned: it is pending or it is in the return queue.
NoneForgotten ==
  \A i \in DOMAIN req_list :
    \/ \E j \in DOMAIN ctl.return_queue :
         /\ ctl.return_queue[j].addr = req_list[i].addr
         /\ ctl.return_queue[j].is_write = req_list[i].is_write
    \/ ~req_list[i].is_write /\ At(ctl.pending_rd_q, req_list[i].addr) # <<>>

\* Refreshes do not pile up: a rank is refreshed before its next one is due.
RefreshKeepsUp == Len(ctl.ch.refresh_q) <= ranks

\* Every request is performed once and completed to the one who made it, while all queues,
\* the refresh queue included, stay within their sizes.
DoneOnce == BridgeTypeOK /\ CompletionPaired /\ PendingOnce /\ NoneForgotten /\ RefreshKeepsUp

AllAnswered == req_list = <<>> /\ resp_read_queue = <<>> /\ resp_write_queue = <<>>

\* Once the program sends no more requests, everything it asked for is answered, if it
\* has not written an address it was waiting to read.
Drains == (quiet /\ ~config.write_under_read) ~> AllAnswered
=============================================================================
