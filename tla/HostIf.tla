-------------------------------- MODULE HostIf --------------------------------
(***************************************************************************)
(* The host interface of the bare-metal programs: start-up (common/crt.S,  *)
(* init_or_wait of torture_util.h, setup_timer_interrupts of interrupts.h) *)
(* and the system calls, exit and abort of common/syscalls.c.              *)
(*                                                                         *)
(* A word is the set of its bits.  WORD and INT are the widths of a        *)
(* register and of int, scaled down together: an exit code is an int that  *)
(* is sign-extended, and so is the mask ~(1<<coreId) of tohost_exit.  The  *)
(* host (fesvr) is external: it polls tohost, clears it, serves a call by  *)
(* writing fromhost and stops the simulation at an odd value.              *)
(***************************************************************************)
EXTENDS Naturals

CONSTANTS NHARTS, WORD, INT,
          Codes,           \* what a program may return
          PRINTS,          \* lines a hart may print
          Modes            \* what the program does: subset of {"plain", "abort", "timer"}

ASSUME HostAssumption ==
  /\ WORD \in Nat /\ NHARTS \in 1 .. WORD /\ INT \in Nat \ {0} /\ 2 * INT <= WORD
  /\ Codes \subseteq SUBSET (0 .. INT - 1)

Cores == 0 .. NHARTS - 1
NoReq == [kind |-> "none", from |-> 0, bits |-> {}]

VARIABLES
  tohost, fromhost,        \* the request and the core whose call is answered
  hostAccessSema, sema_resv,
  rowActive, rowFail,
  hart_running_signals, init_done, interrupt_handler,
  exited, returned,        \* history: who has been through tohost_exit, with what
  hi,                      \* core -> [at, then, prints]
  host,                    \* what the host is serving
  verdict,                 \* how the host ended the run
  mode

hiWords == <<rowActive, rowFail, exited, returned>>
hiBoot == <<hart_running_signals, init_done, interrupt_handler>>
hiHost == <<host, verdict, mode>>
hiLock == <<hostAccessSema, sema_resv>>
hiVars == <<tohost, fromhost, hiLock, hiWords, hiBoot, hi, hiHost>>

hiInit ==
  /\ tohost = NoReq /\ fromhost = NHARTS
  /\ hostAccessSema = 0 /\ sema_resv = {}
  /\ rowActive = {} /\ rowFail = {} /\ exited = {} /\ returned = [c \in Cores |-> {}]
  /\ hart_running_signals = {} /\ init_done = FALSE /\ interrupt_handler = FALSE
  /\ hi = [c \in Cores |-> [at |-> "boot", then |-> "run", prints |-> 0]]
  /\ host = NoReq /\ verdict = NoReq /\ mode = "none"

hiStart ==
  /\ mode = "none"
  /\ mode' \in Modes
  /\ UNCHANGED <<tohost, fromhost, hiLock, hiWords, hiBoot, hi, host, verdict>>

At(c, place) == hi[c].at = place
hiGoto(c, place) == hi' = [hi EXCEPT ![c].at = place]

\* crt.S sets the bit of the core in rowActive; init_or_wait: every core reports, core 0
\* waits for all of them (or gives up after 5e5 cycles) and lets them go.
Boot(c) ==
  \/ /\ At(c, "boot")
     /\ rowActive' = rowActive \cup {c}
     /\ hiGoto(c, "report")
     /\ UNCHANGED <<tohost, fromhost, hiLock, rowFail, exited, returned, hiBoot, hiHost>>
  \/ /\ At(c, "report")
     /\ hart_running_signals' = hart_running_signals \cup {c}
     /\ hiGoto(c, IF c = 0 THEN "roll_call" ELSE "wait_init")
     /\ UNCHANGED <<tohost, fromhost, hiLock, hiWords, init_done, interrupt_handler, hiHost>>

RollCall(c) ==
  \/ /\ At(c, "roll_call") /\ hart_running_signals = Cores
     /\ init_done' = TRUE
     /\ hiGoto(c, "wait_init")
     /\ UNCHANGED <<tohost, fromhost, hiLock, hiWords, hart_running_signals, interrupt_handler,
                    hiHost>>
  \/ /\ At(c, "roll_call") /\ hart_running_signals # Cores /\ mode = "abort"
     /\ hi' = [hi EXCEPT ![c].at = "lock", ![c].then = "abort"]
     /\ UNCHANGED <<tohost, fromhost, hiLock, hiWords, hiBoot, hiHost>>
  \/ /\ At(c, "wait_init") /\ init_done
     /\ hiGoto(c, IF mode = "timer" THEN "timer" ELSE "run")
     /\ UNCHANGED <<tohost, fromhost, hiLock, hiWords, hiBoot, hiHost>>

\* setup_timer_interrupts: core 0 installs the handler for all, each enables its timer.
Timer(c) ==
  /\ At(c, "timer")
  /\ interrupt_handler' = (interrupt_handler \/ c = 0)
  /\ hiGoto(c, "run")
  /\ UNCHANGED <<tohost, fromhost, hiLock, hiWords, hart_running_signals, init_done, hiHost>>

\* The core has the semaphore; core 0 keeps it when it has sent the exit code.
Holds(c) ==
  \/ hi[c].at \in {"post", "await", "clear", "release", "exit_post", "stuck"}
  \/ At(c, "halt") /\ hi[c].then = "tohost_exit"

\* A timer interrupt, anywhere after setup_timer_interrupts: with a handler it returns to epc
\* and has touched nothing of what is modelled; without one handle_trap prints and aborts.
\* wait_host_free is not reentrant: a core that had the semaphore waits for itself.
handle_trap(c) ==
  /\ mode = "timer" /\ ~interrupt_handler /\ hi[c].then # "abort"
  /\ hi[c].at \notin {"boot", "report", "roll_call", "wait_init", "timer"}
  /\ hi' = [hi EXCEPT ![c].at = IF Holds(c) THEN "stuck" ELSE "lock", ![c].then = "abort"]
  /\ sema_resv' = sema_resv \ {c}
  /\ UNCHANGED <<tohost, fromhost, hostAccessSema, hiWords, hiBoot, hiHost>>

\* The program: it prints lines, then returns to _init, or aborts.
Program(c) ==
  /\ At(c, "run")
  /\ \/ /\ hi[c].prints < PRINTS
        /\ hi' = [hi EXCEPT ![c].at = "lock", ![c].then = "run", ![c].prints = @ + 1]
     \/ hiGoto(c, "exit")
     \/ /\ mode = "abort"
        /\ hi' = [hi EXCEPT ![c].at = "lock", ![c].then = "abort"]
  /\ UNCHANGED <<tohost, fromhost, hiLock, hiWords, hiBoot, hiHost>>

\* Mutant: a plain load and store instead of the reservation.
StoreCond_Store(c) ==
  /\ At(c, "sc")
  /\ hostAccessSema' = 1 /\ sema_resv' = {}
  /\ hiGoto(c, IF hi[c].then = "tohost_exit" THEN "exit_post" ELSE "post")
  /\ UNCHANGED <<tohost, fromhost, hiWords, hiBoot, hiHost>>

\* sc.w.aq: the store happens if no core has written the word since the lr.w.
StoreCond(c) ==
  /\ At(c, "sc")
  /\ IF c \in sema_resv
     THEN /\ hostAccessSema' = 1 /\ sema_resv' = {}
          /\ hiGoto(c, IF hi[c].then = "tohost_exit" THEN "exit_post" ELSE "post")
     ELSE hiGoto(c, "lock") /\ UNCHANGED hiLock
  /\ UNCHANGED <<tohost, fromhost, hiWords, hiBoot, hiHost>>

\* wait_host_free: lr.w until the word is 0.
wait_host_free(c) ==
  \/ /\ At(c, "lock") /\ hostAccessSema = 0
     /\ sema_resv' = sema_resv \cup {c}
     /\ hiGoto(c, "sc")
     /\ UNCHANGED <<tohost, fromhost, hostAccessSema, hiWords, hiBoot, hiHost>>
  \/ StoreCond(c)

\* while (fromhost == 0); fromhost = 0; then amoswap.w.rl of the semaphore.
Answered(c) ==
  \/ /\ At(c, "await") /\ fromhost # NHARTS
     /\ hiGoto(c, "clear")
     /\ UNCHANGED <<tohost, fromhost, hiLock, hiWords, hiBoot, hiHost>>
  \/ /\ At(c, "clear")
     /\ fromhost' = NHARTS
     /\ hiGoto(c, "release")
     /\ UNCHANGED <<tohost, hiLock, hiWords, hiBoot, hiHost>>
  \/ /\ At(c, "release")
     /\ hostAccessSema' = 0 /\ sema_resv' = {}
     /\ hiGoto(c, hi[c].then)
     /\ UNCHANGED <<tohost, fromhost, hiWords, hiBoot, hiHost>>

syscall(c) ==
  \/ wait_host_free(c)
  \/ /\ At(c, "post")
     /\ tohost' = [kind |-> "call", from |-> c, bits |-> {}]
     /\ hiGoto(c, "await")
     /\ UNCHANGED <<fromhost, hiLock, hiWords, hiBoot, hiHost>>
  \/ Answered(c)

\* Mutant: the mask is one bit off.
Cleared_Next(c) == {(c + 1) % INT}

\* The bits that the and-mask ~(1<<coreId) clears: the shift of an int takes coreId
\* modulo its width, and the sign bit is extended through the upper half.
Cleared(c) == IF c % INT = INT - 1 THEN c % INT .. WORD - 1 ELSE {c % INT}

\* code<<coreId, of an int that is passed on as uintptr_t: sign-extended, and cut off at the
\* width of the word.
Shifted(c, code) ==
  {b + c : b \in IF INT - 1 \in code THEN code \cup (INT .. WORD - 1) ELSE code} \cap (0 .. WORD - 1)

\* (rowFail<<1) + 1
Posted(fail) == {0} \cup ({b + 1 : b \in fail} \cap (1 .. WORD - 1))

\* Mutant: core 0 does not wait for the others.
SendExitCode_Now(c) ==
  \/ /\ At(c, "drain")
     /\ hi' = [hi EXCEPT ![c].at = "lock", ![c].then = "tohost_exit"]
     /\ UNCHANGED <<tohost, fromhost, hiLock, hiWords, hiBoot, hiHost>>
  \/ /\ At(c, "exit_post")
     /\ tohost' = [kind |-> "exit", from |-> c, bits |-> Posted(rowFail)]
     /\ hiGoto(c, "halt")
     /\ UNCHANGED <<fromhost, hiLock, hiWords, hiBoot, hiHost>>

\* Core 0: while(rowActive); wait_host_free(); tohost = (rowFail<<1) + 1
SendExitCode(c) ==
  \/ /\ At(c, "drain") /\ rowActive = {}
     /\ hi' = [hi EXCEPT ![c].at = "lock", ![c].then = "tohost_exit"]
     /\ UNCHANGED <<tohost, fromhost, hiLock, hiWords, hiBoot, hiHost>>
  \/ /\ At(c, "exit_post")
     /\ tohost' = [kind |-> "exit", from |-> c, bits |-> Posted(rowFail)]
     /\ hiGoto(c, "halt")
     /\ UNCHANGED <<fromhost, hiLock, hiWords, hiBoot, hiHost>>

tohost_exit(c) ==
  \/ /\ At(c, "exit")
     /\ \E code \in Codes : /\ rowFail' = rowFail \cup Shifted(c, code)
                           /\ returned' = [returned EXCEPT ![c] = code]
     /\ hiGoto(c, "inactive")
     /\ UNCHANGED <<tohost, fromhost, hiLock, rowActive, exited, hiBoot, hiHost>>
  \/ /\ At(c, "inactive")
     /\ rowActive' = rowActive \ Cleared(c)
     /\ exited' = exited \cup {c}
     /\ hiGoto(c, IF c = 0 THEN "drain" ELSE "halt")
     /\ UNCHANGED <<tohost, fromhost, hiLock, rowFail, returned, hiBoot, hiHost>>
  \/ SendExitCode(c)

\* After its message abort stores 841 in tohost, without the semaphore.
abort(c) ==
  /\ At(c, "abort")
  /\ tohost' = [kind |-> "abort", from |-> c, bits |-> {}]
  /\ hiGoto(c, "halt")
  /\ UNCHANGED <<fromhost, hiLock, hiWords, hiBoot, hiHost>>

hiStep(c) ==
  /\ mode # "none" /\ verdict = NoReq
  /\ \/ Boot(c) \/ RollCall(c) \/ Timer(c) \/ handle_trap(c) \/ Program(c) \/ syscall(c)
     \/ tohost_exit(c) \/ abort(c)

\* The host: it takes what it finds in tohost, and answers a call.
HostPolls ==
  /\ host = NoReq /\ tohost # NoReq /\ verdict = NoReq
  /\ tohost' = NoReq
  /\ IF tohost.kind = "call" THEN host' = tohost /\ UNCHANGED verdict
                             ELSE verdict' = tohost /\ UNCHANGED host
  /\ UNCHANGED <<fromhost, hiLock, hiWords, hiBoot, hi, mode>>

HostAnswers ==
  /\ host # NoReq /\ fromhost = NHARTS
  /\ fromhost' = host.from
  /\ host' = NoReq
  /\ UNCHANGED <<tohost, hiLock, hiWords, hiBoot, hi, verdict, mode>>

hiNext == hiStart \/ (\E c \in Cores : hiStep(c)) \/ HostPolls \/ HostAnswers

hiSpec == hiInit /\ [][hiNext]_hiVars

-----------------------------------------------------------------------------
(* Properties *)

\* A core that sees fromhost set finds the answer to its own call there: calls of several
\* cores never mix, abort or not.
AnswerIsMine == \A c \in Cores : At(c, "clear") => fromhost = c

\* What the programs of all cores returned, as one word.
AllReturned == UNION {Shifted(c, returned[c]) : c \in Cores}

\* The run ends with an exit code only when every core has been through tohost_exit; the code
\* is put together from what all of them returned, and is 1, the code of a test that passed,
\* exactly if all returned 0.
ExitAfterAll ==
  verdict.kind = "exit" =>
    /\ exited = Cores
    /\ verdict.bits = Posted(AllReturned)
    /\ verdict.bits = {0} <=> \A c \in Cores : returned[c] = {}

\* A program in which no core aborts comes to an end.
RunEnds == []<>(mode = "plain" => verdict.kind = "exit")

-----------------------------------------------------------------------------
(* The inductive invariants *)

Places ==
  {"boot", "report", "roll_call", "wait_init", "timer", "run", "lock", "sc", "post", "await",
   "clear", "release", "exit", "inactive", "drain", "exit_post", "abort", "halt", "stuck"}

hiTypes ==
  /\ hi \in [Cores -> [at : Places, then : {"run", "abort", "tohost_exit"}, prints : Nat]]
  /\ hostAccessSema \in {0, 1}
  /\ rowActive \subseteq Cores /\ exited \subseteq Cores
  /\ returned \in [Cores -> SUBSET (0 .. INT - 1)]
  /\ sema_resv \subseteq Cores /\ hart_running_signals \subseteq Cores
  /\ init_done \in BOOLEAN

\* Which places go with what the core does after its next call.
ThenFits ==
  \A c \in Cores :
    /\ hi[c].then = "tohost_exit" => c = 0 /\ hi[c].at \in {"lock", "sc", "exit_post", "halt"}
    /\ At(c, "exit_post") => hi[c].then = "tohost_exit"
    /\ At(c, "drain") => c = 0
    /\ At(c, "abort") => hi[c].then = "abort"
    /\ hi[c].then = "abort" =>
         hi[c].at \in {"lock", "sc", "post", "await", "clear", "release", "abort", "halt", "stuck"}

\* wait_host_free excludes: a reservation exists only while the word is 0.
SemaExcludes ==
  /\ \A c \in Cores : Holds(c) => hostAccessSema = 1
  /\ \A c, d \in Cores : Holds(c) /\ Holds(d) => c = d
  /\ \A c \in sema_resv : At(c, "sc") /\ hostAccessSema = 0

\* Where the call of the core that awaits an answer can be: in tohost, with the host or,
\* answered, in fromhost, and only in one of them.  It may also be overwritten by an abort, or
\* the core may be stuck in a trap.
CallTracked ==
  /\ fromhost \in 0 .. NHARTS
  /\ tohost.kind = "call" =>
       /\ tohost.from \in Cores /\ hi[tohost.from].at \in {"await", "stuck"}
       /\ host = NoReq /\ fromhost = NHARTS
  /\ host # NoReq =>
       host.from \in Cores /\ hi[host.from].at \in {"await", "stuck"} /\ fromhost = NHARTS
  /\ fromhost # NHARTS => hi[fromhost].at \in {"await", "clear", "stuck"}

hiLockInv == hiTypes /\ ThenFits /\ SemaExcludes /\ CallTracked /\ AnswerIsMine

\* What a core's place says of the start-up: a core that got beyond init_or_wait without
\* aborting has seen init_done, and that was set when all had reported.
Started ==
  /\ \A c \in Cores : c \notin hart_running_signals <=> hi[c].at \in {"boot", "report"}
  /\ init_done => hart_running_signals = Cores
  /\ \A c \in Cores :
       \/ init_done \/ hi[c].then = "abort"
       \/ hi[c].at \in {"boot", "report", "roll_call", "wait_init"}

\* The bits of rowActive and rowFail, and what core 0 knows when it sends the exit code.
ExitTracked ==
  /\ rowActive = {c \in Cores : ~At(c, "boot") /\ c \notin exited}
  /\ rowFail = AllReturned
  /\ \A c \in Cores : c \in exited =>
       hi[c].at \in {"drain", "halt"} \/ hi[c].then \in {"abort", "tohost_exit"}
  /\ \A c \in Cores :
       returned[c] = {} \/ c \in exited \/ At(c, "inactive") \/ hi[c].then = "abort"
  /\ hi[0].then = "tohost_exit" => exited = Cores

\* An exit code that is under way, or was received, is the final one.
ExitFinal(request) == request.kind = "exit" => exited = Cores /\ request.bits = Posted(AllReturned)

hiExitInv ==
  hiTypes /\ Started /\ ThenFits /\ ExitTracked /\ ExitFinal(tohost) /\ ExitFinal(verdict)
=============================================================================
