----------------------------- MODULE HostProofs -----------------------------
(***************************************************************************)
(* What the host gets to see: the calls and the exit code of               *)
(* riscv-tests/common/syscalls.c, and the log that comlog.cc writes.       *)
(*                                                                         *)
(* For any number of harts, hiLockInv shows that calls of several harts    *)
(* never mix, hiExitInv that the exit code waits for everybody, as long as *)
(* every hart has a bit below the sign bit of an int.                      *)
(***************************************************************************)
EXTENDS HostIf, CommitLog, TLAPS

hiBase == hiTypes /\ ThenFits

\* Core c goes to a place, with what it does next; the others stay.
Moves(c, place, next) ==
  /\ hi'[c].at = place /\ hi'[c].then = next /\ hi'[c].prints \in Nat
  /\ hi' \in [Cores -> [at : Places, then : {"run", "abort", "tohost_exit"}, prints : Nat]]
  /\ \A d \in Cores \ {c} : hi'[d] = hi[d]

\* Hart 0 exists, and NHARTS stands for none.
LEMMA CoreZero == 0 \in Cores /\ NHARTS \notin Cores /\ 0 .. NHARTS = Cores \cup {NHARTS}
BY HostAssumption DEF Cores

\* A jump of one hart.
LEMMA GotoMoves ==
  ASSUME hiTypes, NEW c \in Cores, NEW place \in Places, hiGoto(c, place)
  PROVE  Moves(c, place, hi[c].then)
<1> DEFINE H == [at : Places, then : {"run", "abort", "tohost_exit"}, prints : Nat]
<1>1. hi \in [Cores -> H] /\ hi[c] \in H
  BY DEF hiTypes
<1>2. hi' = [hi EXCEPT ![c] = [hi[c] EXCEPT !.at = place]]
  BY DEF hiGoto
<1>3. [hi[c] EXCEPT !.at = place] \in H
  BY <1>1
<1>4. hi' \in [Cores -> H] /\ hi'[c] = [hi[c] EXCEPT !.at = place]
      /\ \A d \in Cores \ {c} : hi'[d] = hi[d]
  BY <1>1, <1>2, <1>3
<1> QED BY <1>1, <1>3, <1>4 DEF Moves

\* A jump that also sets where syscall returns to.
LEMMA CallMoves ==
  ASSUME hiTypes, NEW c \in Cores, NEW place \in Places,
         NEW next \in {"run", "abort", "tohost_exit"},
         hi' = [hi EXCEPT ![c].at = place, ![c].then = next]
  PROVE  Moves(c, place, next)
<1> DEFINE H == [at : Places, then : {"run", "abort", "tohost_exit"}, prints : Nat]
<1> DEFINE r == [hi[c] EXCEPT !.at = place, !.then = next]
<1>1. hi \in [Cores -> H] /\ hi[c] \in H
  BY DEF hiTypes
<1>2. hi' = [hi EXCEPT ![c] = r]
  BY Zenon
<1>3. r \in H /\ r.at = place /\ r.then = next
  BY <1>1, Zenon
<1>4. hi' \in [Cores -> H] /\ hi'[c] = r /\ \A d \in Cores \ {c} : hi'[d] = hi[d]
  BY <1>1, <1>2, <1>3
<1> QED BY <1>1, <1>3, <1>4 DEF Moves

\* Where each handler takes core c, from where.
LEMMA BootMoves ==
  ASSUME hiTypes, NEW c \in Cores, Boot(c)
  PROVE  \/ At(c, "boot") /\ Moves(c, "report", hi[c].then)
         \/ At(c, "report") /\ c = 0 /\ Moves(c, "roll_call", hi[c].then)
         \/ At(c, "report") /\ c # 0 /\ Moves(c, "wait_init", hi[c].then)
BY GotoMoves, SMTT(60) DEF Boot, Places

\* The wait for the other harts, and for init_done.
LEMMA RollCallMoves ==
  ASSUME hiTypes, NEW c \in Cores, RollCall(c)
  PROVE  \/ At(c, "roll_call") /\ Moves(c, "wait_init", hi[c].then)
         \/ At(c, "roll_call") /\ Moves(c, "lock", "abort")
         \/ At(c, "wait_init") /\ init_done /\ Moves(c, "timer", hi[c].then)
         \/ At(c, "wait_init") /\ init_done /\ Moves(c, "run", hi[c].then)
BY GotoMoves, CallMoves, Zenon DEF RollCall, Places

\* The timer is set up.
LEMMA TimerMoves ==
  ASSUME hiTypes, NEW c \in Cores, Timer(c)
  PROVE  At(c, "timer") /\ Moves(c, "run", hi[c].then)
BY GotoMoves DEF Timer, Places

\* A timer interrupt without a handler.
LEMMA TrapMoves ==
  ASSUME hiTypes, NEW c \in Cores, handle_trap(c)
  PROVE  /\ Holds(c) => Moves(c, "stuck", "abort")
         /\ ~Holds(c) => Moves(c, "lock", "abort")
<1>1. CASE Holds(c)
  <2>1. hi' = [hi EXCEPT ![c].at = "stuck", ![c].then = "abort"]
    BY <1>1, Zenon DEF handle_trap
  <2> QED BY <1>1, <2>1, CallMoves, Zenon DEF Places
<1>2. CASE ~Holds(c)
  <2>1. hi' = [hi EXCEPT ![c].at = "lock", ![c].then = "abort"]
    BY <1>2, Zenon DEF handle_trap
  <2> QED BY <1>2, <2>1, CallMoves, Zenon DEF Places
<1> QED BY <1>1, <1>2

\* What a program does: print, abort or exit.
LEMMA ProgramMoves ==
  ASSUME hiTypes, NEW c \in Cores, Program(c)
  PROVE  /\ At(c, "run")
         /\ \/ Moves(c, "lock", "run")
            \/ Moves(c, "lock", "abort")
            \/ Moves(c, "exit", hi[c].then)
<1> DEFINE H == [at : Places, then : {"run", "abort", "tohost_exit"}, prints : Nat]
<1>0. hi \in [Cores -> H] /\ hi[c] \in H
  BY DEF hiTypes
<1>1. ASSUME hi' = [hi EXCEPT ![c].at = "lock", ![c].then = "run", ![c].prints = @ + 1]
      PROVE  Moves(c, "lock", "run")
  <2> DEFINE r == [hi[c] EXCEPT !.at = "lock", !.then = "run", !.prints = hi[c].prints + 1]
  <2>0. hi[c].prints + 1 \in Nat
    BY <1>0
  <2>1. r \in H /\ r.at = "lock" /\ r.then = "run" /\ r.prints \in Nat
    BY <1>0, <2>0, Zenon DEF Places
  <2>2. hi' \in [Cores -> H] /\ hi'[c] = r /\ \A d \in Cores \ {c} : hi'[d] = hi[d]
    BY <1>0, <1>1, <2>1
  <2> QED BY <2>1, <2>2 DEF Moves
<1> QED BY <1>1, GotoMoves, CallMoves, Zenon DEF Program, Places

\* The steps of a call to the host.
LEMMA CallStepMoves ==
  ASSUME hiTypes, NEW c \in Cores, syscall(c)
  PROVE  \/ At(c, "lock") /\ Moves(c, "sc", hi[c].then)
         \/ At(c, "sc") /\ Moves(c, "lock", hi[c].then)
         \/ At(c, "sc") /\ hi[c].then = "tohost_exit"
                        /\ Moves(c, "exit_post", hi[c].then)
         \/ At(c, "sc") /\ hi[c].then # "tohost_exit" /\ Moves(c, "post", hi[c].then)
         \/ At(c, "post") /\ Moves(c, "await", hi[c].then)
         \/ At(c, "await") /\ Moves(c, "clear", hi[c].then)
         \/ At(c, "clear") /\ Moves(c, "release", hi[c].then)
         \/ At(c, "release") /\ hiGoto(c, hi[c].then)
<1>1. CASE wait_host_free(c)
  BY <1>1, GotoMoves DEF wait_host_free, StoreCond, Places
<1>2. CASE Answered(c)
  BY <1>2, GotoMoves, SMTT(60) DEF Answered, Places
<1> QED BY <1>1, <1>2, GotoMoves DEF syscall, Places

\* The steps of tohost_exit and abort.
LEMMA ExitMoves ==
  ASSUME hiTypes, NEW c \in Cores, tohost_exit(c) \/ abort(c)
  PROVE  \/ At(c, "exit") /\ Moves(c, "inactive", hi[c].then)
         \/ At(c, "inactive") /\ c = 0 /\ Moves(c, "drain", hi[c].then)
         \/ At(c, "inactive") /\ c # 0 /\ Moves(c, "halt", hi[c].then)
         \/ At(c, "drain") /\ Moves(c, "lock", "tohost_exit")
         \/ At(c, "exit_post") /\ Moves(c, "halt", hi[c].then)
         \/ At(c, "abort") /\ Moves(c, "halt", hi[c].then)
BY GotoMoves, CallMoves, Zenon DEF tohost_exit, SendExitCode, abort, Places

\* Every step keeps the types and places.
LEMMA BaseInductive == hiBase /\ [hiNext]_hiVars => hiBase'
<1> SUFFICES ASSUME hiBase, [hiNext]_hiVars PROVE hiBase'
  OBVIOUS
<1> USE CoreZero DEF hiBase, ThenFits, At
<1>1. CASE UNCHANGED hiVars
  BY <1>1 DEF hiTypes, hiVars, hiWords, hiBoot, hiHost, hiLock
<1>2. CASE hiStart \/ HostPolls \/ HostAnswers
  BY <1>2 DEF hiTypes, hiStart, HostPolls, HostAnswers, hiWords, hiBoot, hiHost, hiLock
<1>3. ASSUME NEW c \in Cores, hiStep(c) PROVE hiBase'
  <2> USE DEF hiWords, hiBoot, hiHost, hiLock
  <2>1. CASE Boot(c)
    <3>1. ThenFits'
      BY <2>1, BootMoves DEF Moves
    <3> QED BY <2>1, <3>1, BootMoves DEF Boot, Moves, hiTypes
  <2>2. CASE RollCall(c)
    <3>1. ThenFits'
      BY <2>2, RollCallMoves DEF Moves
    <3> QED BY <2>2, <3>1, RollCallMoves, Zenon DEF RollCall, Moves, hiTypes
  <2>3. CASE Timer(c)
    <3>1. ThenFits'
      BY <2>3, TimerMoves DEF Moves
    <3> QED BY <2>3, <3>1, TimerMoves DEF Timer, Moves, hiTypes
  <2>7. CASE handle_trap(c)
    <3>1. ThenFits'
      BY <2>7, TrapMoves DEF Moves
    <3>2. hi' \in [Cores -> [at : Places, then : {"run", "abort", "tohost_exit"}, prints : Nat]]
      BY <2>7, TrapMoves DEF Moves
    <3> QED BY <2>7, <3>1, <3>2 DEF handle_trap, hiTypes
  <2>4. CASE Program(c)
    <3>1. ThenFits'
      BY <2>4, ProgramMoves DEF Moves
    <3> QED BY <2>4, <3>1, ProgramMoves, Zenon DEF Program, Moves, hiTypes
  <2>5. CASE syscall(c)
    <3>1. At(c, "release") /\ hiGoto(c, hi[c].then) => Moves(c, hi[c].then, hi[c].then)
      BY GotoMoves DEF hiTypes, Places
    <3>2. ThenFits'
      BY <2>5, <3>1, CallStepMoves DEF Moves, hiTypes
    <3>3. hi' \in [Cores -> [at : Places, then : {"run", "abort", "tohost_exit"}, prints : Nat]]
      BY <2>5, <3>1, CallStepMoves DEF Moves
    <3> QED BY <2>5, <3>2, <3>3 DEF syscall, wait_host_free, StoreCond, Answered, hiTypes
  <2>6. CASE tohost_exit(c) \/ abort(c)
    <3>1. ThenFits'
      BY <2>6, ExitMoves DEF Moves
    <3>2. hi' \in [Cores -> [at : Places, then : {"run", "abort", "tohost_exit"}, prints : Nat]]
      BY <2>6, ExitMoves DEF Moves
    <3>3. returned' \in [Cores -> SUBSET (0 .. INT - 1)]
      BY <2>6, HostAssumption DEF tohost_exit, SendExitCode, abort, hiTypes
    <3> QED BY <2>6, <3>1, <3>2, <3>3 DEF tohost_exit, SendExitCode, abort, hiTypes
  <2> QED BY <1>3, <2>1, <2>2, <2>3, <2>4, <2>5, <2>6, <2>7 DEF hiStep
<1> QED BY <1>1, <1>2, <1>3 DEF hiNext

\* The three parts of hiLockInv that are not about types.
LockPart == SemaExcludes /\ CallTracked /\ AnswerIsMine

\* The place of a core that neither has nor tries to get the semaphore.
Outside(place, next) ==
  /\ place \notin {"sc", "post", "await", "clear", "release", "exit_post", "stuck"}
  /\ place = "halt" => next # "tohost_exit"

\* A step of a core outside the calls, to another such place, is no concern of theirs.
LEMMA QuietStep ==
  ASSUME LockPart, NEW c \in Cores, NEW place, NEW next, sema_resv \subseteq Cores,
         Moves(c, place, next), Outside(hi[c].at, hi[c].then), Outside(place, next),
         UNCHANGED <<tohost, fromhost, host, hostAccessSema, sema_resv>>
  PROVE  LockPart'
<1>1. \A d \in Cores : Holds(d)' => Holds(d)
  BY DEF Holds, At, Moves, Outside
<1>2. ~Holds(c) /\ c \notin sema_resv /\ hi[c].at \notin {"await", "clear", "stuck"}
  BY DEF Holds, At, Outside, LockPart, SemaExcludes
<1>3. \A d \in Cores \ {c} : hi'[d] = hi[d]
  BY DEF Moves
<1>4. ~At(c, "clear")'
  BY DEF At, Outside, Moves
<1>5. SemaExcludes'
  BY <1>1, <1>2, <1>3 DEF LockPart, SemaExcludes, At
<1>6. CallTracked'
  BY <1>2, <1>3, CoreZero DEF LockPart, CallTracked, At, NoReq
<1>7. AnswerIsMine'
  BY <1>3, <1>4 DEF LockPart, AnswerIsMine, At
<1> QED BY <1>5, <1>6, <1>7 DEF LockPart

\* Every step keeps the semaphore exclusive and the answer in place.
LEMMA LockInductive == hiLockInv /\ [hiNext]_hiVars => hiLockInv'
<1> SUFFICES ASSUME hiLockInv, [hiNext]_hiVars PROVE LockPart'
  BY BaseInductive DEF hiLockInv, hiBase, LockPart
<1>0. hiTypes /\ ThenFits /\ LockPart
  BY DEF hiLockInv, LockPart
<1>r. sema_resv \subseteq Cores
  BY <1>0 DEF hiTypes
<1> USE CoreZero, <1>0, <1>r
<1>1. CASE UNCHANGED hiVars
  BY <1>1 DEF hiVars, hiWords, hiBoot, hiHost, hiLock, LockPart, SemaExcludes, CallTracked,
              AnswerIsMine, At, Holds, NoReq
<1>2. CASE hiStart
  BY <1>2 DEF hiStart, hiWords, hiBoot, hiHost, hiLock, LockPart, SemaExcludes, CallTracked,
              AnswerIsMine, At, Holds, NoReq
<1>3. CASE HostPolls
  BY <1>3 DEF HostPolls, hiWords, hiBoot, hiLock, LockPart, SemaExcludes, CallTracked,
              AnswerIsMine, At, Holds, NoReq
<1>4. CASE HostAnswers
  <2> USE <1>4 DEF HostAnswers, hiWords, hiBoot, hiLock
  <2>1. SemaExcludes'
    BY DEF LockPart, SemaExcludes, At, Holds
  <2>2. CallTracked'
    BY DEF LockPart, CallTracked, At, NoReq
  <2>3. AnswerIsMine'
    BY DEF LockPart, AnswerIsMine, At
  <2> QED BY <2>1, <2>2, <2>3 DEF LockPart
<1>5. ASSUME NEW c \in Cores, hiStep(c) PROVE LockPart'
  <2> USE DEF hiWords, hiBoot, hiHost, hiLock
  <2>1. CASE Boot(c)
    <3>1. UNCHANGED <<tohost, fromhost, host, hostAccessSema, sema_resv>>
      BY <2>1 DEF Boot
    <3> QED BY <2>1, <3>1, BootMoves, QuietStep DEF Outside, At
  <2>2. CASE RollCall(c)
    <3>1. UNCHANGED <<tohost, fromhost, host, hostAccessSema, sema_resv>>
      BY <2>2 DEF RollCall
    <3> QED BY <2>2, <3>1, RollCallMoves, QuietStep DEF Outside, At
  <2>3. CASE Timer(c)
    <3>1. UNCHANGED <<tohost, fromhost, host, hostAccessSema, sema_resv>>
      BY <2>3 DEF Timer
    <3> QED BY <2>3, <3>1, TimerMoves, QuietStep DEF Outside, At
  <2>10. CASE handle_trap(c)
    <3>1. /\ UNCHANGED <<tohost, fromhost, host, hostAccessSema>> /\ sema_resv' = sema_resv \ {c}
          /\ hi[c].then # "abort"
      BY <2>10 DEF handle_trap
    <3>2. CASE Holds(c)
      <4>1. Moves(c, "stuck", "abort")
        BY <2>10, <3>2, TrapMoves
      <4>2. SemaExcludes'
        BY <3>1, <3>2, <4>1 DEF Moves, LockPart, SemaExcludes, At, Holds
      <4>3. CallTracked'
        BY <3>1, <4>1 DEF Moves, LockPart, CallTracked, NoReq
      <4>4. AnswerIsMine'
        BY <3>1, <4>1 DEF Moves, LockPart, AnswerIsMine, At
      <4> QED BY <4>2, <4>3, <4>4 DEF LockPart
    <3>3. CASE ~Holds(c)
      <4>1. Moves(c, "lock", "abort")
        BY <2>10, <3>3, TrapMoves
      <4>2. SemaExcludes'
        BY <3>1, <3>3, <4>1 DEF Moves, LockPart, SemaExcludes, At, Holds
      <4>3. CallTracked'
        BY <3>1, <3>3, <4>1 DEF Moves, LockPart, CallTracked, NoReq, Holds
      <4>4. AnswerIsMine'
        BY <3>1, <4>1 DEF Moves, LockPart, AnswerIsMine, At
      <4> QED BY <4>2, <4>3, <4>4 DEF LockPart
    <3> QED BY <3>2, <3>3
  <2>4. CASE Program(c)
    <3>1. UNCHANGED <<tohost, fromhost, host, hostAccessSema, sema_resv>>
      BY <2>4 DEF Program
    <3> QED BY <2>4, <3>1, ProgramMoves, QuietStep DEF Outside, At
  <2>5. CASE wait_host_free(c)
    <3>0. At(c, "lock") \/ At(c, "sc")
      BY <2>5 DEF wait_host_free, StoreCond
    <3>1. CASE At(c, "lock")
      <4>1. Moves(c, "sc", hi[c].then)
        BY <2>5, <3>1, GotoMoves DEF wait_host_free, StoreCond, At, Places
      <4>2. /\ UNCHANGED <<tohost, fromhost, host, hostAccessSema>>
            /\ hostAccessSema = 0 /\ sema_resv' = sema_resv \cup {c}
        BY <2>5, <3>1 DEF wait_host_free, StoreCond, At
      <4>3. SemaExcludes'
        BY <3>1, <4>1, <4>2 DEF Moves, LockPart, SemaExcludes, At, Holds
      <4>4. CallTracked' /\ AnswerIsMine'
        BY <3>1, <4>1, <4>2 DEF Moves, LockPart, CallTracked, AnswerIsMine, At, NoReq
      <4> QED BY <4>3, <4>4 DEF LockPart
    <3>2. CASE At(c, "sc") /\ c \in sema_resv
      <4>1. \E place \in {"post", "exit_post"} : Moves(c, place, hi[c].then)
        BY <2>5, <3>2, GotoMoves DEF wait_host_free, StoreCond, At, Places
      <4>2. UNCHANGED <<tohost, fromhost, host>> /\ hostAccessSema' = 1 /\ sema_resv' = {}
        BY <2>5, <3>2 DEF wait_host_free, StoreCond, At
      <4>3. \A d \in Cores : ~Holds(d)
        BY <3>2 DEF LockPart, SemaExcludes
      <4>4. SemaExcludes'
        BY <4>1, <4>2, <4>3 DEF Moves, SemaExcludes, At, Holds
      <4>5. CallTracked' /\ AnswerIsMine'
        BY <3>2, <4>1, <4>2 DEF Moves, LockPart, CallTracked, AnswerIsMine, At, NoReq
      <4> QED BY <4>4, <4>5 DEF LockPart
    <3>3. CASE At(c, "sc") /\ c \notin sema_resv
      <4>1. Moves(c, "lock", hi[c].then)
        BY <2>5, <3>3, GotoMoves DEF wait_host_free, StoreCond, At, Places
      <4>2. UNCHANGED <<tohost, fromhost, host, hostAccessSema, sema_resv>>
        BY <2>5, <3>3 DEF wait_host_free, StoreCond, At
      <4>3. SemaExcludes'
        BY <3>3, <4>1, <4>2 DEF Moves, LockPart, SemaExcludes, At, Holds
      <4>4. CallTracked' /\ AnswerIsMine'
        BY <3>3, <4>1, <4>2, Zenon DEF Moves, LockPart, CallTracked, AnswerIsMine, At, NoReq
      <4> QED BY <4>3, <4>4 DEF LockPart
    <3> QED BY <3>0, <3>1, <3>2, <3>3
  <2>9. CASE hi[c].at \in {"post", "await", "clear", "release"} /\ syscall(c)
    <3>0. Holds(c) /\ \A d \in Cores \ {c} : ~Holds(d)
      BY <2>9 DEF LockPart, SemaExcludes, Holds
    <3>a. \A d \in Cores \ {c} : hi[d].at \notin {"await", "clear", "stuck"}
      BY <3>0 DEF Holds, At
    <3>b. sema_resv = {} /\ hostAccessSema = 1
      BY <3>0 DEF LockPart, SemaExcludes
    <3>1. CASE At(c, "post")
      <4>1. Moves(c, "await", hi[c].then)
        BY <2>9, <3>1, CallStepMoves DEF At
      <4>2. /\ tohost' = [kind |-> "call", from |-> c, bits |-> {}]
            /\ UNCHANGED <<fromhost, host, hostAccessSema, sema_resv>>
        BY <2>9, <3>1 DEF syscall, wait_host_free, StoreCond, Answered, At
      <4>3. fromhost = NHARTS /\ host = NoReq
        BY <3>1, <3>a DEF LockPart, CallTracked, At
      <4>4. SemaExcludes'
        BY <3>0, <3>b, <4>1, <4>2 DEF Moves, SemaExcludes, At, Holds
      <4>5. CallTracked'
        BY <4>1, <4>2, <4>3 DEF Moves, CallTracked, At, NoReq
      <4>6. AnswerIsMine'
        BY <3>a, <4>1 DEF Moves, AnswerIsMine, At
      <4> QED BY <4>4, <4>5, <4>6 DEF LockPart
    <3>2. CASE At(c, "await")
      <4>1. Moves(c, "clear", hi[c].then)
        BY <2>9, <3>2, CallStepMoves DEF At
      <4>2. fromhost # NHARTS /\ UNCHANGED <<tohost, fromhost, host, hostAccessSema, sema_resv>>
        BY <2>9, <3>2 DEF syscall, wait_host_free, StoreCond, Answered, At
      <4>3. fromhost = c
        BY <3>a, <4>2 DEF LockPart, CallTracked
      <4>4. SemaExcludes'
        BY <3>0, <3>b, <4>1, <4>2 DEF Moves, SemaExcludes, At, Holds
      <4>5. CallTracked'
        BY <4>1, <4>2, <4>3 DEF Moves, LockPart, CallTracked, At, NoReq
      <4>6. AnswerIsMine'
        BY <3>a, <4>1, <4>2, <4>3 DEF Moves, AnswerIsMine, At
      <4> QED BY <4>4, <4>5, <4>6 DEF LockPart
    <3>3. CASE At(c, "clear")
      <4>1. Moves(c, "release", hi[c].then)
        BY <2>9, <3>3, CallStepMoves DEF At
      <4>2. fromhost' = NHARTS /\ UNCHANGED <<tohost, host, hostAccessSema, sema_resv>>
        BY <2>9, <3>3 DEF syscall, wait_host_free, StoreCond, Answered, At
      <4>4. SemaExcludes'
        BY <3>0, <3>b, <4>1, <4>2, SMTT(60) DEF Moves, SemaExcludes, At, Holds
      <4>5. CallTracked'
        BY <3>3, <4>1, <4>2 DEF Moves, LockPart, CallTracked, At, NoReq
      <4>6. AnswerIsMine'
        BY <3>a, <4>1 DEF Moves, AnswerIsMine, At
      <4> QED BY <4>4, <4>5, <4>6 DEF LockPart
    <3>4. CASE At(c, "release")
      <4>0. hi[c].then \in {"run", "abort"}
        BY <3>4, SMTT(60) DEF ThenFits, hiTypes, At
      <4>1. Moves(c, hi[c].then, hi[c].then)
        BY <2>9, <3>4, <4>0, CallStepMoves, GotoMoves DEF At, Places
      <4>2. /\ hostAccessSema' = 0 /\ sema_resv' = {}
            /\ UNCHANGED <<tohost, fromhost, host>>
        BY <2>9, <3>4 DEF syscall, wait_host_free, StoreCond, Answered, At
      <4>4. SemaExcludes'
        BY <3>0, <4>0, <4>1, <4>2, SMTT(60) DEF Moves, SemaExcludes, At, Holds
      <4>5. CallTracked'
        BY <3>4, <3>a, <4>1, <4>2 DEF Moves, LockPart, CallTracked, At, NoReq
      <4>6. AnswerIsMine'
        BY <3>a, <4>0, <4>1 DEF Moves, AnswerIsMine, At
      <4> QED BY <4>4, <4>5, <4>6 DEF LockPart
    <3> QED BY <2>9, <3>1, <3>2, <3>3, <3>4 DEF At
  <2>6. CASE tohost_exit(c) /\ ~At(c, "exit_post")
    <3>1. UNCHANGED <<tohost, fromhost, host, hostAccessSema, sema_resv>>
      BY <2>6 DEF tohost_exit, SendExitCode
    <3>2. hi[c].at \in {"exit", "inactive"} => hi[c].then # "tohost_exit"
      BY DEF ThenFits
    <3>3. ~At(c, "abort")
      BY <2>6 DEF tohost_exit, SendExitCode, At
    <3> QED BY <2>6, <3>1, <3>2, <3>3, ExitMoves, QuietStep DEF Outside, At
  <2>7. CASE tohost_exit(c) /\ At(c, "exit_post")
    <3>1. Moves(c, "halt", hi[c].then) /\ Holds(c)
      BY <2>7, ExitMoves DEF At, Holds
    <3>2. tohost'.kind = "exit" /\ UNCHANGED <<fromhost, host, hostAccessSema, sema_resv>>
      BY <2>7 DEF tohost_exit, SendExitCode, At
    <3>3. SemaExcludes'
      BY <3>1, <3>2, SMTT(60) DEF Moves, LockPart, SemaExcludes, At, Holds
    <3>4. CallTracked' /\ AnswerIsMine'
      BY <2>7, <3>1, <3>2 DEF Moves, LockPart, CallTracked, AnswerIsMine, At, NoReq
    <3> QED BY <3>3, <3>4 DEF LockPart
  <2>8. CASE abort(c)
    <3>1. Moves(c, "halt", hi[c].then) /\ hi[c].then = "abort" /\ At(c, "abort")
      BY <2>8, ExitMoves DEF At, abort, ThenFits
    <3>2. tohost'.kind = "abort" /\ UNCHANGED <<fromhost, host, hostAccessSema, sema_resv>>
      BY <2>8 DEF abort
    <3>3. SemaExcludes'
      BY <3>1, <3>2 DEF Moves, LockPart, SemaExcludes, At, Holds
    <3>4. CallTracked' /\ AnswerIsMine'
      BY <3>1, <3>2 DEF Moves, LockPart, CallTracked, AnswerIsMine, At, NoReq
    <3> QED BY <3>3, <3>4 DEF LockPart
  <2> QED BY <1>5, <2>1, <2>2, <2>3, <2>4, <2>5, <2>6, <2>7, <2>8, <2>9, <2>10
          DEF hiStep, syscall, Answered, At
<1> QED BY <1>1, <1>2, <1>3, <1>4, <1>5 DEF hiNext

\* The initial state.
LEMMA HostStarts == hiInit => hiLockInv
<1> SUFFICES ASSUME hiInit PROVE hiLockInv
  OBVIOUS
<1>1. hiTypes
  BY CoreZero, Zenon DEF hiInit, hiTypes, Places
<1>2. \A c \in Cores : hi[c].at = "boot" /\ hi[c].then = "run"
  BY DEF hiInit
<1> QED BY <1>1, <1>2, CoreZero
   DEF hiInit, hiLockInv, ThenFits, SemaExcludes, CallTracked, AnswerIsMine, Holds, At, NoReq

\* The semaphore of wait_host_free keeps the calls of any number of cores apart: what a core
\* finds in fromhost answers its own call, even when another core aborts.
THEOREM AnswersNeverMix == hiSpec => []AnswerIsMine
<1>1. hiLockInv => AnswerIsMine
  BY DEF hiLockInv
<1> QED BY <1>1, HostStarts, LockInductive, PTL DEF hiSpec
-----------------------------------------------------------------------------
(* The exit code *)

\* Every step keeps what is known of the harts that have started.
LEMMA StartedInductive == hiBase /\ Started /\ [hiNext]_hiVars => Started'
<1> SUFFICES ASSUME hiBase, Started, [hiNext]_hiVars PROVE Started'
  OBVIOUS
<1>0. hiTypes /\ ThenFits /\ hart_running_signals \subseteq Cores
  BY DEF hiBase, hiTypes
<1> USE CoreZero, <1>0 DEF Started
<1>1. CASE UNCHANGED hiVars
  BY <1>1 DEF hiVars, hiBoot
<1>2. CASE hiStart \/ HostPolls \/ HostAnswers
  <2>1. UNCHANGED <<hi, hart_running_signals, init_done>>
    BY <1>2, Zenon DEF hiStart, HostPolls, HostAnswers, hiBoot
  <2> QED BY <2>1
<1>3. ASSUME NEW c \in Cores, hiStep(c) PROVE Started'
  <2> USE DEF hiBoot, hiHost
  <2>1. CASE Boot(c)
    <3>1. CASE At(c, "boot")
      <4>1. Moves(c, "report", hi[c].then)
        BY <2>1, <3>1, BootMoves DEF At
      <4>2. UNCHANGED <<hart_running_signals, init_done>>
        BY <2>1, <3>1 DEF Boot, At
      <4> QED BY <3>1, <4>1, <4>2 DEF Moves, At
    <3>2. CASE At(c, "report")
      <4>1. \E place \in {"roll_call", "wait_init"} : Moves(c, place, hi[c].then)
        BY <2>1, <3>2, BootMoves DEF At
      <4>2. hart_running_signals' = hart_running_signals \cup {c} /\ UNCHANGED init_done
        BY <2>1, <3>2 DEF Boot, At
      <4> QED BY <3>2, <4>1, <4>2 DEF Moves, At
    <3> QED BY <2>1, <3>1, <3>2 DEF Boot
  <2>2. CASE RollCall(c)
    <3>1. UNCHANGED hart_running_signals /\ (init_done => init_done')
          /\ (init_done' => hart_running_signals = Cores)
      BY <2>2 DEF RollCall
    <3> QED BY <2>2, <3>1, RollCallMoves DEF Moves, At
  <2>3. CASE Timer(c)
    <3>1. UNCHANGED <<hart_running_signals, init_done>>
      BY <2>3 DEF Timer
    <3>2. At(c, "timer") => hi[c].then # "abort"
      BY DEF ThenFits, At
    <3> QED BY <2>3, <3>1, <3>2, TimerMoves DEF Moves, At
  <2>7. CASE handle_trap(c)
    <3>1. UNCHANGED <<hart_running_signals, init_done>> /\ hi[c].at \notin {"boot", "report"}
      BY <2>7 DEF handle_trap
    <3> QED BY <2>7, <3>1, TrapMoves DEF Moves
  <2>4. CASE Program(c)
    <3>1. UNCHANGED <<hart_running_signals, init_done>>
      BY <2>4 DEF Program
    <3>2. At(c, "run") => hi[c].then # "abort"
      BY ZenonT(60) DEF ThenFits, At
    <3> QED BY <2>4, <3>1, <3>2, ProgramMoves DEF Moves, At
  <2>5. CASE syscall(c)
    <3>1. UNCHANGED <<hart_running_signals, init_done>>
      BY <2>5 DEF syscall, wait_host_free, StoreCond, Answered
    <3>2. At(c, "release") /\ hiGoto(c, hi[c].then) => Moves(c, hi[c].then, hi[c].then)
      BY GotoMoves DEF hiTypes, Places, ThenFits, At
    <3>3. At(c, "release") => hi[c].then \in {"run", "abort"}
      BY SMTT(60) DEF hiTypes, ThenFits, At
    <3> QED BY <2>5, <3>1, <3>2, <3>3, CallStepMoves DEF Moves, At
  <2>6. CASE tohost_exit(c) \/ abort(c)
    <3>1. UNCHANGED <<hart_running_signals, init_done>>
      BY <2>6 DEF tohost_exit, SendExitCode, abort
    <3>2. At(c, "drain") => hi[c].then # "abort"
      BY DEF ThenFits, At
    <3> QED BY <2>6, <3>1, <3>2, ExitMoves DEF Moves, At
  <2> QED BY <1>3, <2>1, <2>2, <2>3, <2>4, <2>5, <2>6, <2>7, Zenon DEF hiStep
<1> QED BY <1>1, <1>2, <1>3 DEF hiNext

\* The part of hiExitInv about the exit code.
ExitPart == ExitTracked /\ ExitFinal(tohost) /\ ExitFinal(verdict)

\* A step that writes none of the words: what it must respect.
LEMMA QuietExit ==
  ASSUME ExitPart, NEW c \in Cores, NEW place, NEW next, Moves(c, place, next),
         At(c, "boot") <=> place = "boot",
         c \in exited => place \in {"drain", "halt"} \/ next \in {"abort", "tohost_exit"},
         returned[c] = {} \/ c \in exited \/ place = "inactive" \/ next = "abort",
         next = "tohost_exit" /\ c = 0 => exited = Cores,
         tohost' = tohost \/ tohost'.kind # "exit" \/ ExitFinal(tohost'),
         UNCHANGED <<rowActive, rowFail, exited, returned, verdict>>
  PROVE  ExitPart'
<1>1. /\ \A d \in Cores \ {c} : hi'[d] = hi[d]
      /\ hi'[c].at = place /\ hi'[c].then = next
  BY DEF Moves
<1>2. AllReturned' = AllReturned
  BY DEF AllReturned
<1>3. rowActive' = {d \in Cores : ~At(d, "boot") /\ d \notin exited}'
  BY <1>1 DEF ExitPart, ExitTracked, At
<1>4. \A d \in Cores : d \in exited' =>
        hi'[d].at \in {"drain", "halt"} \/ hi'[d].then \in {"abort", "tohost_exit"}
  BY <1>1 DEF ExitPart, ExitTracked
<1>5. \A d \in Cores : returned'[d] = {} \/ d \in exited' \/ At(d, "inactive")'
                       \/ hi'[d].then = "abort"
  BY <1>1 DEF ExitPart, ExitTracked, At
<1>6. hi'[0].then = "tohost_exit" => exited' = Cores
  BY <1>1, CoreZero DEF ExitPart, ExitTracked
<1>7. ExitTracked'
  BY <1>2, <1>3, <1>4, <1>5, <1>6, Zenon DEF ExitPart, ExitTracked
<1>8. ExitFinal(tohost)' /\ ExitFinal(verdict)'
  BY <1>2 DEF ExitPart, ExitFinal
<1> QED BY <1>7, <1>8 DEF ExitPart

\* A core in its program, or before it, has not been through tohost_exit.
LEMMA Untouched ==
  ASSUME ExitPart, NEW c \in Cores, hi[c].then = "run",
         hi[c].at \notin {"inactive", "drain", "halt"}
  PROVE  c \notin exited /\ returned[c] = {}
BY DEF ExitPart, ExitTracked, At

\* With fewer harts than bits in an int, a hart clears its own bit only.
LEMMA MaskIsOneBit == ASSUME NHARTS < INT, NEW c \in Cores PROVE Cleared(c) = {c}
<1>1. c \in Nat /\ INT \in Nat \ {0} /\ c < INT - 1
  BY HostAssumption DEF Cores
<1>2. c % INT = c
  BY <1>1
<1> QED BY <1>1, <1>2 DEF Cleared

\* A hart that starts sets its bit.
LEMMA StartKeeps ==
  ASSUME hiTypes, ThenFits, ExitPart, NEW c \in Cores, Boot(c), At(c, "boot")
  PROVE  ExitPart'
<1>1. Moves(c, "report", hi[c].then) /\ hi[c].then = "run"
  BY BootMoves DEF At, ThenFits, hiTypes
<1>2. /\ rowActive' = rowActive \cup {c}
      /\ UNCHANGED <<rowFail, exited, returned, tohost, verdict>>
  BY SMTT(60) DEF Boot, At, hiHost
<1>3. c \notin exited /\ returned[c] = {}
  BY <1>1, Untouched DEF At
<1>4. \A d \in Cores : /\ d # c => hi'[d] = hi[d]
                       /\ hi'[d].then = hi[d].then
  BY <1>1 DEF Moves
<1>5. rowActive' = {d \in Cores : ~At(d, "boot") /\ d \notin exited}'
  BY <1>1, <1>2, <1>3, <1>4 DEF ExitPart, ExitTracked, At, Moves
<1>6. \A d \in Cores : d \in exited' =>
        hi'[d].at \in {"drain", "halt"} \/ hi'[d].then \in {"abort", "tohost_exit"}
  BY <1>2, <1>3, <1>4 DEF ExitPart, ExitTracked
<1>7. \A d \in Cores : returned'[d] = {} \/ d \in exited' \/ At(d, "inactive")'
                       \/ hi'[d].then = "abort"
  BY <1>2, <1>3, <1>4 DEF ExitPart, ExitTracked, At
<1>8. AllReturned' = AllReturned
  BY <1>2 DEF AllReturned
<1>9. hi'[0].then = "tohost_exit" => exited' = Cores
  BY <1>2, <1>4, CoreZero DEF ExitPart, ExitTracked
<1> QED BY <1>2, <1>5, <1>6, <1>7, <1>8, <1>9, Zenon DEF ExitPart, ExitTracked, ExitFinal

\* amoor of rowFail: the word has what all have returned.
LEMMA ReturnKeeps ==
  ASSUME hiTypes, ThenFits, ExitPart, NEW c \in Cores, tohost_exit(c), At(c, "exit")
  PROVE  ExitPart'
<1>1. Moves(c, "inactive", hi[c].then) /\ hi[c].then = "run"
  BY ExitMoves DEF At, ThenFits, hiTypes
<1>2. PICK code \in Codes : /\ rowFail' = rowFail \cup Shifted(c, code)
                            /\ returned' = [returned EXCEPT ![c] = code]
  BY DEF tohost_exit, SendExitCode, At
<1>3. UNCHANGED <<rowActive, exited, tohost, verdict>>
  BY DEF tohost_exit, SendExitCode, At, hiHost
<1>4. c \notin exited /\ returned[c] = {}
  BY <1>1, Untouched DEF At
<1>5. \A d \in Cores : /\ d # c => hi'[d] = hi[d] /\ returned'[d] = returned[d]
                       /\ hi'[d].then = hi[d].then
  BY <1>1, <1>2 DEF Moves, hiTypes
<1>6. returned'[c] = code
  BY <1>2 DEF hiTypes
<1>7. Shifted(c, {}) = {}
  BY DEF Shifted
<1>8. AllReturned' = AllReturned \cup Shifted(c, code)
  <2>1. \A b : b \in AllReturned' <=> \E d \in Cores : b \in Shifted(d, returned'[d])
    BY DEF AllReturned, Shifted
  <2>2. \A b : b \in AllReturned <=> \E d \in Cores : b \in Shifted(d, returned[d])
    BY DEF AllReturned
  <2>3. \A b : b \in AllReturned' <=> b \in AllReturned \/ b \in Shifted(c, code)
    BY <1>4, <1>5, <1>6, <1>7, <2>1, <2>2, ZenonT(60)
  <2> QED BY <2>3
<1>9. rowFail' = AllReturned'
  BY <1>2, <1>8 DEF ExitPart, ExitTracked
<1>10. rowActive' = {d \in Cores : ~At(d, "boot") /\ d \notin exited}'
  BY <1>1, <1>3, <1>5, SMTT(60) DEF ExitPart, ExitTracked, At, Moves
<1>11. \A d \in Cores : d \in exited' =>
         hi'[d].at \in {"drain", "halt"} \/ hi'[d].then \in {"abort", "tohost_exit"}
  BY <1>3, <1>4, <1>5 DEF ExitPart, ExitTracked
<1>12. \A d \in Cores : returned'[d] = {} \/ d \in exited' \/ At(d, "inactive")'
                        \/ hi'[d].then = "abort"
  BY <1>1, <1>3, <1>5, SMTT(60) DEF ExitPart, ExitTracked, At, Moves
<1>13. exited # Cores /\ hi'[0].then # "tohost_exit"
  BY <1>4, <1>5, CoreZero DEF ExitPart, ExitTracked
<1>14. ExitTracked'
  BY <1>9, <1>10, <1>11, <1>12, <1>13, Zenon DEF ExitTracked
<1>15. tohost.kind # "exit" /\ verdict.kind # "exit"
  BY <1>13 DEF ExitPart, ExitFinal
<1> QED BY <1>3, <1>14, <1>15 DEF ExitPart, ExitFinal

\* amoand of rowActive: a hart that leaves takes its own bit away.
LEMMA LeavesKeep ==
  ASSUME NHARTS < INT, hiTypes, ThenFits, ExitPart, NEW c \in Cores, tohost_exit(c),
         At(c, "inactive")
  PROVE  ExitPart'
<1>1. PICK place \in {"drain", "halt"} : Moves(c, place, hi[c].then)
  BY ExitMoves DEF At
<1>2. hi[c].then = "run"
  BY DEF At, ThenFits, hiTypes
<1>3. /\ rowActive' = rowActive \ {c} /\ exited' = exited \cup {c}
      /\ UNCHANGED <<rowFail, returned, tohost, verdict>>
  BY MaskIsOneBit DEF tohost_exit, SendExitCode, At, hiHost
<1>4. \A d \in Cores : /\ d # c => hi'[d] = hi[d]
                       /\ hi'[d].then = hi[d].then
  BY <1>1 DEF Moves
<1>5. hi'[c].at \in {"drain", "halt"}
  BY <1>1 DEF Moves
<1>6. AllReturned' = AllReturned
  BY <1>3 DEF AllReturned
<1>7. rowActive' = {d \in Cores : ~At(d, "boot") /\ d \notin exited}'
  BY <1>3, <1>4, <1>5 DEF ExitPart, ExitTracked, At
<1>8. \A d \in Cores : d \in exited' =>
        hi'[d].at \in {"drain", "halt"} \/ hi'[d].then \in {"abort", "tohost_exit"}
  BY <1>3, <1>4, <1>5 DEF ExitPart, ExitTracked
<1>9. \A d \in Cores : returned'[d] = {} \/ d \in exited' \/ At(d, "inactive")'
                       \/ hi'[d].then = "abort"
  BY <1>3, <1>4, <1>5 DEF ExitPart, ExitTracked, At
<1>10. hi'[0].then = "tohost_exit" => exited' = Cores
  BY <1>3, <1>4, CoreZero DEF ExitPart, ExitTracked
<1>11. exited = Cores => exited' = Cores
  BY <1>3
<1>12. ExitTracked'
  BY <1>3, <1>6, <1>7, <1>8, <1>9, <1>10, Zenon DEF ExitPart, ExitTracked
<1> QED BY <1>3, <1>6, <1>11, <1>12 DEF ExitPart, ExitFinal

\* Hart 0, when the others have left, goes to send the exit code.
LEMMA DrainKeeps ==
  ASSUME hiTypes, ThenFits, Started, ExitPart, NEW c \in Cores, tohost_exit(c), At(c, "drain")
  PROVE  ExitPart'
<1>1. Moves(c, "lock", "tohost_exit") /\ hi[c].then # "abort"
  BY ExitMoves DEF At, ThenFits
<1>2. rowActive = {} /\ UNCHANGED <<rowActive, rowFail, exited, returned, tohost, verdict>>
  BY DEF tohost_exit, SendExitCode, At, hiWords, hiHost
<1>3. init_done
  BY <1>1 DEF Started, At
<1>4. \A d \in Cores : ~At(d, "boot")
  BY <1>3 DEF Started, At
<1>5. \A d \in Cores : d \in exited
  BY <1>2, <1>4 DEF ExitPart, ExitTracked
<1>6. exited = Cores
  BY <1>5, Zenon DEF hiTypes
<1> QED BY <1>1, <1>2, <1>6, QuietExit DEF At

\* Hart 0 sends the exit code.
LEMMA SendKeeps ==
  ASSUME hiTypes, ThenFits, ExitPart, NEW c \in Cores, tohost_exit(c), At(c, "exit_post")
  PROVE  ExitPart'
<1>1. Moves(c, "halt", "tohost_exit") /\ c = 0 /\ hi[c].then = "tohost_exit"
  BY ExitMoves, Zenon DEF At, ThenFits
<1>2. /\ tohost' = [kind |-> "exit", from |-> c, bits |-> Posted(rowFail)]
      /\ UNCHANGED <<rowActive, rowFail, exited, returned, verdict>>
  BY DEF tohost_exit, SendExitCode, At, hiWords, hiHost
<1>3. exited = Cores /\ rowFail = AllReturned
  BY <1>1 DEF ExitPart, ExitTracked
<1>4. ExitFinal(tohost')
  BY <1>2, <1>3 DEF ExitFinal
<1> QED BY <1>1, <1>2, <1>3, <1>4, QuietExit DEF At

\* Every step keeps the exit behind all harts.
LEMMA ExitInductive ==
  ASSUME NHARTS < INT, hiExitInv, [hiNext]_hiVars
  PROVE  hiExitInv'
<1>0. hiTypes /\ ThenFits /\ Started /\ ExitPart
  BY DEF hiExitInv, ExitPart
<1>a. hiTypes' /\ ThenFits' /\ Started'
  BY <1>0, BaseInductive, StartedInductive DEF hiBase
<1> SUFFICES ExitPart'
  BY <1>a, ZenonT(60) DEF hiExitInv, ExitPart
<1> USE CoreZero, <1>0
<1>1. CASE UNCHANGED hiVars
  BY <1>1 DEF hiVars, hiWords, hiHost, ExitPart, ExitTracked, ExitFinal, AllReturned, At
<1>2. CASE hiStart \/ HostAnswers
  BY <1>2, ZenonT(60) DEF hiStart, HostAnswers, hiWords, ExitPart, ExitTracked, ExitFinal, AllReturned, At
<1>3. CASE HostPolls
  <2>1. UNCHANGED <<hi, rowActive, rowFail, exited, returned>> /\ tohost'.kind # "exit"
    BY <1>3, Zenon DEF HostPolls, hiWords, NoReq
  <2>2. verdict' = verdict \/ verdict' = tohost
    BY <1>3 DEF HostPolls
  <2> QED BY <2>1, <2>2, Zenon DEF ExitPart, ExitTracked, ExitFinal, AllReturned, At
<1>4. ASSUME NEW c \in Cores, hiStep(c) PROVE ExitPart'
  <2> USE DEF hiWords, hiBoot, hiHost
  <2>0. /\ hi[c].then \in {"run", "abort", "tohost_exit"}
        /\ hi[c].then = "tohost_exit" => c \in exited /\ exited = Cores
    BY DEF hiTypes, ThenFits, ExitPart, ExitTracked
  <2>1. CASE Boot(c) /\ At(c, "boot")
    BY <2>1, StartKeeps
  <2>2. CASE Boot(c) /\ ~At(c, "boot")
    <3>1. UNCHANGED <<rowActive, rowFail, exited, returned, verdict, tohost>> /\ hi[c].then = "run"
      BY <2>2, <2>0 DEF Boot, At, ThenFits
    <3> QED BY <2>2, <3>1, BootMoves, Untouched, QuietExit, Zenon DEF At
  <2>3. CASE RollCall(c)
    <3>1. UNCHANGED <<rowActive, rowFail, exited, returned, verdict, tohost>> /\ hi[c].then = "run"
      BY <2>3, <2>0 DEF RollCall, At, ThenFits
    <3> QED BY <2>3, <3>1, RollCallMoves, Untouched, QuietExit, Zenon DEF At
  <2>4. CASE Timer(c)
    <3>1. UNCHANGED <<rowActive, rowFail, exited, returned, verdict, tohost>> /\ hi[c].then = "run"
      BY <2>4, <2>0 DEF Timer, At, ThenFits
    <3> QED BY <2>4, <3>1, TimerMoves, Untouched, QuietExit, Zenon DEF At
  <2>9. CASE handle_trap(c)
    <3>1. UNCHANGED <<rowActive, rowFail, exited, returned, verdict, tohost>> /\ ~At(c, "boot")
      BY <2>9 DEF handle_trap, At
    <3> QED BY <2>9, <3>1, TrapMoves, QuietExit, Zenon
  <2>5. CASE Program(c)
    <3>1. UNCHANGED <<rowActive, rowFail, exited, returned, verdict, tohost>> /\ hi[c].then = "run"
      BY <2>5, <2>0 DEF Program, At, ThenFits
    <3> QED BY <2>5, <3>1, ProgramMoves, Untouched, QuietExit, Zenon DEF At
  <2>6. CASE syscall(c)
    <3>1. /\ UNCHANGED <<rowActive, rowFail, exited, returned, verdict>>
          /\ tohost' = tohost \/ tohost'.kind # "exit"
      BY <2>6 DEF syscall, wait_host_free, StoreCond, Answered
    <3>2. At(c, "release") => hi[c].then \in {"run", "abort"}
      BY <2>0, SMTT(60) DEF ThenFits, At
    <3>3. At(c, "release") /\ hiGoto(c, hi[c].then) => Moves(c, hi[c].then, hi[c].then)
      BY <3>2, GotoMoves DEF Places
    <3>4. PICK place : /\ Moves(c, place, hi[c].then) /\ place # "boot"
                       /\ hi[c].at \notin {"boot", "inactive", "drain", "halt"}
      BY <2>6, <3>2, <3>3, CallStepMoves, ZenonT(60) DEF At
    <3>5. hi[c].then = "run" => c \notin exited /\ returned[c] = {}
      BY <3>4, Untouched
    <3> QED BY <2>0, <3>1, <3>4, <3>5, QuietExit, Zenon DEF At
  <2>7. CASE tohost_exit(c)
    <3>1. At(c, "exit") \/ At(c, "inactive") \/ At(c, "drain") \/ At(c, "exit_post")
      BY <2>7 DEF tohost_exit, SendExitCode
    <3> QED BY <2>7, <3>1, ReturnKeeps, LeavesKeep, DrainKeeps, SendKeeps
  <2>8. CASE abort(c)
    <3>1. Moves(c, "halt", "abort") /\ ~At(c, "boot")
      BY <2>8, ExitMoves, Zenon DEF At, ThenFits, abort
    <3>2. tohost'.kind # "exit" /\ UNCHANGED <<rowActive, rowFail, exited, returned, verdict>>
      BY <2>8 DEF abort
    <3> QED BY <3>1, <3>2, QuietExit, Zenon
  <2> QED BY <1>4, <2>1, <2>2, <2>3, <2>4, <2>5, <2>6, <2>7, <2>8, <2>9 DEF hiStep
<1> QED BY <1>1, <1>2, <1>3, <1>4 DEF hiNext

\* With fewer harts than bits in an int no bit of an exit code is shifted out of the word: the
\* word that is posted is 1 exactly if all codes are 0.
LEMMA FailureShows ==
  ASSUME NHARTS < INT, returned \in [Cores -> SUBSET (0 .. INT - 1)]
  PROVE  Posted(AllReturned) = {0} <=> \A c \in Cores : returned[c] = {}
<1>1. ASSUME \A c \in Cores : returned[c] = {}
      PROVE  Posted(AllReturned) = {0}
  <2>1. \A c \in Cores : Shifted(c, returned[c]) = {}
    BY <1>1 DEF Shifted
  <2>2. AllReturned = {}
    BY <2>1 DEF AllReturned
  <2> QED BY <2>2 DEF Posted
<1>2. ASSUME NEW c \in Cores, returned[c] # {}, Posted(AllReturned) = {0}
      PROVE  FALSE
  <2>1. PICK b \in 0 .. INT - 1 : b \in returned[c]
    BY <1>2
  <2>2. b + c \in 0 .. WORD - 1 /\ b + c + 1 \in 1 .. WORD - 1
    BY <2>1, HostAssumption DEF Cores
  <2>3. b + c \in Shifted(c, returned[c])
    BY <2>1, <2>2 DEF Shifted
  <2>4. b + c \in AllReturned
    BY <2>3, Zenon DEF AllReturned
  <2>5. b + c + 1 \in Posted(AllReturned) /\ b + c + 1 # 0
    BY <2>2, <2>4 DEF Posted
  <2> QED BY <1>2, <2>5
<1> QED BY <1>1, <1>2

\* tohost_exit sends the exit code only when all cores have been through it, and the code is
\* made of what all of them returned, and tells failure from success, if every core has a bit
\* below the sign bit of an int: the mask ~(1<<coreId) then clears the core's own bit and no
\* other, and no code is shifted out of the word.
THEOREM ExitWaits == ASSUME NHARTS < INT PROVE hiSpec => []ExitAfterAll
<1>1. hiInit => hiExitInv
  <2> SUFFICES ASSUME hiInit PROVE hiExitInv
    OBVIOUS
  <2>1. hiTypes /\ ThenFits
    BY HostStarts DEF hiLockInv
  <2>2. \A c \in Cores : hi[c].at = "boot" /\ hi[c].then = "run" /\ returned[c] = {}
    BY DEF hiInit
  <2>3. AllReturned = {}
    BY <2>2 DEF AllReturned, Shifted
  <2> QED BY <2>1, <2>2, <2>3, CoreZero
    DEF hiInit, hiExitInv, Started, ExitTracked, ExitFinal, At, NoReq
<1>2. hiExitInv /\ [hiNext]_hiVars => hiExitInv'
  BY ExitInductive
<1>3. hiExitInv => ExitAfterAll
  BY FailureShows DEF hiExitInv, hiTypes, ExitFinal, ExitAfterAll
<1> QED BY <1>1, <1>2, <1>3, PTL DEF hiSpec

-----------------------------------------------------------------------------
(***************************************************************************)
(* Proofs about the commit-log filter comlog.cc, for any number of         *)
(* destinations and lines.                                                 *)
(***************************************************************************)

\* One sequence after another.
LEMMA Concat ==
  ASSUME NEW S, NEW a \in Seq(S), NEW b \in Seq(S)
  PROVE  /\ a \o b \in Seq(S) /\ Len(a \o b) = Len(a) + Len(b)
         /\ \A i \in 1 .. Len(a) + Len(b) :
              (a \o b)[i] = IF i <= Len(a) THEN a[i] ELSE b[i - Len(a)]
<1>1. a \o b \in Seq(S) /\ Len(a \o b) = Len(a) + Len(b)
  OBVIOUS
<1>2. ASSUME NEW i \in 1 .. Len(a) + Len(b)
      PROVE  (a \o b)[i] = IF i <= Len(a) THEN a[i] ELSE b[i - Len(a)]
  OBVIOUS
<1> QED
  BY <1>1, <1>2, Zenon

\* commit: what is written and what stays are together still the program in order.
LEMMA CommitKeeps ==
  ASSUME NEW q \in Seq(LogEntries), NEW n \in Nat, NEW pend \in [Pdsts -> Nat],
         cout \in Seq(LogEntries), Consistent(q, cout, pend, n), Commit(q)
  PROVE  /\ rob' \in Seq(LogEntries) /\ cout' \in Seq(LogEntries)
         /\ Consistent(rob', cout', pend, n)
         /\ rob' # <<>> => ~rob'[1].ready
<1>0. Len(q) \in Nat /\ Len(cout) \in Nat
  OBVIOUS
<1>a. PICK k \in 0 .. Len(q) :
        ReadyHead(q, k) /\ rob' = SubSeq(q, k + 1, Len(q)) /\ cout' = cout \o SubSeq(q, 1, k)
  BY SMTT(60) DEF Commit
<1> DEFINE left == SubSeq(q, k + 1, Len(q))
           done == SubSeq(q, 1, k)
           out == cout \o done
<1>1. /\ k \in 0 .. Len(q)
      /\ \A i \in 1 .. k : q[i].ready
      /\ k < Len(q) => ~q[k + 1].ready
  BY <1>a DEF ReadyHead
<1>2. rob' = left /\ cout' = out
  BY <1>a
<1>3. \A i \in 1 .. Len(q) : q[i] \in LogEntries
  OBVIOUS
<1>4. /\ left \in Seq(LogEntries) /\ Len(left) = Len(q) - k
      /\ \A i \in 1 .. Len(q) - k : left[i] = q[k + i]
  BY <1>0, <1>1, SMTT(60)
<1>5. /\ done \in Seq(LogEntries) /\ Len(done) = k
      /\ \A i \in 1 .. k : done[i] = q[i]
  BY <1>0, <1>1
<1> HIDE DEF left, done
<1>6. /\ out \in Seq(LogEntries) /\ Len(out) = Len(cout) + k
      /\ \A i \in 1 .. Len(cout) : out[i] = cout[i]
      /\ \A i \in Len(cout) + 1 .. Len(cout) + k : out[i] = q[i - Len(cout)]
  <2>1. /\ out \in Seq(LogEntries) /\ Len(out) = Len(cout) + Len(done)
        /\ \A i \in 1 .. Len(cout) + Len(done) :
             out[i] = IF i <= Len(cout) THEN cout[i] ELSE done[i - Len(cout)]
    BY <1>5, Concat, Zenon
  <2> HIDE DEF out
  <2>2. ASSUME NEW i \in 1 .. Len(cout) PROVE out[i] = cout[i]
    <3>1. i \in 1 .. Len(cout) + Len(done) /\ i <= Len(cout)
      BY <1>0, <1>1, <1>5
    <3> QED
      BY <2>1, <3>1, Zenon
  <2>3. ASSUME NEW i \in Len(cout) + 1 .. Len(cout) + k PROVE out[i] = q[i - Len(cout)]
    <3>1. /\ i \in 1 .. Len(cout) + Len(done) /\ ~(i <= Len(cout))
          /\ i - Len(cout) \in 1 .. k
      BY <1>0, <1>1, <1>5, SMTT(60)
    <3> QED
      BY <1>5, <2>1, <3>1, Zenon
  <2> QED
    BY <1>5, <2>1, <2>2, <2>3, Zenon
<1> HIDE DEF out
<1>7. n = Len(cout) + Len(q)
  BY DEF Consistent
<1>8. n = Len(out) + Len(left)
  BY <1>0, <1>1, <1>4, <1>6, <1>7, SMTT(60)
<1>9. \A i \in 1 .. Len(out) : out[i].id = i /\ out[i].result = i
  <2> SUFFICES ASSUME NEW i \in 1 .. Len(out) PROVE out[i].id = i /\ out[i].result = i
    OBVIOUS
  <2>1. CASE i <= Len(cout)
    <3>1. i \in 1 .. Len(cout)
      BY <1>0, <1>6, <2>1
    <3>2. out[i] = cout[i]
      BY <1>6, <3>1, Zenon
    <3> QED
      BY <3>1, <3>2, Zenon DEF Consistent
  <2>2. CASE i > Len(cout)
    <3>1. i \in Len(cout) + 1 .. Len(cout) + k /\ i - Len(cout) \in 1 .. k
      BY <1>0, <1>1, <1>6, <2>2
    <3>2. i - Len(cout) \in 1 .. Len(q) /\ Len(cout) + (i - Len(cout)) = i
      BY <1>0, <1>1, <3>1
    <3>3. out[i] = q[i - Len(cout)] /\ q[i - Len(cout)].ready
      BY <1>1, <1>6, <3>1, SMTT(60)
    <3> QED
      BY <3>2, <3>3, SMTT(60) DEF Consistent
  <2> QED
    BY <1>0, <1>1, <1>6, <2>1, <2>2
<1>10. ASSUME NEW i \in 1 .. Len(left)
       PROVE  /\ left[i] = q[k + i] /\ k + i \in 1 .. Len(q)
              /\ left[i].id = Len(out) + i
              /\ left[i].ready => left[i].result = left[i].id
              /\ ~left[i].ready => \E p \in Pdsts : pend[p] = left[i].id
  <2>1. left[i] = q[k + i] /\ k + i \in 1 .. Len(q) /\ Len(cout) + (k + i) = Len(out) + i
    BY <1>0, <1>1, <1>4, <1>6, SMTT(60)
  <2> QED
    BY <2>1, SMTT(60) DEF Consistent
<1>11. ASSUME NEW p \in Pdsts, pend[p] # 0
       PROVE  pend[p] \in Len(out) + 1 .. n /\ ~left[pend[p] - Len(out)].ready
  <2>1. pend[p] \in Len(cout) + 1 .. n /\ ~q[pend[p] - Len(cout)].ready
    BY <1>11 DEF Consistent
  <2>2. pend[p] - Len(cout) \notin 1 .. k
    BY <1>1, <2>1, SMTT(60)
  <2>3. pend[p] \in Len(out) + 1 .. n
    BY <1>0, <1>1, <1>6, <2>1, <2>2, SMTT(60)
  <2>4. /\ pend[p] - Len(out) \in 1 .. Len(left)
        /\ k + (pend[p] - Len(out)) = pend[p] - Len(cout)
    BY <1>0, <1>1, <1>4, <1>6, <1>7, <2>3, SMTT(60)
  <2>5. left[pend[p] - Len(out)] = q[pend[p] - Len(cout)]
    BY <1>4, <2>4, SMTT(60)
  <2> QED
    BY <2>1, <2>3, <2>5, SMTT(60)
<1>12. \A p, r \in Pdsts : pend[p] = pend[r] /\ pend[p] # 0 => p = r
  BY DEF Consistent
<1>13. Consistent(left, out, pend, n)
  BY <1>8, <1>9, <1>10, <1>11, <1>12 DEF Consistent
<1>14. left # <<>> => ~left[1].ready
  <2> SUFFICES ASSUME left # <<>> PROVE ~left[1].ready
    OBVIOUS
  <2>1. Len(left) > 0
    BY <1>4
  <2>2. k < Len(q) /\ 1 \in 1 .. Len(q) - k
    BY <1>0, <1>1, <1>4, <2>1
  <2> QED
    BY <1>1, <1>4, <2>2
<1> QED
  BY <1>2, <1>4, <1>6, <1>13, <1>14

\* The empty queue.
LEMMA LogStarts == clInit => clInv
BY DEF clInit, clInv, Consistent

\* A complete line at the end of the queue.
LEMMA PushKeeps == ASSUME clInv, Push(cl_issued + 1), cl_issued' = cl_issued + 1 PROVE clInv'
<1> DEFINE e == [id |-> cl_issued + 1, ready |-> TRUE, result |-> cl_issued + 1]
           q == Append(rob, e)
<1>0. cl_issued \in Nat /\ Len(rob) \in Nat /\ Len(cout) \in Nat
  BY DEF clInv
<1>1. e \in LogEntries /\ e.id = cl_issued + 1 /\ e.ready /\ e.result = cl_issued + 1
  BY <1>0 DEF LogEntries
<1>2. Commit(q) /\ UNCHANGED <<pdst_to_rob, cl_pending, cl_assert>>
  BY SMTT(60) DEF Push
<1> HIDE DEF e
<1>3. /\ q \in Seq(LogEntries) /\ Len(q) = Len(rob) + 1 /\ q[Len(rob) + 1] = e
      /\ \A i \in 1 .. Len(rob) : q[i] = rob[i]
  BY <1>1 DEF clInv
<1> HIDE DEF q
<1>4. Consistent(rob, cout, cl_pending, cl_issued)
  BY DEF clInv
<1>5. cl_issued + 1 = Len(cout) + Len(q) /\ cl_issued = Len(cout) + Len(rob)
  BY <1>0, <1>3, <1>4, SMTT(60) DEF Consistent
<1>6. ASSUME NEW i \in 1 .. Len(q)
      PROVE  /\ q[i].id = Len(cout) + i
             /\ q[i].ready => q[i].result = q[i].id
             /\ ~q[i].ready => \E p \in Pdsts : cl_pending[p] = q[i].id
  <2>1. CASE i \in 1 .. Len(rob)
    BY <1>3, <1>4, <2>1 DEF Consistent
  <2>2. CASE i = Len(rob) + 1
    BY <1>0, <1>1, <1>3, <1>5, <2>2
  <2> QED
    BY <1>0, <1>3, <2>1, <2>2
<1>7. ASSUME NEW p \in Pdsts, cl_pending[p] # 0
      PROVE  cl_pending[p] \in Len(cout) + 1 .. cl_issued + 1 /\ ~q[cl_pending[p] - Len(cout)].ready
  <2>1. cl_pending[p] \in Len(cout) + 1 .. cl_issued /\ ~rob[cl_pending[p] - Len(cout)].ready
    BY <1>4, <1>7 DEF Consistent
  <2>2. cl_pending[p] - Len(cout) \in 1 .. Len(rob)
    BY <1>0, <1>5, <2>1, SMTT(60)
  <2> QED
    BY <1>0, <1>3, <2>1, <2>2
<1>8. Consistent(q, cout, cl_pending, cl_issued + 1)
  BY <1>4, <1>5, <1>6, <1>7, SMTT(60) DEF Consistent
<1>9. /\ rob' \in Seq(LogEntries) /\ cout' \in Seq(LogEntries)
      /\ Consistent(rob', cout', cl_pending, cl_issued + 1)
      /\ rob' # <<>> => ~rob'[1].ready
  <2>1. cout \in Seq(LogEntries) /\ cl_pending \in [Pdsts -> Nat] /\ cl_issued + 1 \in Nat
    BY <1>0 DEF clInv
  <2> QED
    BY <1>2, <1>3, <1>8, <2>1, CommitKeeps
<1> QED
  BY <1>0, <1>2, <1>9 DEF clInv

\* A partial line at the end of the queue, and its destination waits.
LEMMA PushPartialKeeps ==
  ASSUME clInv, NEW p \in Pdsts, PushPartial(cl_issued + 1, p), cl_issued' = cl_issued + 1
  PROVE  clInv'
<1> DEFINE e == [id |-> cl_issued + 1, ready |-> FALSE, result |-> 0]
           q == Append(rob, e)
           pend == [cl_pending EXCEPT ![p] = cl_issued + 1]
<1>0. cl_issued \in Nat /\ Len(rob) \in Nat /\ Len(cout) \in Nat
  BY DEF clInv
<1>1. e \in LogEntries /\ e.id = cl_issued + 1 /\ ~e.ready
  BY <1>0 DEF LogEntries
<1>2. /\ Commit(q) /\ cl_pending' = pend /\ pdst_to_rob' = pend /\ cl_pending[p] = 0
      /\ ~cl_assert'
  BY Zenon DEF PushPartial, clInv
<1>3. /\ pend \in [Pdsts -> Nat] /\ pend[p] = cl_issued + 1
      /\ \A r \in Pdsts : r # p => pend[r] = cl_pending[r]
  BY <1>0 DEF clInv
<1> HIDE DEF e, pend
<1>4. /\ q \in Seq(LogEntries) /\ Len(q) = Len(rob) + 1 /\ q[Len(rob) + 1] = e
      /\ \A i \in 1 .. Len(rob) : q[i] = rob[i]
  BY <1>1 DEF clInv
<1> HIDE DEF q
<1>5. Consistent(rob, cout, cl_pending, cl_issued)
  BY DEF clInv
<1>6. cl_issued + 1 = Len(cout) + Len(q) /\ cl_issued = Len(cout) + Len(rob)
  BY <1>0, <1>4, <1>5, SMTT(60) DEF Consistent
<1>7. ASSUME NEW i \in 1 .. Len(q)
      PROVE  /\ q[i].id = Len(cout) + i
             /\ q[i].ready => q[i].result = q[i].id
             /\ ~q[i].ready => \E r \in Pdsts : pend[r] = q[i].id
  <2>1. CASE i \in 1 .. Len(rob)
    <3>1. /\ q[i].id = Len(cout) + i
          /\ q[i].ready => q[i].result = q[i].id
          /\ ~q[i].ready => \E r \in Pdsts : cl_pending[r] = q[i].id
      BY <1>4, <1>5, <2>1 DEF Consistent
    <3>2. q[i].id # 0
      BY <1>0, <3>1, SMTT(60)
    <3> QED
      BY <1>2, <1>3, <3>1, <3>2, SMTT(60)
  <2>2. CASE i = Len(rob) + 1
    BY <1>0, <1>1, <1>3, <1>4, <1>6, <2>2
  <2> QED
    BY <1>0, <1>4, <2>1, <2>2, SMTT(60)
<1>8. ASSUME NEW r \in Pdsts, pend[r] # 0
      PROVE  pend[r] \in Len(cout) + 1 .. cl_issued + 1 /\ ~q[pend[r] - Len(cout)].ready
  <2>1. CASE r = p
    <3>1. pend[r] - Len(cout) = Len(rob) + 1
      BY <1>0, <1>3, <1>6, <2>1
    <3> QED
      BY <1>0, <1>1, <1>3, <1>4, <1>6, <2>1, <3>1
  <2>2. CASE r # p
    <3>1. pend[r] \in Len(cout) + 1 .. cl_issued /\ ~rob[pend[r] - Len(cout)].ready
      BY <1>3, <1>5, <1>8, <2>2 DEF Consistent
    <3>2. pend[r] - Len(cout) \in 1 .. Len(rob)
      BY <1>0, <1>6, <3>1, SMTT(60)
    <3> QED
      BY <1>0, <1>4, <3>1, <3>2, SMTT(60)
  <2> QED
    BY <2>1, <2>2
<1>9. \A r, u \in Pdsts : pend[r] = pend[u] /\ pend[r] # 0 => r = u
  <2>1. \A r \in Pdsts : r # p => pend[r] # cl_issued + 1
    <3> SUFFICES ASSUME NEW r \in Pdsts, r # p, pend[r] = cl_issued + 1 PROVE FALSE
      OBVIOUS
    <3>1. cl_pending[r] = cl_issued + 1 /\ cl_pending[r] # 0
      BY <1>0, <1>3
    <3>2. cl_pending[r] \in Len(cout) + 1 .. cl_issued
      BY <1>5, <3>1 DEF Consistent
    <3> QED
      BY <1>0, <3>1, <3>2
  <2> QED
    BY <1>3, <1>5, <2>1 DEF Consistent
<1>10. Consistent(q, cout, pend, cl_issued + 1)
  BY <1>5, <1>6, <1>7, <1>8, <1>9, ZenonT(60) DEF Consistent
<1>11. /\ rob' \in Seq(LogEntries) /\ cout' \in Seq(LogEntries)
       /\ Consistent(rob', cout', pend, cl_issued + 1)
       /\ rob' # <<>> => ~rob'[1].ready
  <2>1. cout \in Seq(LogEntries) /\ cl_issued + 1 \in Nat
    BY <1>0 DEF clInv
  <2> QED
    BY <1>2, <1>3, <1>4, <1>10, <2>1, CommitKeeps
<1> QED
  BY <1>0, <1>2, <1>3, <1>11 DEF clInv

\* Two lines of the buffer have two places in it.
LEMMA OffsetsApart ==
  ASSUME NEW n \in Nat, NEW m \in Nat, NEW x \in n + 1 .. n + m, NEW y \in n + 1 .. n + m, x # y
  PROVE  x - n \in 1 .. m /\ x - n # y - n
OBVIOUS

\* The result of the instruction that p waits for.
LEMMA WritebackKeeps == ASSUME clInv, NEW p \in Pdsts, writeback(p) PROVE clInv'
<1> DEFINE id == cl_pending[p]
           q == Fill(p, id)
           pend == [cl_pending EXCEPT ![p] = 0]
           k == id - Len(cout)
<1>0. /\ cl_issued \in Nat /\ Len(rob) \in Nat /\ Len(cout) \in Nat /\ id \in Nat
      /\ DOMAIN rob = 1 .. Len(rob) /\ \A i \in 1 .. Len(rob) : rob[i] \in LogEntries
  BY DEF clInv
<1>1. /\ Commit(q) /\ cl_pending' = pend /\ pdst_to_rob' = pend /\ id # 0 /\ ~cl_assert'
      /\ cl_issued' = cl_issued
  BY Zenon DEF writeback, clInv
<1>2. /\ pend \in [Pdsts -> Nat] /\ pend[p] = 0
      /\ \A r \in Pdsts : r # p => pend[r] = cl_pending[r]
  BY DEF clInv
<1> HIDE DEF pend
<1>3. Consistent(rob, cout, cl_pending, cl_issued)
  BY DEF clInv
<1>4. cl_issued = Len(cout) + Len(rob)
  BY <1>3 DEF Consistent
<1>5. id \in Len(cout) + 1 .. cl_issued
  BY <1>1, <1>3, SMTT(60) DEF Consistent
<1>6. \A i \in 1 .. Len(rob) : rob[i].id = Len(cout) + i
  BY <1>3 DEF Consistent
<1>7. \A i \in 1 .. Len(rob) : rob[i].id = id <=> i = k
  BY <1>0, <1>5, <1>6
<1>8. k \in 1 .. Len(rob)
  BY <1>0, <1>4, <1>5
<1>9. q = [i \in 1 .. Len(rob) |->
             IF rob[i].id = id THEN [rob[i] EXCEPT !.ready = TRUE, !.result = id] ELSE rob[i]]
  BY <1>0 DEF Fill, clInv
<1> HIDE DEF q, k, id
<1>10. /\ \A i \in 1 .. Len(rob) : i # k => q[i] = rob[i]
       /\ q[k] = [rob[k] EXCEPT !.ready = TRUE, !.result = id]
  BY <1>7, <1>8, <1>9, Zenon
<1>11. q[k] \in LogEntries /\ q[k].id = id /\ q[k].ready /\ q[k].result = id
  <2>1. rob[k] \in LogEntries /\ rob[k].id = id
    BY <1>0, <1>7, <1>8
  <2> QED
    BY <1>0, <1>10, <2>1, Zenon DEF LogEntries
<1>12. q \in Seq(LogEntries) /\ Len(q) = Len(rob)
  <2>1. \A i \in 1 .. Len(rob) : q[i] \in LogEntries
    BY <1>0, <1>10, <1>11
  <2>2. q \in [1 .. Len(rob) -> LogEntries]
    BY <1>9, <2>1, Zenon
  <2> QED
    BY <1>0, <2>2
<1>13. ASSUME NEW i \in 1 .. Len(q)
       PROVE  /\ q[i].id = Len(cout) + i
              /\ q[i].ready => q[i].result = q[i].id
              /\ ~q[i].ready => \E r \in Pdsts : pend[r] = q[i].id
  <2>1. CASE i = k
    <3>1. q[i].id = Len(cout) + i
      BY <1>0, <1>11, <2>1 DEF k
    <3> QED
      BY <1>11, <2>1, <3>1
  <2>2. CASE i # k
    <3>1. q[i] = rob[i] /\ rob[i].id # id /\ i \in 1 .. Len(rob)
      BY <1>7, <1>10, <1>12, <2>2
    <3>2. /\ q[i].id = Len(cout) + i
          /\ q[i].ready => q[i].result = q[i].id
          /\ ~q[i].ready => \E r \in Pdsts : cl_pending[r] = q[i].id
      BY <1>3, <3>1 DEF Consistent
    <3> QED
      BY <1>2, <3>1, <3>2, SMTT(60) DEF id
  <2> QED
    BY <2>1, <2>2
<1>14. ASSUME NEW r \in Pdsts, pend[r] # 0
       PROVE  pend[r] \in Len(cout) + 1 .. cl_issued /\ ~q[pend[r] - Len(cout)].ready
  <2>1. r # p /\ pend[r] = cl_pending[r]
    BY <1>2, <1>14, ZenonT(60)
  <2>2. pend[r] # id
    BY <1>1, <1>3, <1>14, <2>1 DEF Consistent, id
  <2>3. pend[r] \in Len(cout) + 1 .. cl_issued /\ ~rob[pend[r] - Len(cout)].ready
    BY <1>3, <1>14, <2>1 DEF Consistent
  <2>4. pend[r] - Len(cout) \in 1 .. Len(rob) /\ pend[r] - Len(cout) # k
    <3>1. Len(cout) \in Nat /\ Len(rob) \in Nat
      BY <1>0
    <3>2. /\ id \in Len(cout) + 1 .. Len(cout) + Len(rob)
          /\ pend[r] \in Len(cout) + 1 .. Len(cout) + Len(rob)
      BY <1>4, <1>5, <2>3
    <3> QED
      BY <2>2, <3>1, <3>2, OffsetsApart, Zenon DEF k
  <2> QED
    BY <1>10, <2>3, <2>4
<1>15. \A r, u \in Pdsts : pend[r] = pend[u] /\ pend[r] # 0 => r = u
  BY <1>2, <1>3, ZenonT(60) DEF Consistent
<1>16. Consistent(q, cout, pend, cl_issued)
  BY <1>3, <1>4, <1>12, <1>13, <1>14, <1>15 DEF Consistent
<1>17. /\ rob' \in Seq(LogEntries) /\ cout' \in Seq(LogEntries)
       /\ Consistent(rob', cout', pend, cl_issued)
       /\ rob' # <<>> => ~rob'[1].ready
  <2>1. cout \in Seq(LogEntries)
    BY DEF clInv
  <2> QED
    BY <1>0, <1>1, <1>2, <1>12, <1>16, <2>1, CommitKeeps, Zenon
<1> QED
  BY <1>0, <1>1, <1>2, <1>17 DEF clInv

\* Whatever lines come in whatever order, for any number of destinations: the assertions
\* of the filter hold, the output is the program in order with its own results, and
\* nothing is held back without need.
THEOREM LogCorrect == clSpec => []LogRight
<1>1. clInv /\ [clNext]_clVars => clInv'
  <2> SUFFICES ASSUME clInv, [clNext]_clVars PROVE clInv'
    OBVIOUS
  <2>1. CASE UNCHANGED clVars
    BY <2>1 DEF clVars, clInv
  <2>2. CASE Instruction
    BY <2>2, PushKeeps, PushPartialKeeps DEF Instruction
  <2>3. ASSUME NEW p \in Pdsts, writeback(p) PROVE clInv'
    BY <2>3, WritebackKeeps
  <2> QED
    BY <2>1, <2>2, <2>3 DEF clNext
<1>2. clInv => LogRight
  <2> SUFFICES ASSUME clInv PROVE LogRight
    OBVIOUS
  <2>1. /\ Len(rob) \in Nat /\ Len(cout) \in Nat /\ DOMAIN cout = 1 .. Len(cout)
        /\ cl_issued \in Nat
    BY DEF clInv
  <2>2. Consistent(rob, cout, cl_pending, cl_issued)
    BY DEF clInv
  <2>3. LogInOrder
    BY <2>1, <2>2 DEF Consistent, LogInOrder
  <2>4. ASSUME NEW n \in Len(cout) + 1 .. cl_issued
        PROVE  \E p \in Pdsts : cl_pending[p] \in 1 .. n
    <3>1. 1 \in 1 .. Len(rob) /\ rob # <<>>
      BY <2>1, <2>2 DEF Consistent
    <3>2. ~rob[1].ready
      BY <3>1 DEF clInv
    <3>3. PICK p \in Pdsts : cl_pending[p] = Len(cout) + 1
      BY <2>2, <3>1, <3>2 DEF Consistent
    <3> QED
      BY <2>1, <3>3
  <2> QED
    BY <2>3, <2>4 DEF LogRight, LogAssertsHold, LogUpToDate, clInv
<1> QED
  BY <1>1, <1>2, LogStarts, PTL DEF clSpec
=============================================================================
