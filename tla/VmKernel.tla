------------------------------- MODULE VmKernel -------------------------------
(***************************************************************************)
(* The supervisor of the virtual-memory tests, riscv-tests/env/v/vm.c: one *)
(* context per hardware row, each with its page table, its free list of    *)
(* frames and its TLB.  A user access that the TLB refuses traps, the      *)
(* handler maps the page or sets its A or D bit, and the access is retried.*)
(* The TLB is the core's (rocket/TLB.scala): it keeps a copy of every      *)
(* entry it walked, an invalid one too, until sfence.vma or until another  *)
(* entry takes its place; it does not set A or D itself, it faults.        *)
(*                                                                         *)
(* A list node is <<"free", i>> (freelist_nodes[i]) or <<"map", p>>        *)
(* (user_mapping[p]); pages hold the page they are a copy of and the       *)
(* number of writes since.  A trap handler runs to its end in one step:    *)
(* what it touches belongs to its context.  An instruction fetch is a load.*)
(* Characters sent to tohost by a failed assertion are left out.           *)
(***************************************************************************)
EXTENDS Naturals, FiniteSets

CONSTANTS VmRows,              \* contexts 0 .. VmRows - 1
          MAX_TEST_PAGES, MAX_NUM_CODE_PAGES,
          ACCESSES             \* accesses the program of each context makes before its ecall

ASSUME VmAssumption ==
  VmRows \in Nat \ {0} /\ MAX_NUM_CODE_PAGES \in 1 .. MAX_TEST_PAGES - 1

Ctx == 0 .. VmRows - 1
Page == 0 .. MAX_TEST_PAGES - 1
Null == <<"null", 0>>
NoPte == [v |-> FALSE, frame |-> 0, a |-> FALSE, d |-> FALSE]
NoNode == [addr |-> 0, next |-> Null]

VARIABLES
  user_l3pt,        \* context -> page -> entry
  vm_tlb,           \* context -> the entries it holds, [page, pte]
  list_nodes,       \* context -> node -> [addr, next]; user_mapping and freelist_nodes
  freelist_head, freelist_tail,
  frames,           \* frame -> [page, writes]
  row_status,       \* context -> [running, code], code the set of bits of the exit code
  vm,               \* context -> [at, page, kind, left, scan, stat]
  vm_wrote,         \* ghost: context -> page -> writes of its program
  vm_asked,         \* ghost: the contexts running when context 0 began to wait
  vm_result         \* tohost

vmMem == <<user_l3pt, vm_tlb, list_nodes, freelist_head, freelist_tail, frames>>
vmVars == <<vmMem, row_status, vm, vm_wrote, vm_asked, vm_result>>

NodeNames == ({"free"} \X Page) \cup ({"map"} \X Page)

vmInit ==
  /\ user_l3pt = [c \in Ctx |-> [p \in Page |-> NoPte]]
  /\ vm_tlb = [c \in Ctx |-> {}]
  /\ list_nodes = [c \in Ctx |-> [n \in NodeNames |-> NoNode]]
  /\ freelist_head = [c \in Ctx |-> Null] /\ freelist_tail = [c \in Ctx |-> Null]
  /\ frames = [f \in 1 .. VmRows * MAX_TEST_PAGES |-> [page |-> 0, writes |-> 0]]
  /\ row_status = [c \in Ctx |-> [running |-> FALSE, code |-> {}]]
  /\ vm = [c \in Ctx |-> [at |-> "boot", page |-> 0, kind |-> "none", left |-> ACCESSES,
                          scan |-> 0, stat |-> {}, busy |-> FALSE]]
  /\ vm_wrote = [c \in Ctx |-> [p \in Page |-> 0]]
  /\ vm_asked = {} /\ vm_result = {}

\* freelist_nodes[c][i].addr: each row has its own region.
FrameOf(c, i) == 1 + i + MAX_TEST_PAGES * c

\* Boot of a row: status, free list, start of the program.
vm_boot(c) ==
  /\ vm[c].at = "boot"
  /\ row_status' = [row_status EXCEPT ![c].running = TRUE]
  /\ list_nodes' = [list_nodes EXCEPT ![c] = [n \in NodeNames |->
       IF n[1] = "map" THEN NoNode
       ELSE [addr |-> FrameOf(c, n[2]),
             next |-> IF n[2] = MAX_TEST_PAGES - 1 THEN Null ELSE <<"free", n[2] + 1>>]]]
  /\ freelist_head' = [freelist_head EXCEPT ![c] = <<"free", 0>>]
  /\ freelist_tail' = [freelist_tail EXCEPT ![c] = <<"free", MAX_TEST_PAGES - 1>>]
  /\ vm' = [vm EXCEPT ![c].at = "user"]
  /\ UNCHANGED <<user_l3pt, vm_tlb, frames, vm_wrote, vm_asked, vm_result>>

\* The program begins an access, or ends.
Issue(c) ==
  /\ vm[c].at = "user" /\ vm[c].left > 0
  /\ \E p \in Page \ {0}, k \in {"load", "store"} :
       vm' = [vm EXCEPT ![c].at = "access", ![c].page = p, ![c].kind = k, ![c].left = @ - 1]
  /\ UNCHANGED <<vmMem, row_status, vm_wrote, vm_asked, vm_result>>

\* The entries that an access may see: the TLB's copy, or what a walk finds if there is
\* none or it was replaced.
Seen(c, p) == {user_l3pt[c][p]} \cup {x.pte : x \in {y \in vm_tlb[c] : y.page = p}}
Allowed(e, k) == e.v /\ e.a /\ (k = "store" => e.d)

\* Mutant: sfence.vma does nothing.
Flushed_Not(tlb, p) == tlb

\* sfence.vma for one page, and the entry of a walk, which takes the place of an older one.
Flushed(tlb, p) == {x \in tlb : x.page # p}
Refilled(tlb, p, e) == {x \in tlb : x.page # p} \cup {[page |-> p, pte |-> e]}

\* The access goes through.
Access(c) ==
  LET p == vm[c].page IN
  \E e \in Seen(c, p) :
  /\ vm[c].at = "access" /\ Allowed(e, vm[c].kind)
  /\ vm_tlb' = [vm_tlb EXCEPT ![c] = Refilled(@, p, e)]
  /\ IF vm[c].kind = "store"
     THEN /\ frames' = [frames EXCEPT ![e.frame].writes = @ + 1]
          /\ vm_wrote' = [vm_wrote EXCEPT ![c][p] = @ + 1]
     ELSE UNCHANGED <<frames, vm_wrote>>
  /\ vm' = [vm EXCEPT ![c].at = "user"]
  /\ UNCHANGED <<user_l3pt, list_nodes, freelist_head, freelist_tail, row_status, vm_asked,
                 vm_result>>

\* A failed assertion ends the row with code 3.
Asserted(c, ok) == vm' = [vm EXCEPT ![c].at = IF ok THEN "access" ELSE "assert"]

\* handle_fault on a mapped page: set A, or D if A is set already; flush the entry x that
\* refused the access.
SetAD(c, p, e, x) ==
  /\ user_l3pt' = [user_l3pt EXCEPT ![c][p] = IF e.a THEN [e EXCEPT !.d = TRUE]
                                                     ELSE [e EXCEPT !.a = TRUE]]
  /\ vm_tlb' = [vm_tlb EXCEPT ![c] = Flushed(Refilled(@, p, x), p)]
  /\ Asserted(c, e.a => ~e.d /\ vm[c].kind = "store")
  /\ UNCHANGED <<list_nodes, freelist_head, freelist_tail, frames>>

\* handle_fault on an unmapped page: take a node, map its frame with A and D for the copy
\* (which loads the TLB), copy the image, then clear A and D and flush.
MapPage(c, p, n, node) ==
  LET new == [v |-> TRUE, frame |-> node.addr, a |-> FALSE, d |-> FALSE] IN
  /\ n # Null /\ list_nodes[c][<<"map", p>>].addr = 0
  /\ freelist_head' = [freelist_head EXCEPT ![c] = node.next]
  /\ freelist_tail' = [freelist_tail EXCEPT ![c] = IF node.next = @ THEN Null ELSE @]
  /\ list_nodes' = [list_nodes EXCEPT ![c][<<"map", p>>] = node]
  /\ frames' = [frames EXCEPT ![node.addr] = [page |-> p, writes |-> 0]]
  /\ user_l3pt' = [user_l3pt EXCEPT ![c][p] = new]
  /\ vm_tlb' = [vm_tlb EXCEPT ![c] =
                  Flushed(Refilled(@, p, [new EXCEPT !.a = TRUE, !.d = TRUE]), p)]
  /\ Asserted(c, TRUE)

\* The access traps: an entry refuses it.
handle_fault(c) ==
  LET p == vm[c].page  e == user_l3pt[c][p]  n == freelist_head[c] IN
  /\ vm[c].at = "access"
  /\ \E x \in Seen(c, p) :
       /\ ~Allowed(x, vm[c].kind)
       /\ IF e.v THEN SetAD(c, p, e, x)
          ELSE IF n = Null \/ list_nodes[c][<<"map", p>>].addr # 0
               THEN Asserted(c, FALSE) /\ UNCHANGED vmMem
               ELSE MapPage(c, p, n, list_nodes[c][n])
  /\ UNCHANGED <<row_status, vm_wrote, vm_asked, vm_result>>

\* ecall: the handler evicts every page from MAX_NUM_CODE_PAGES on.
Ecall(c) ==
  /\ vm[c].at = "user"
  /\ vm' = [vm EXCEPT ![c].at = "evict", ![c].page = MAX_NUM_CODE_PAGES]
  /\ UNCHANGED <<vmMem, row_status, vm_wrote, vm_asked, vm_result>>

\* evict of one page, if it is mapped: A must be set, and D if the page differs from its
\* image, which is then copied over it; its node goes to the end of the free list.
evict(c) ==
  LET p == vm[c].page
      node == <<"map", p>>
      f == list_nodes[c][node].addr
      e == user_l3pt[c][p]
      freed == [list_nodes EXCEPT ![c][node].addr = 0]
      ok == e.a /\ (frames[f].writes > 0 => e.d)
      onward == IF p + 1 < MAX_TEST_PAGES THEN [vm[c] EXCEPT !.page = p + 1]
                                          ELSE [vm[c] EXCEPT !.at = "terminate"] IN
  /\ vm[c].at = "evict"
  /\ IF f = 0
     THEN vm' = [vm EXCEPT ![c] = onward] /\ UNCHANGED <<list_nodes, frames, freelist_head, freelist_tail>>
     ELSE IF ~ok
     THEN vm' = [vm EXCEPT ![c].at = "assert"] /\ UNCHANGED <<list_nodes, frames, freelist_head, freelist_tail>>
     ELSE /\ vm' = [vm EXCEPT ![c] = onward]
          /\ frames' = [frames EXCEPT ![f].writes = 0]
          /\ list_nodes' = IF freelist_tail[c] = Null THEN freed
                           ELSE [freed EXCEPT ![c][freelist_tail[c]].next = node]
          /\ freelist_head' = [freelist_head EXCEPT ![c] = IF freelist_tail[c] = Null THEN node ELSE @]
          /\ freelist_tail' = [freelist_tail EXCEPT ![c] = node]
  /\ UNCHANGED <<user_l3pt, vm_tlb, row_status, vm_wrote, vm_asked, vm_result>>

\* row_status[c] = code << 1, with the code of the program or 3 for an assertion; context 0
\* goes on to wait for the others.
Terminate(c) ==
  /\ vm[c].at \in {"terminate", "assert"}
  /\ \E fails \in BOOLEAN :
       row_status' = [row_status EXCEPT ![c] = [running |-> FALSE,
                        code |-> IF fails \/ vm[c].at = "assert" THEN {0, 1} ELSE {0}]]
  /\ vm' = [vm EXCEPT ![c].at = IF c = 0 THEN "wait" ELSE "done"]
  /\ vm_asked' = IF c = 0 THEN {d \in Ctx : row_status[d].running \/ row_status[d].code # {}} \cup {0}
                 ELSE vm_asked
  /\ UNCHANGED <<vmMem, vm_wrote, vm_result>>

\* Context 0 reads the statuses one after the other, again while one is running, and
\* reports the or of the codes.
Collect(c) ==
  /\ vm[c].at = "wait"
  /\ LET s == vm[c].scan
         stat == vm[c].stat \cup row_status[s].code
         busy == vm[c].busy \/ row_status[s].running IN
       IF s + 1 < VmRows
       THEN vm' = [vm EXCEPT ![c].scan = s + 1, ![c].stat = stat, ![c].busy = busy] /\ UNCHANGED vm_result
       ELSE IF busy
       THEN vm' = [vm EXCEPT ![c].scan = 0, ![c].stat = {}, ![c].busy = FALSE] /\ UNCHANGED vm_result
       ELSE vm' = [vm EXCEPT ![c].at = "done", ![c].stat = stat] /\ vm_result' = stat
  /\ UNCHANGED <<vmMem, row_status, vm_wrote, vm_asked>>

vmStep(c) ==
  \/ vm_boot(c) \/ Issue(c) \/ Access(c) \/ handle_fault(c) \/ Ecall(c) \/ evict(c)
  \/ Terminate(c) \/ Collect(c)

vmNext == \E c \in Ctx : vmStep(c)
vmDone == \A c \in Ctx : vm[c].at = "done"
-----------------------------------------------------------------------------
(* Properties *)

vmTypeOK ==
  /\ \A c \in Ctx : /\ freelist_head[c] \in NodeNames \cup {Null}
                    /\ freelist_tail[c] \in NodeNames \cup {Null}
                    /\ \A p \in Page : user_l3pt[c][p].frame \in 0 .. VmRows * MAX_TEST_PAGES
  /\ vm_result \subseteq {0, 1}

\* The kernel's own assertions never fail: a fault on a page with A is a store to a clean
\* page, the free list never runs dry, no page is mapped twice, and every page that the
\* program changed has its D bit when it is evicted, whatever the TLB remembers.
KernelAssertsHold == \A c \in Ctx : vm[c].at # "assert"

\* Every row works on its own copy: the frame under a mapped page holds that page and
\* exactly the row's own writes.
MemoryPrivate ==
  \A c \in Ctx : vm[c].at \in {"user", "access"} =>
    \A p \in Page : user_l3pt[c][p].v =>
      frames[user_l3pt[c][p].frame] = [page |-> p, writes |-> vm_wrote[c][p]]

\* What context 0 reports has the code of every row that was running when it began to wait.
ResultComplete ==
  vm_result # {} => \A c \in vm_asked : ~row_status[c].running /\ row_status[c].code \subseteq vm_result

\* A test that has begun ends: context 0 reports.
VmEnds == []<>(vmInit \/ vm_result # {})

\* The kernel gives every row its own memory and a complete report, and brings the test to
\* its end.
VmCorrect == [](vmTypeOK /\ KernelAssertsHold /\ MemoryPrivate /\ ResultComplete) /\ VmEnds
=============================================================================
