------------------------------ MODULE DpmiMem ------------------------------
(***************************************************************************)
(* The memory blocks of DPMI clients (src/src/dosext/dpmi/memory.c): the   *)
(* functions 0501 to 0507 of INT 31h, and the start and the end of a       *)
(* client in dpmi.c, over the pools of Smalloc.  Everything runs on the    *)
(* main thread: a call is one step.                                        *)
(*                                                                         *)
(* S.roots[1] is the list of blocks of the host, S.roots[c + 1] that of    *)
(* client c, each with the latest block first.  The last client is the     *)
(* current one.  S.stack[c] is the pm_stack of client c, as the handle and *)
(* the place of the block.  S.used is pm_block_handle_used, S.allocd       *)
(* mem_allocd.  S.lost, which the code does not have, counts the pages of  *)
(* mem_pool whose only owner, a block that could not grow, has been given  *)
(* the address Bad: DPMI_malloc and DPMI_realloc test the result of the    *)
(* allocator against 0.  S.stop is set while a call that sets attributes   *)
(* skips the pages behind the one that was refused.                        *)
(*                                                                         *)
(* Of the attributes of a page only "committed" is kept: pages are         *)
(* writable.  Left out: shared blocks (DpmiShm), mapped memory (functions  *)
(* 0508, 0509 and 0800), resident clients, clients that end before a later *)
(* one, failures of mprotect other than in commit, and calls of function   *)
(* 0507 that name pages behind the end of the block (InBlock).             *)
(***************************************************************************)
EXTENDS Smalloc

CONSTANTS LowPages,    \* memory below dpmi_lin_rsv_base
          LinPages,    \* dpmi_lin_mem_rsv
          PoolPages,   \* dpmi_mem_size: the size of mem_pool
          TailPages,   \* what is left above it in main_pool
          Total,       \* dpmi_total_memory
          Reserved,    \* dpmi_reserved_space
          StackPages,  \* the stack of a client and its guard page
          Sizes,       \* sizes a program asks for
          Bases,       \* places it asks for
          Ranges,      \* pages whose type it sets: <<offset, count>>
          MaxClients,  \* DPMI_MAX_CLIENTS
          MaxHandle,   \* bound: blocks allocated since the first client started
          MaxFaults    \* bound: failures of commit

VARIABLES S, faults
vars == <<S, faults>>

ASSUME DpmiMemAssumption ==
  /\ {LowPages, LinPages, PoolPages, Total, StackPages, MaxClients} \subseteq Nat \ {0}
  /\ {TailPages, Reserved, MaxHandle, MaxFaults} \subseteq Nat /\ Sizes \subseteq Nat \ {0}
  /\ PoolPages >= Total + Reserved /\ Bases \subseteq Nat
  /\ Ranges \subseteq Nat \X (Nat \ {0})

LinTop == LowPages + LinPages
PoolTop == LinTop + PoolPages
Memory == 0 .. PoolTop + TailPages - 1
Size(b) == Len(b.attrs)
Committed(as) == Cardinality({i \in DOMAIN as : as[i]})
Place(b) == Pages(b.base, Size(b))
Tag(r, b, i) == <<r, b.handle, i>>
dpmi_free_memory(s) == IF s.allocd >= Total THEN 0 ELSE Total - s.allocd

(* The block of a handle: the first in the list. *)
Blocks(s, r, h) == {i \in DOMAIN s.roots[r] : s.roots[r][i].handle = h}
lookup_pm_block(s, r, h) == Min(Blocks(s, r, h))

(* The owner of a block writes to every page that it may write to, but has *)
(* not been able to before, that is from page n on.                        *)
Fill(s, r, i, n) ==
  LET b == s.roots[r][i]
      ps == {b.base + j - 1 : j \in {k \in n .. Size(b) : b.attrs[k]}}
  IN IF b.base = Bad THEN s
     ELSE [s EXCEPT !.h = Store(@, ps, LAMBDA x : Tag(r, b, x - b.base + 1))]
NewBlock(s, r, H, base, linear, size, committed) ==
  Fill([s EXCEPT !.h = H, !.used = @ + 1,
          !.allocd = IF committed THEN @ + size ELSE @,
          !.roots[r] = <<[handle |-> s.used, base |-> base, linear |-> linear,
                          attrs |-> [i \in 1..size |-> committed]]>>
                       \o @], r, 1, 1)
-----------------------------------------------------------------------------
(* size > dpmi_total_memory - mem_allocd + dpmi_reserved_space *)
Admitted(s, size) == size <= Total - s.allocd + Reserved
DPMI_malloc(s, r, size, ok) ==
  LET a == smalloc(s.h, "mem", size, ok)
  IN IF ~Admitted(s, size) THEN s
     ELSE NewBlock(s, r, a.h, a.at, FALSE, size, TRUE)

(* base is 0 for any place, or a page of the linear area or behind it. *)
DPMI_mallocLinear(s, r, base, size, committed) ==
  LET a == IF base = 0 THEN smalloc_topdown(s.h, "main", LinTop, size)
           ELSE smalloc_fixed(s.h, "main", base, size)
      H == Protect(a.h, Pages(a.at, size), IF committed THEN "rw" ELSE "none")
  IN IF \/ base # 0 /\ (base < LowPages \/ base + size > LinTop)
        \/ committed /\ size > dpmi_free_memory(s)
        \/ a.at = Bad
     THEN s ELSE NewBlock(s, r, H, a.at, TRUE, size, committed)

(* mem_allocd goes down by n pages, with its assertion. *)
Release(s, n) ==
  [s EXCEPT !.allocd = @ - n,
            !.err = IF @ = "no" /\ n > s.allocd THEN "mem_allocd" ELSE @]
DPMI_free_mut(s, r, h) ==
  LET i == lookup_pm_block(s, r, h)
      b == s.roots[r][i]
      H == IF b.linear THEN smfree(Protect(s.h, Place(b), "rw"), "main", b.base)
           ELSE smfree(s.h, "mem", b.base)
  IN IF Blocks(s, r, h) = {} THEN s
     ELSE Release([s EXCEPT !.h = H, !.roots[r] = RemoveAt(@, i)], Size(b))
DPMI_free(s, r, h) ==
  LET i == lookup_pm_block(s, r, h)
      b == s.roots[r][i]
      H == IF b.linear THEN smfree(Protect(s.h, Place(b), "rw"), "main", b.base)
           ELSE smfree(s.h, "mem", b.base)
  IN IF Blocks(s, r, h) = {} THEN s
     ELSE Release([s EXCEPT !.h = H, !.roots[r] = RemoveAt(@, i)],
                  Committed(b.attrs))
DPMIfreeAll(s, r) ==
  FoldLeft(LAMBDA x, n : DPMI_free(x, r, Head(x.roots[r]).handle),
           s, s.roots[r])
-----------------------------------------------------------------------------
restore_page_protection_mut(H, b) == H
restore_page_protection(H, b) ==
  Protect(H, {b.base + i - 1 : i \in {j \in 1 .. Size(b) :
                                        b.base # Bad /\ ~b.attrs[j]}}, "none")
finish_realloc_mut(s, r, i, base, size, committed) ==
  LET b == s.roots[r][i]
      old == Size(b)
      as == [j \in 1 .. size |->
               IF j <= old THEN b.attrs[j] ELSE committed]
      set == [s EXCEPT !.roots[r][i].attrs = as]
  IN IF size > old
     THEN [set EXCEPT !.allocd = IF committed THEN @ + size - old ELSE @]
     ELSE Release(set, Committed(b.attrs) - Committed(as))
finish_realloc(s, r, i, base, size, committed) ==
  LET b == s.roots[r][i]
      old == Size(b)
      as == [j \in 1 .. size |->
               IF j <= old THEN b.attrs[j] ELSE committed]
      set == [s EXCEPT !.roots[r][i].attrs = as, !.roots[r][i].base = base]
  IN IF size > old
     THEN [set EXCEPT !.allocd = IF committed THEN @ + size - old ELSE @]
     ELSE Release(set, Committed(b.attrs) - Committed(as))
(* The end of both functions: the new block is in place. *)
Resized(s, r, i, a, size, committed, rwx) ==
  LET old == Size(s.roots[r][i])
      f == finish_realloc([s EXCEPT !.h = a.h], r, i, a.at, size, committed)
      b == f.roots[r][i]
      H == IF rwx THEN Protect(f.h, Place(b), "rw") ELSE f.h
  IN Fill([f EXCEPT !.h = restore_page_protection(H, b)], r, i, old + 1)

DPMI_reallocLinear(s, r, h, size, committed) ==
  LET i == lookup_pm_block(s, r, h)
      b == s.roots[r][i]
      a == smrealloc(Protect(s.h, Place(b), "rw"), "main", b.base, size, TRUE, TRUE)
  IN IF \/ Blocks(s, r, h) = {} \/ ~b.linear \/ size = Size(b)
        \/ committed /\ size > Size(b) + dpmi_free_memory(s)
     THEN s
     ELSE IF a.at = Bad THEN [s EXCEPT !.h = restore_page_protection(a.h, b)]
     ELSE Resized(s, r, i, a, size, committed, TRUE)

DPMI_realloc(s, r, h, size, ok, ok2) ==
  LET i == lookup_pm_block(s, r, h)
      b == s.roots[r][i]
      a == smrealloc(Protect(s.h, Place(b), "rw"), "mem", b.base, size, ok, ok2)
  IN IF Blocks(s, r, h) = {} THEN s
     ELSE IF b.linear THEN DPMI_reallocLinear(s, r, h, size, TRUE)
     ELSE IF size = Size(b) \/ size > Size(b) + dpmi_free_memory(s) THEN s
     ELSE [Resized(s, r, i, a, size, TRUE, FALSE)
             EXCEPT !.lost = IF a.at = Bad THEN @ + Cardinality(Place(b)) ELSE @]
-----------------------------------------------------------------------------
(* One page of function 0507.  A refusal stops the call at this page. *)
SetAttribsForPage(s, r, i, j, com) ==
  LET b == s.roots[r][i]
      t == [s EXCEPT !.roots[r][i].attrs[j] = com,
                     !.h = Protect(@, {b.base + j - 1}, IF com THEN "rw" ELSE "none")]
  IN IF s.stop \/ b.attrs[j] = com THEN s
     ELSE IF ~com THEN Release(t, 1)
     ELSE IF dpmi_free_memory(s) < 1 THEN [s EXCEPT !.stop = TRUE]
     ELSE [t EXCEPT !.allocd = @ + 1]
(* null: config.no_null_checks, which a command of DOS switches. *)
DPMI_SetPageAttributes(s, r, h, offs, count, com, null) ==
  LET i == lookup_pm_block(s, r, h)
      t == FoldLeft(LAMBDA x, j : SetAttribsForPage(x, r, i, j, com),
                    s, [j \in 1 .. count |-> offs + j])
  IN IF ~s.roots[r][i].linear /\ null /\ offs = 0 /\ count = 1 THEN s
     ELSE Fill([t EXCEPT !.stop = FALSE], r, i, 1)
-----------------------------------------------------------------------------
(* dpmi_setup: the helper code and the page of the API helper.  Left out:  *)
(* the page of the helper code is made read-only afterwards.               *)
Booted ==
  LET H == [nodes |-> [p \in Pools |->
                         IF p = "mem" THEN <<Area(LinTop, PoolPages, FALSE)>>
                         ELSE SelectSeq(<<Area(0, LowPages, TRUE),
                                          Area(LowPages, LinPages, FALSE),
                                          Area(LinTop, PoolPages, TRUE),
                                          Area(PoolTop, TailPages, FALSE)>>,
                                        LAMBDA a : a.size > 0)],
            avail |-> [p \in Pools |-> IF p = "mem" THEN PoolPages
                                       ELSE LinPages + TailPages],
            prot |-> [x \in Memory |-> IF x \in LinTop .. PoolTop - 1
                                       THEN "none" ELSE "rw"],
            data |-> [x \in Memory |-> Zero], err |-> "no"]
      s == [h |-> H, roots |-> <<<<>>>>, stack |-> <<>>, used |-> 0,
            allocd |-> 0, lost |-> 0, stop |-> FALSE, err |-> "no"]
  IN DPMI_malloc(DPMI_malloc(s, 1, 1, TRUE), 1, 1, TRUE)
Init == S = Booted /\ faults = 0

cur == Len(S.roots)
Own == IF cur = 1 THEN {} ELSE {b.handle : b \in Range(S.roots[cur])}
Fresh == cur > 1 /\ S.used < MaxHandle
Block(h) == S.roots[cur][lookup_pm_block(S, cur, h)]

(* Whether the commits of a call succeed; every failure counts. *)
Oks == IF faults < MaxFaults THEN BOOLEAN ELSE {TRUE}
Count(ok) == faults' = IF ok THEN faults ELSE faults + 1

(* The first client starts the handles again, at one the host has used. *)
dpmi_init(s, ok) ==
  LET n == [s EXCEPT !.roots = Append(@, <<>>),
                     !.used = IF Len(s.roots) = 1 THEN 1 ELSE @]
      m == DPMI_malloc(n, 1, StackPages, ok)
  IN [m EXCEPT !.stack = Append(@, Head(m.roots[1]))]
(* Without room for the stack the error exit uses the block it has not     *)
(* got; the bound is that a client is started only where the stack fits.   *)
StartClient ==
  /\ cur <= MaxClients /\ Admitted(S, StackPages)
  /\ S.used < MaxHandle \/ cur = 1
  /\ \E ok \in Oks : S' = dpmi_init(S, ok) /\ Count(ok)
(* dpmi_cleanup *)
EndClient ==
  /\ cur > 1
  /\ LET s == DPMIfreeAll(DPMI_free(S, 1, Last(S.stack).handle), cur)
     IN S' = [s EXCEPT !.roots = Front(@), !.stack = Front(@)]
  /\ UNCHANGED faults

Allocate ==
  /\ Fresh
  /\ \E n \in Sizes, ok \in Oks : S' = DPMI_malloc(S, cur, n, ok) /\ Count(ok)
AllocateLinear ==
  /\ Fresh
  /\ \E n \in Sizes, base \in Bases, c \in BOOLEAN :
       S' = DPMI_mallocLinear(S, cur, base, n, c)
  /\ UNCHANGED faults
FreeBlock == \E h \in Own : S' = DPMI_free(S, cur, h) /\ UNCHANGED faults
Resize ==
  \E h \in Own, n \in Sizes, ok, ok2 \in Oks :
    /\ (ok \/ ok2) /\ (Block(h).linear => ok /\ ok2)
    /\ S' = DPMI_realloc(S, cur, h, n, ok, ok2) /\ Count(ok /\ ok2)
(* A call that names another block is refused and changes nothing. *)
ResizeLinear ==
  /\ \E h \in Own, n \in Sizes, c \in BOOLEAN :
       Block(h).linear /\ S' = DPMI_reallocLinear(S, cur, h, n, c)
  /\ UNCHANGED faults
(* Bound: a program names pages of its own block.  Nothing in the code     *)
(* compares the range of function 0507 with the size of the block: behind  *)
(* the end it reads and writes what follows the array of attributes, and   *)
(* changes mem_allocd and the protection of pages of other blocks.         *)
InBlock(h, g) == g[1] + g[2] <= Size(Block(h))
(* A block without a place is not used. *)
SetAttributes ==
  /\ \E h \in Own, g \in Ranges, com, null \in BOOLEAN :
       /\ Block(h).base # Bad /\ InBlock(h, g)
       /\ S' = DPMI_SetPageAttributes(S, cur, h, g[1], g[2], com, null)
  /\ UNCHANGED faults
Next == StartClient \/ EndClient \/ Allocate \/ AllocateLinear \/ FreeBlock
        \/ Resize \/ ResizeLinear \/ SetAttributes
Spec == Init /\ [][Next]_vars
-----------------------------------------------------------------------------
AllBlocks == {<<r, i>> \in (1 .. cur) \X (1 .. MaxHandle + 2) :
                i \in DOMAIN S.roots[r]}
At(x) == S.roots[x[1]][x[2]]
FreePages(p) ==
  UNION {Pages(a.at, a.size) : a \in {b \in Range(S.h.nodes[p]) : ~b.used}}

TypeOK ==
  /\ S.h.prot \in [Memory -> {"none", "rw"}]
  /\ \A x \in AllBlocks : At(x) \in [handle : 0 .. MaxHandle + 1, linear : BOOLEAN,
                                     base : Memory \cup {Bad},
                                     attrs : Seq(BOOLEAN)]
  /\ S.used \in 0 .. MaxHandle + 2 /\ ~S.stop /\ faults \in 0 .. MaxFaults

(* mem_allocd is the number of committed pages of all blocks, and within   *)
(* the limit; DPMI_malloc, resizing, committing, uncommitting and freeing  *)
(* page by page all have to agree on it, in every order and with every     *)
(* refusal in between.  A count too low makes the assertions of the        *)
(* release fire, one too high, after the clients have gone, takes memory   *)
(* from all later ones, and one above the limit wraps the difference in    *)
(* DPMI_malloc.  And the end of a client frees the stack of that client,   *)
(* by a handle that another block of the host may have as well.  All this  *)
(* as long as programs set the attributes of pages of their blocks only.   *)
Accounted ==
  /\ TypeOK /\ S.err = "no"
  /\ S.allocd = MapThenSumSet(LAMBDA x : Committed(At(x).attrs), AllBlocks)
  /\ S.allocd <= Total + Reserved
  /\ \A c \in DOMAIN S.stack :
       /\ Blocks(S, 1, S.stack[c].handle) # {}
       /\ S.roots[1][lookup_pm_block(S, 1, S.stack[c].handle)] = S.stack[c]

(* The areas of a pool cover it without gap or overlap, no two free ones   *)
(* are neighbours (the assertion of mntruncate), avail is their sum, and   *)
(* the used areas of mem_pool are the blocks that have a place there and   *)
(* what failed calls have lost: nothing else leaks at dpmi_free_pool.      *)
Tiled ==
  /\ \A p \in Pools : LET ns == S.h.nodes[p] IN
       /\ \A i \in DOMAIN ns : ns[i].size > 0
       /\ \A i \in 1 .. Len(ns) - 1 : /\ ns[i + 1].at = ns[i].at + ns[i].size
                                      /\ ns[i].used \/ ns[i + 1].used
       /\ S.h.avail[p] = Cardinality(FreePages(p))
  /\ PoolPages - S.h.avail["mem"] =
       S.lost + MapThenSumSet(LAMBDA x : IF At(x).linear THEN 0
                                         ELSE Cardinality(Place(At(x))), AllBlocks)

(* What a program has written to its pages is there until it frees them:   *)
(* no two blocks share a page, and resizing (in place, into the area       *)
(* before, or elsewhere) keeps the contents.  The allocator itself copies  *)
(* and clears accessible pages only.                                       *)
ContentsKept ==
  /\ S.h.err = "no"
  /\ \A x \in AllBlocks : \A i \in DOMAIN At(x).attrs :
       /\ At(x).base # Bad /\ At(x).attrs[i]
       => S.h.data[At(x).base + i - 1] = Tag(x[1], At(x), i)

(* The protection of a page follows its attributes: it is accessible if    *)
(* and only if it is committed.  Free pages of mem_pool are inaccessible,  *)
(* those of main_pool are not.  As for Accounted, programs set attributes  *)
(* within their blocks.                                                    *)
Protected ==
  /\ \A x \in AllBlocks : \A i \in DOMAIN At(x).attrs :
       At(x).base # Bad =>
         (S.h.prot[At(x).base + i - 1] = "rw") = At(x).attrs[i]
  /\ \A x \in FreePages("mem") : S.h.prot[x] = "none"
  /\ \A x \in FreePages("main") : S.h.prot[x] = "rw"

=============================================================================
