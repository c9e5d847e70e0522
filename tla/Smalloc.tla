------------------------------ MODULE Smalloc ------------------------------
(***************************************************************************)
(* The pool allocator (src/src/base/lib/misc/smalloc.c) under its two      *)
(* pools of DPMI memory: "main" (main_pool) holds the linear blocks,       *)
(* "mem" (mem_pool) the others.                                            *)
(*                                                                         *)
(* H is the memory: H.nodes[p] and H.avail[p] are the list of areas and    *)
(* the free size of pool p; H.prot and H.data the protection and the       *)
(* contents of every page; H.err the first failure.  All sizes and         *)
(* addresses are in pages: the callers that are modelled round them up, so *)
(* every area starts on a page boundary and align_delta is 0.  Only        *)
(* mem_pool has commit callbacks, and ok tells whether the mprotect of     *)
(* commit succeeds; main_pool does not clear what it allocates.  Operators *)
(* that allocate return the address, or Bad, with the new memory.          *)
(*                                                                         *)
(* What a free page contains cannot be seen (mem_pool clears it, a program *)
(* does not rely on it) and is Zero.  The assertions on areas are the      *)
(* property Tiled of DpmiMem.                                              *)
(***************************************************************************)
EXTENDS Integers, Sequences, SequencesExt, FiniteSetsExt

Pools == {"mem", "main"}
Bad == -1                       \* (dosaddr_t)-1
Zero == <<>>
Pages(at, n) == IF at = Bad THEN {} ELSE at .. at + n - 1
Area(at, n, u) == [at |-> at, size |-> n, used |-> u]
Min2(a, b) == IF a < b THEN a ELSE b

Result(H, at) == [h |-> H, at |-> at]
Put(H, p, nodes) == [H EXCEPT !.nodes[p] = nodes]
Protect(H, ps, v) ==
  [H EXCEPT !.prot = [x \in DOMAIN @ |-> IF x \in ps THEN v ELSE @[x]]]
Store(H, ps, F(_)) ==
  [H EXCEPT !.data = [x \in DOMAIN @ |-> IF x \in ps THEN F(x) ELSE @[x]],
            !.err = IF @ = "no" /\ \E x \in ps : H.prot[x] # "rw"
                    THEN "page fault" ELSE @]
Clear(H, ps) == Store(H, ps, LAMBDA x : Zero)
(* MEMMOVE_DOS2DOS *)
Move(H, to, from, n) ==
  LET d == Store(H, Pages(to, n), LAMBDA x : H.data[x - to + from])
  IN IF d.err = "no" /\ \E x \in Pages(from, n) : H.prot[x] = "none"
     THEN [d EXCEPT !.err = "page fault"] ELSE d
Forget(H, ps) ==
  [H EXCEPT !.data = [x \in DOMAIN @ |-> IF x \in ps THEN Zero ELSE @[x]]]

sm_uncommit(H, p, at, n) ==
  LET f == Forget(H, Pages(at, n))
  IN IF p = "mem" THEN Protect(f, Pages(at, n), "none") ELSE f
(* Only called if the mprotect succeeds or there is none. *)
sm_commit(H, p, at, n) ==
  LET c == IF p = "mem" THEN Protect(H, Pages(at, n), "rw") ELSE H
  IN [c EXCEPT !.avail[p] = @ - n]
Commits(p, ok) == p = "mem" => ok

mntruncate_mut(ns, i, size) ==
  LET delta == ns[i].size - size
  IN IF delta = 0 THEN ns
     ELSE IF i < Len(ns) /\ ~ns[i + 1].used
     THEN [ns EXCEPT ![i].size = size,
                     ![i + 1].size = @ + delta, ![i + 1].at = @ - delta]
     ELSE InsertAt([ns EXCEPT ![i].size = size], i + 1,
                   Area(ns[i].at + size, delta, FALSE))
(* Resize area i at the expense of the free area behind it. *)
mntruncate(ns, i, size) ==
  LET delta == ns[i].size - size
      next == ns[i + 1].size + delta
  IN IF delta = 0 THEN ns
     ELSE IF i < Len(ns) /\ ~ns[i + 1].used
     THEN IF next = 0 THEN RemoveAt([ns EXCEPT ![i].size = size], i + 1)
          ELSE [ns EXCEPT ![i].size = size,
                          ![i + 1].size = next, ![i + 1].at = @ - delta]
     ELSE InsertAt([ns EXCEPT ![i].size = size], i + 1,
                   Area(ns[i].at + size, delta, FALSE))
-----------------------------------------------------------------------------
Free(ns) == {i \in DOMAIN ns : ~ns[i].used}
(* The tail of every allocation: take the first size pages of free area i. *)
Take(H, p, ns, i, size) ==
  LET at == ns[i].at
      c == Put(sm_commit(H, p, at, size), p,
               mntruncate([ns EXCEPT ![i].used = TRUE], i, size))
  IN Result(IF p = "mem" THEN Clear(c, Pages(at, size)) ELSE c, at)
(* sm_alloc_aligned: first fit. *)
smalloc(H, p, size, ok) ==
  LET ns == H.nodes[p]
      fits == {i \in Free(ns) : ns[i].size >= size}
  IN IF fits = {} \/ ~Commits(p, ok) THEN Result(H, Bad)
     ELSE Take(H, p, ns, Min(fits), size)
(* Make an area start at address at, inside free area i. *)
TakeAt(H, p, ns, i, at, size) ==
  IF at = ns[i].at THEN Take(H, p, ns, i, size)
  ELSE Take(H, p, mntruncate(ns, i, at - ns[i].at), i + 1, size)
smalloc_fixed(H, p, at, size) ==
  LET ns == H.nodes[p]
      here == {i \in Free(ns) : /\ ns[i].at <= at
                                /\ at + size <= ns[i].at + ns[i].size}
  IN IF here = {} THEN Result(H, Bad)
     ELSE TakeAt(H, p, ns, Min(here), at, size)
(* The highest place below top. *)
smalloc_topdown(H, p, top, size) ==
  LET ns == H.nodes[p]
      End(i) == Min2(ns[i].at + ns[i].size, top)
      fits == {i \in Free(ns) : End(i) - size >= ns[i].at}
      i == Max(fits)
  IN IF fits = {} THEN Result(H, Bad)
     ELSE TakeAt(H, p, ns, i, End(i) - size, size)
-----------------------------------------------------------------------------
(* find_mn: the used areas at an address, none or one. *)
find_mn(H, p, at) ==
  {i \in DOMAIN H.nodes[p] : H.nodes[p][i].at = at /\ H.nodes[p][i].used}

smfree(H, p, at) ==
  IF find_mn(H, p, at) = {} THEN H
  ELSE LET i == CHOOSE n \in find_mn(H, p, at) : TRUE
           ns == H.nodes[p]
           f == [ns EXCEPT ![i].used = FALSE]
           n == IF i < Len(f) /\ ~f[i + 1].used
                THEN mntruncate(f, i, f[i].size + f[i + 1].size) ELSE f
           merged == i > 1 /\ ~n[i - 1].used
           q == IF merged THEN mntruncate(n, i - 1, n[i - 1].size + n[i].size)
                ELSE n
           a == q[IF merged THEN i - 1 ELSE i]
       IN sm_uncommit(Put([H EXCEPT !.avail[p] = @ + ns[i].size], p, q),
                      p, a.at, a.size)

(* sm_realloc_alloc_mn, first case: move area i into the free area before. *)
(* ok2 is the second commit, whose failure takes the first one back.       *)
MoveToPrev(H, p, i, size, ok, ok2) ==
  LET ns == H.nodes[p]
      pmn == ns[i - 1]
      mn == ns[i]
      psize == Min2(size, pmn.size)
      more == size - pmn.size - mn.size
      c == sm_commit(H, p, pmn.at, psize)
      c2 == IF more > 0 THEN sm_commit(c, p, mn.at + mn.size, more) ELSE c
      moved == Move(c2, pmn.at, mn.at, mn.size)
      cl == IF p = "mem"
            THEN Clear(moved, Pages(pmn.at + mn.size, size - mn.size)) ELSE moved
      back == IF more < 0
              THEN mn.size - (IF size > pmn.size THEN size - pmn.size ELSE 0)
              ELSE 0
      u == [ns EXCEPT ![i - 1].used = TRUE, ![i].used = FALSE]
      j == IF i < Len(u) /\ ~u[i + 1].used
           THEN mntruncate(u, i, u[i].size + u[i + 1].size) ELSE u
      t == mntruncate(j, i - 1, size)
      f == Put([cl EXCEPT !.avail[p] = @ + back], p, t)
  IN IF ~Commits(p, ok) THEN Result(H, Bad)
     ELSE IF more > 0 /\ ~Commits(p, ok2)
     THEN Result(sm_uncommit(H, p, pmn.at, psize), Bad)
     ELSE Result(IF i <= Len(t) /\ ~t[i].used
                 THEN sm_uncommit(f, p, t[i].at, t[i].size) ELSE f, pmn.at)

smrealloc(H, p, at, size, ok, ok2) ==
  LET ns == H.nodes[p]
      i == CHOOSE n \in find_mn(H, p, at) : TRUE
      old == ns[i].size
      next == IF i < Len(ns) /\ ~ns[i + 1].used THEN ns[i + 1].size ELSE 0
      prev == IF i > 1 /\ ~ns[i - 1].used THEN ns[i - 1].size ELSE 0
      t == mntruncate(ns, i, size)
      grown == Put(sm_commit(H, p, at + old, size - old), p, t)
      new == smalloc(H, p, size, ok)
  IN IF find_mn(H, p, at) = {} THEN Result(H, Bad)
     ELSE IF size = old THEN Result(H, at)
     ELSE IF size < old
     THEN Result(sm_uncommit(Put([H EXCEPT !.avail[p] = @ + old - size], p, t),
                             p, t[i + 1].at, t[i + 1].size), at)
     ELSE IF next > 0 /\ old + next >= size
     THEN IF ~Commits(p, ok) THEN Result(H, Bad)
          ELSE Result(IF p = "mem"
                      THEN Clear(grown, Pages(at + old, size - old))
                      ELSE grown, at)
     ELSE IF prev > 0 /\ prev + old + next >= size
     THEN MoveToPrev(H, p, i, size, ok, ok2)
     ELSE IF new.at = Bad THEN new
     ELSE Result(smfree(Move(new.h, new.at, at, old), p, at), new.at)
=============================================================================
