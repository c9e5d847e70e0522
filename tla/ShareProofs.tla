---------------------------- MODULE ShareProofs ----------------------------
(***************************************************************************)
(* For any emulators, files and tables of open files: rights that were     *)
(* denied are never given to two handles that claimed them, the probes     *)
(* answer as the table of the test says, what unlink and rename checked    *)
(* still holds when they act, and only renames can block each other.       *)
(***************************************************************************)
EXTENDS Share, TLAPS

(* Arguments of the calls. *)
OpenArg == [op : {"open", "creat"}, f : File, acc : All, deny : DenyModes, slot : Slot]
ModArg == [op : {"unlink", "setattr", "rename"}, f : File, g : File, force : BOOLEAN]
CloseArg == [op : {"close"}, slot : Slot]
Args == OpenArg \cup ModArg \cup CloseArg \cup {NoArg}

(* Locations of an open, and of the others, under the exclusive lock. *)
OpenEx == {"probe", "loophole", "claim"}
ModEx == {"inuse", "modify", "exlock2", "inuse2", "rename"}
Checked == {"modify", "exlock2", "inuse2", "rename"}
Opening(p) == pc[p] \in OpenEx \/ (pc[p] = "exlock" /\ arg[p] \in OpenArg)

Types ==
  /\ exists \subseteq File /\ ex \in [File -> Proc \cup {Nobody}]
  /\ tab \in [Proc -> [Slot -> Handle \cup {NoHandle}]]
  /\ pc \in [Proc -> Locations] /\ arg \in [Proc -> Args]
  /\ todo \in [Proc -> Seq(Kinds \cup (Kinds \X BOOLEAN))]
  /\ calls \in [Proc -> 0 .. MaxCalls]

(* What one emulator knows: its call, its exclusive locks, its handles. *)
Call(p) ==
  /\ pc[p] \in OpenEx => arg[p] \in OpenArg /\ ex[arg[p].f] = p
  /\ pc[p] \in ModEx => arg[p] \in ModArg /\ ex[arg[p].f] = p
  /\ pc[p] \in {"inuse2", "rename"} => ex[arg[p].g] = p
  /\ pc[p] = "exlock" => arg[p] \in OpenArg \cup ModArg
  /\ pc[p] = "close" => arg[p] \in CloseArg
  /\ \A f \in File : ex[f] = p => pc[p] \notin {"idle", "exlock", "close"}
  /\ pc[p] \in {"probe", "claim"} => todo[p] \in Seq(Kinds)
  /\ pc[p] = "claim" => Range(todo[p]) \subseteq Range(Claims(arg[p].acc, arg[p].deny))
  /\ pc[p] = "loophole" => todo[p] # <<>>
EntryOK(p, s) ==
  LET h == tab[p][s]
  IN h # NoHandle =>
       /\ h.locks \subseteq
            {h.file} \cup {Emu(h.file, k) : k \in Range(Claims(h.acc, h.deny))}
       /\ h.st = "opening" => /\ Opening(p) /\ arg[p].slot = s
                              /\ h.file \notin h.locks
                              /\ pc[p] # "claim" => h.locks = {}
       /\ h.st = "open" => h.file \in h.locks
       /\ h.st = "closing" => pc[p] = "close" /\ arg[p].slot = s
Entries(p) ==
  /\ Opening(p) =>
       LET h == tab[p][arg[p].slot]
       IN /\ h # NoHandle /\ h.st = "opening"
          /\ h.file = arg[p].f /\ h.acc = arg[p].acc /\ h.deny = arg[p].deny
  /\ pc[p] = "close" => /\ tab[p][arg[p].slot] # NoHandle
                        /\ tab[p][arg[p].slot].st = "closing"
  /\ \A s \in Slot : EntryOK(p, s)

(* Nobody, or nobody but entry e, has locked a name. *)
Free(n) == \A q \in Proc, s \in Slot : tab[q][s] # NoHandle => n \notin tab[q][s].locks
FreeBut(p, t, n) ==
  \A q \in Proc, s \in Slot :
    tab[q][s] # NoHandle /\ (q # p \/ s # t) => n \notin tab[q][s].locks
NotOpen(f) ==
  \A q \in Proc, s \in Slot :
    tab[q][s] # NoHandle /\ tab[q][s].st = "open" => tab[q][s].file # f

(* What an emulator found out about the others still holds. *)
Known(p) ==
  /\ pc[p] = "probe" =>
       \A k \in Range(Probes(arg[p].acc, arg[p].deny)) :
         k \in Range(todo[p]) \/ Free(Emu(arg[p].f, k))
  /\ pc[p] = "claim" /\ (todo[p] # <<>> \/ tab[p][arg[p].slot].locks # {}) =>
       \A k \in Range(Probes(arg[p].acc, arg[p].deny)) :
         FreeBut(p, arg[p].slot, Emu(arg[p].f, k))
  /\ pc[p] \in Checked =>
       arg[p].force \/ (arg[p].f \in exists /\ (pc[p] = "modify" => NotOpen(arg[p].f)))
  /\ pc[p] = "rename" => arg[p].g \notin exists
(* Any two claimed handles on a file are a pair of the table. *)
Pairs ==
  \A e, d \in Entry : Sharing(e, d) /\ Claimed(At(e)) /\ Claimed(At(d))
     => Agree(At(e), At(d)) \/ Agree(At(d), At(e))

IInv ==
  /\ Types /\ Pairs
  /\ \A p \in Proc : Call(p) /\ Entries(p) /\ Known(p)

-----------------------------------------------------------------------------
(* The elements of the sequences that are walked from the head. *)
LEMMA RangeConcat ==
  ASSUME NEW S, NEW s \in Seq(S), NEW t \in Seq(S)
  PROVE  s \o t \in Seq(S) /\ Range(s \o t) = Range(s) \cup Range(t)
<1>1. /\ s \o t \in Seq(S) /\ Len(s \o t) = Len(s) + Len(t)
      /\ \A i \in 1 .. Len(s) : (s \o t)[i] = s[i]
      /\ \A i \in 1 .. Len(t) : (s \o t)[Len(s) + i] = t[i]
  OBVIOUS
<1>2. ASSUME NEW x \in Range(s) PROVE x \in Range(s \o t)
  BY <1>1, <1>2 DEF Range
<1>3. ASSUME NEW x \in Range(t) PROVE x \in Range(s \o t)
  <2>1. PICK i \in 1 .. Len(t) : x = t[i]
    BY <1>3 DEF Range
  <2>2. Len(s) + i \in 1 .. Len(s \o t) /\ (s \o t)[Len(s) + i] = x
    BY <1>1, <2>1
  <2> QED BY <2>2, <1>1 DEF Range
<1>4. ASSUME NEW x \in Range(s \o t) PROVE x \in Range(s) \cup Range(t)
  <2>1. PICK i \in 1 .. Len(s \o t) : x = (s \o t)[i]
    BY <1>1, <1>4 DEF Range
  <2>2. CASE i <= Len(s)
    BY <2>1, <2>2, <1>1 DEF Range
  <2>3. CASE i > Len(s)
    <3>1. i - Len(s) \in 1 .. Len(t) /\ x = t[i - Len(s)]
      BY <2>1, <2>3, <1>1
    <3> QED BY <3>1 DEF Range
  <2> QED BY <2>2, <2>3
<1> QED BY <1>1, <1>2, <1>3, <1>4, Zenon

(* Taking the head off the list of locks still to probe or to claim removes *)
(* just that lock from it.                                                  *)
LEMMA RangeTail ==
  ASSUME NEW S, NEW s \in Seq(S), s # <<>>
  PROVE  /\ Head(s) \in S /\ Tail(s) \in Seq(S) /\ Head(s) \in Range(s)
         /\ Range(s) = {Head(s)} \cup Range(Tail(s))
<1>1. /\ Len(s) > 0 /\ Tail(s) \in Seq(S) /\ Len(Tail(s)) = Len(s) - 1
      /\ Head(s) = s[1] /\ \A i \in 1 .. Len(s) - 1 : Tail(s)[i] = s[i + 1]
  OBVIOUS
<1>2. Head(s) \in S /\ Head(s) \in Range(s)
  BY <1>1 DEF Range
<1>3. ASSUME NEW x \in Range(Tail(s)) PROVE x \in Range(s)
  <2>1. PICK i \in 1 .. Len(s) - 1 : x = s[i + 1]
    BY <1>1, <1>3 DEF Range
  <2> QED BY <2>1 DEF Range
<1>4. ASSUME NEW x \in Range(s), x # Head(s) PROVE x \in Range(Tail(s))
  <2>1. PICK i \in 1 .. Len(s) : x = s[i]
    BY <1>4 DEF Range
  <2>2. i - 1 \in 1 .. Len(Tail(s)) /\ x = Tail(s)[i - 1]
    BY <2>1, <1>1, <1>4
  <2>3. DOMAIN Tail(s) = 1 .. Len(Tail(s))
    BY <1>1
  <2> QED BY <2>2, <2>3, Zenon DEF Range
<1> QED BY <1>1, <1>2, <1>3, <1>4, Zenon

(* The lists of an open are concatenations: their members are those of     *)
(* their parts.                                                            *)
LEMMA RangeConcat5 ==
  ASSUME NEW S, NEW c \in Seq(S), NEW u \in Seq(S), NEW v \in Seq(S), NEW w \in Seq(S),
         NEW x \in Seq(S)
  PROVE  /\ c \o u \o v \o w \o x \in Seq(S)
         /\ Range(c \o u \o v \o w \o x) =
              Range(c) \cup Range(u) \cup Range(v) \cup Range(w) \cup Range(x)
<1> DEFINE cu == c \o u
           cv == cu \o v
           cw == cv \o w
<1>1. cu \in Seq(S) /\ Range(cu) = Range(c) \cup Range(u)
  BY RangeConcat, ZenonT(40)
<1> HIDE DEF cu
<1>2. cv \in Seq(S) /\ Range(cv) = Range(cu) \cup Range(v)
  BY <1>1, RangeConcat
<1> HIDE DEF cv
<1>3. cw \in Seq(S) /\ Range(cw) = Range(cv) \cup Range(w)
  BY <1>2, RangeConcat
<1> HIDE DEF cw
<1>4. cw \o x \in Seq(S) /\ Range(cw \o x) = Range(cw) \cup Range(x)
  BY <1>3, RangeConcat
<1>5. cw \o x = c \o u \o v \o w \o x
  BY Zenon DEF cu, cv, cw
<1> QED BY <1>1, <1>2, <1>3, <1>4, <1>5, Zenon

(* The kinds that are probed and claimed, as sets. *)
On(b, k) == IF b THEN {k} ELSE {}
(* An optional lock is in the list exactly when its condition holds. *)
LEMMA KeepSeq ==
  ASSUME NEW a, NEW k \in Kinds
  PROVE  /\ Keep(Reads(a), k) \in Seq(Kinds) /\ Range(Keep(Reads(a), k)) = On(Reads(a), k)
         /\ Keep(Writes(a), k) \in Seq(Kinds) /\ Range(Keep(Writes(a), k)) = On(Writes(a), k)
         /\ Keep(DeniesR(a), k) \in Seq(Kinds) /\ Range(Keep(DeniesR(a), k)) = On(DeniesR(a), k)
         /\ Keep(DeniesW(a), k) \in Seq(Kinds) /\ Range(Keep(DeniesW(a), k)) = On(DeniesW(a), k)
<1>1. <<k>> \in Seq(Kinds) /\ <<>> \in Seq(Kinds) /\ Range(<<k>>) = {k} /\ Range(<<>>) = {}
  BY DEF Range
<1>2. Keep(Reads(a), k) \in Seq(Kinds) /\ Range(Keep(Reads(a), k)) = On(Reads(a), k)
  BY <1>1, Zenon DEF Keep, On
<1>3. Keep(Writes(a), k) \in Seq(Kinds) /\ Range(Keep(Writes(a), k)) = On(Writes(a), k)
  BY <1>1, Zenon DEF Keep, On
<1>4. Keep(DeniesR(a), k) \in Seq(Kinds) /\ Range(Keep(DeniesR(a), k)) = On(DeniesR(a), k)
  BY <1>1, Zenon DEF Keep, On
<1>5. Keep(DeniesW(a), k) \in Seq(Kinds) /\ Range(Keep(DeniesW(a), k)) = On(DeniesW(a), k)
  BY <1>1, Zenon DEF Keep, On
<1> QED BY <1>2, <1>3, <1>4, <1>5, Zenon

(* The locks open_compat and open_share probe for a mode of access and denial. *)
LEMMA ProbesSet ==
  ASSUME NEW a \in All, NEW d \in DenyModes
  PROVE  /\ Probes(a, d) \in Seq(Kinds) /\ Probes(a, d) # <<>>
         /\ Range(Probes(a, d)) =
              IF d = "compat" THEN {"noncompat"}
              ELSE {"compat"} \cup On(Reads(a), "denyR") \cup On(Writes(a), "denyW")
                   \cup On(DeniesR(d), "R") \cup On(DeniesW(d), "W")
<1> DEFINE u == Keep(Reads(a), "denyR")
           v == Keep(Writes(a), "denyW")
           w == Keep(DeniesR(d), "R")
           x == Keep(DeniesW(d), "W")
           c == <<"compat">>
           n == <<"noncompat">>
           l == c \o u \o v \o w \o x
<1>k. "denyR" \in Kinds /\ "denyW" \in Kinds /\ "R" \in Kinds /\ "W" \in Kinds
  BY Zenon DEF Kinds
<1>1. /\ u \in Seq(Kinds) /\ v \in Seq(Kinds) /\ w \in Seq(Kinds) /\ x \in Seq(Kinds)
      /\ Range(u) = On(Reads(a), "denyR") /\ Range(v) = On(Writes(a), "denyW")
      /\ Range(w) = On(DeniesR(d), "R") /\ Range(x) = On(DeniesW(d), "W")
  BY <1>k, KeepSeq, Zenon
<1>2. c \in Seq(Kinds) /\ n \in Seq(Kinds)
  BY DEF Kinds
<1>3. Range(c) = {"compat"} /\ Range(n) = {"noncompat"} /\ n # <<>> /\ Range(<<>>) = {}
  BY DEF Range
<1>4. Probes(a, d) = IF d = "compat" THEN n ELSE l
  BY Zenon DEF Probes
<1> HIDE DEF u, v, w, x, c, n
<1>5. /\ l \in Seq(Kinds)
      /\ Range(l) = Range(c) \cup Range(u) \cup Range(v) \cup Range(w) \cup Range(x)
  BY <1>1, <1>2, RangeConcat5
<1> HIDE DEF l
<1>6. l # <<>>
  BY <1>5, <1>3, Zenon
<1> QED BY <1>1, <1>2, <1>3, <1>4, <1>5, <1>6, Zenon

(* The locks open_compat and open_share claim for a mode of access and denial. *)
LEMMA ClaimsSet ==
  ASSUME NEW a \in All, NEW d \in DenyModes
  PROVE  /\ Claims(a, d) \in Seq(Kinds)
         /\ Range(Claims(a, d)) =
              {IF d = "compat" THEN "compat" ELSE "noncompat"}
              \cup On(Reads(a), "R") \cup On(Writes(a), "W")
              \cup On(DeniesR(d), "denyR") \cup On(DeniesW(d), "denyW")
<1> DEFINE u == Keep(Reads(a), "R")
           v == Keep(Writes(a), "W")
           w == Keep(DeniesR(d), "denyR")
           x == Keep(DeniesW(d), "denyW")
           m == IF d = "compat" THEN "compat" ELSE "noncompat"
           c == <<m>>
<1>k. /\ "denyR" \in Kinds /\ "denyW" \in Kinds /\ "R" \in Kinds /\ "W" \in Kinds
      /\ m \in Kinds
  BY Zenon DEF Kinds
<1>1. /\ u \in Seq(Kinds) /\ v \in Seq(Kinds) /\ w \in Seq(Kinds) /\ x \in Seq(Kinds)
      /\ Range(u) = On(Reads(a), "R") /\ Range(v) = On(Writes(a), "W")
      /\ Range(w) = On(DeniesR(d), "denyR") /\ Range(x) = On(DeniesW(d), "denyW")
  BY <1>k, KeepSeq, Zenon
<1>2. Claims(a, d) = c \o u \o v \o w \o x
  BY Zenon DEF Claims
<1> HIDE DEF m
<1>3. c \in Seq(Kinds) /\ Range(c) = {m}
  BY <1>k DEF Range
<1> HIDE DEF u, v, w, x, c
<1>4. /\ Claims(a, d) \in Seq(Kinds)
      /\ Range(Claims(a, d)) =
           Range(c) \cup Range(u) \cup Range(v) \cup Range(w) \cup Range(x)
  BY <1>1, <1>2, <1>3, RangeConcat5
<1>5. Range(Claims(a, d)) = {m} \cup On(Reads(a), "R") \cup On(Writes(a), "W")
              \cup On(DeniesR(d), "denyR") \cup On(DeniesW(d), "denyW")
  BY <1>1, <1>3, <1>4, Zenon
<1> QED BY <1>4, <1>5, Zenon DEF m

(* Which kind is probed, and which is claimed. *)
LEMMA WhichKinds ==
  ASSUME NEW a \in All, NEW d \in DenyModes
  PROVE  /\ "compat" \in Range(Probes(a, d)) <=> d # "compat"
         /\ "noncompat" \in Range(Probes(a, d)) <=> d = "compat"
         /\ "R" \in Range(Probes(a, d)) <=> d # "compat" /\ DeniesR(d)
         /\ "W" \in Range(Probes(a, d)) <=> d # "compat" /\ DeniesW(d)
         /\ "denyR" \in Range(Probes(a, d)) <=> d # "compat" /\ Reads(a)
         /\ "denyW" \in Range(Probes(a, d)) <=> d # "compat" /\ Writes(a)
         /\ "compat" \in Range(Claims(a, d)) <=> d = "compat"
         /\ "noncompat" \in Range(Claims(a, d)) <=> d # "compat"
         /\ "R" \in Range(Claims(a, d)) <=> Reads(a)
         /\ "W" \in Range(Claims(a, d)) <=> Writes(a)
         /\ "denyR" \in Range(Claims(a, d)) <=> DeniesR(d)
         /\ "denyW" \in Range(Claims(a, d)) <=> DeniesW(d)
         /\ Range(Probes(a, d)) \subseteq Kinds /\ Range(Claims(a, d)) \subseteq Kinds
<1>1. \A s \in Seq(Kinds) : Range(s) \subseteq Kinds
  BY DEF Range
<1> QED BY <1>1, ProbesSet, ClaimsSet DEF On

(* What is claimed by one open and not met by the probes of a second one   *)
(* admits the second one by the table of the test; with the loophole, the  *)
(* table says exactly what is admitted.                                    *)
Meets(a, d, b, e) == \E k \in Range(Probes(b, e)) : k \in Range(Claims(a, d))
Admits(a, d, b, e) ==
  \/ ~Meets(a, d, b, e)
  \/ /\ ~Writes(b) /\ ~DeniesR(e) /\ ~Writes(a)
     /\ IF e = "compat" THEN ~DeniesR(d) ELSE d = "compat"
(* do_mfs_open admits a second open beside a first exactly as the DOS table *)
(* does: probes that meet no claim, or the exception for readers.           *)
LEMMA TableExact ==
  ASSUME NEW a \in All, NEW d \in DenyModes, NEW b \in All, NEW e \in DenyModes
  PROVE  Admits(a, d, b, e) <=> <<e, b>> \in Admitted(d, a)
<1>1. Meets(a, d, b, e) <=>
        \E k \in Kinds : k \in Range(Probes(b, e)) /\ k \in Range(Claims(a, d))
  BY WhichKinds, Zenon DEF Meets
<1>2. Meets(a, d, b, e) <=>
        \/ "compat" \in Range(Probes(b, e)) /\ "compat" \in Range(Claims(a, d))
        \/ "noncompat" \in Range(Probes(b, e)) /\ "noncompat" \in Range(Claims(a, d))
        \/ "R" \in Range(Probes(b, e)) /\ "R" \in Range(Claims(a, d))
        \/ "W" \in Range(Probes(b, e)) /\ "W" \in Range(Claims(a, d))
        \/ "denyR" \in Range(Probes(b, e)) /\ "denyR" \in Range(Claims(a, d))
        \/ "denyW" \in Range(Probes(b, e)) /\ "denyW" \in Range(Claims(a, d))
  BY <1>1, Zenon DEF Kinds
<1>3. Meets(a, d, b, e) <=>
        \/ e # "compat" /\ d = "compat"
        \/ e = "compat" /\ d # "compat"
        \/ e # "compat" /\ DeniesR(e) /\ Reads(a)
        \/ e # "compat" /\ DeniesW(e) /\ Writes(a)
        \/ e # "compat" /\ Reads(b) /\ DeniesR(d)
        \/ e # "compat" /\ Writes(b) /\ DeniesW(d)
  BY <1>2, WhichKinds, Zenon
<1> QED
  <2> USE DEF Admits, Admitted, All, DenyModes, Reads, Writes, DeniesR, DeniesW
  <2>1. CASE d = "compat"
    BY <1>3, <2>1, Zenon
  <2>2. CASE d = "all"
    BY <1>3, <2>2, Zenon
  <2>3. CASE d = "write"
    BY <1>3, <2>3, Zenon
  <2>4. CASE d = "read"
    BY <1>3, <2>4, Zenon
  <2>5. CASE d = "none"
    BY <1>3, <2>5, Zenon
  <2> QED BY <2>1, <2>2, <2>3, <2>4, <2>5, Zenon

(* An open whose probes meet none of the locks a handle claimed is admitted *)
(* by the DOS table beside that handle.                                     *)
LEMMA TableSound ==
  ASSUME NEW a \in All, NEW d \in DenyModes, NEW b \in All, NEW e \in DenyModes,
         Range(Probes(b, e)) \cap Range(Claims(a, d)) = {}
  PROVE  <<e, b>> \in Admitted(d, a)
BY TableExact, Zenon DEF Admits, Meets

-----------------------------------------------------------------------------
(* The fields of an entry that is updated. *)
LEMMA SetLocks ==
  ASSUME NEW h \in Handle, NEW L \in SUBSET (File \cup (File \X Kinds))
  PROVE  /\ [h EXCEPT !.locks = L] \in Handle
         /\ [h EXCEPT !.locks = L].file = h.file
         /\ [h EXCEPT !.locks = L].acc = h.acc
         /\ [h EXCEPT !.locks = L].deny = h.deny
         /\ [h EXCEPT !.locks = L].st = h.st
         /\ [h EXCEPT !.locks = L].locks = L
BY Zenon DEF Handle
(* Changing the state of an entry leaves its other fields alone. *)
LEMMA SetState ==
  ASSUME NEW h \in Handle, NEW v \in {"opening", "open", "closing"}
  PROVE  /\ [h EXCEPT !.st = v] \in Handle
         /\ [h EXCEPT !.st = v].file = h.file
         /\ [h EXCEPT !.st = v].acc = h.acc
         /\ [h EXCEPT !.st = v].deny = h.deny
         /\ [h EXCEPT !.st = v].locks = h.locks
         /\ [h EXCEPT !.st = v].st = v
BY Zenon DEF Handle

(* The entry s of p becomes h; all others stay. *)
Becomes(p, s, h) ==
  /\ tab' \in [Proc -> [Slot -> Handle \cup {NoHandle}]]
  /\ tab'[p][s] = h
  /\ \A t \in Slot : t # s => tab'[p][t] = tab[p][t]
  /\ \A q \in Proc : q # p => tab'[q] = tab[q]
(* Storing an entry changes that entry of that emulator only. *)
LEMMA Update ==
  ASSUME Types, NEW p \in Proc, NEW s \in Slot, NEW h \in Handle \cup {NoHandle},
         tab' = [tab EXCEPT ![p][s] = h]
  PROVE  Becomes(p, s, h)
BY Zenon DEF Types, Becomes

(* What a step of p may make of its entry s: nothing, free it, claim it,   *)
(* lock one more name, open the file, or give a lock back.                 *)
Same(g, h) == /\ g \in Handle /\ h \in Handle
              /\ h.file = g.file /\ h.acc = g.acc /\ h.deny = g.deny
Adds(p, s) == /\ pc[p] = "claim" /\ s = arg[p].slot /\ todo[p] # <<>>
              /\ Same(tab[p][s], tab'[p][s]) /\ tab'[p][s].st = "opening"
              /\ tab'[p][s].locks = tab[p][s].locks \cup {Mine(p)}
Opens(p, s) == /\ pc[p] = "claim" /\ s = arg[p].slot /\ pc'[p] = "idle"
               /\ Same(tab[p][s], tab'[p][s]) /\ tab'[p][s].st = "open"
               /\ tab'[p][s].locks = tab[p][s].locks \cup {arg[p].f}
New(p, s) == /\ tab[p][s] = NoHandle /\ tab'[p][s] \in Handle
             /\ tab'[p][s].st = "opening" /\ tab'[p][s].locks = {}
             /\ pc'[p] = "exlock" /\ arg'[p] \in OpenArg /\ arg'[p].slot = s
             /\ tab'[p][s].file = arg'[p].f /\ tab'[p][s].acc = arg'[p].acc
             /\ tab'[p][s].deny = arg'[p].deny
Shuts(p, s) == /\ pc'[p] = "close" /\ arg'[p] \in CloseArg /\ arg'[p].slot = s
               /\ Same(tab[p][s], tab'[p][s]) /\ tab'[p][s].st = "closing"
               /\ tab'[p][s].locks \subseteq tab[p][s].locks
Change(p, s) ==
  \/ tab'[p][s] = tab[p][s] \/ tab'[p][s] = NoHandle
  \/ New(p, s) \/ Adds(p, s) \/ Opens(p, s) \/ Shuts(p, s)
TabStep(p) ==
  /\ tab' \in [Proc -> [Slot -> Handle \cup {NoHandle}]]
  /\ \A q \in Proc : q # p => tab'[q] = tab[q]
  /\ \A s \in Slot : Change(p, s)

(* A call that fails frees the entry it had claimed. *)
LEMMA FailFrees ==
  ASSUME Types, NEW p \in Proc, arg[p] \in OpenArg, Fail(p)
  PROVE  TabStep(p)
<1>1. arg[p].slot \in Slot
  BY Zenon DEF OpenArg
<1>2. Becomes(p, arg[p].slot, NoHandle)
  BY <1>1, Update, Zenon DEF Fail
<1> QED BY <1>1, <1>2, Zenon DEF Becomes, TabStep, Change

(* mfs_open and mfs_creat claim a free entry. *)
LEMMA ClaimsEntry ==
  ASSUME Types, NEW p \in Proc, NEW o \in {"open", "creat"}, NEW s \in Slot, NEW f \in File,
         NEW a \in All, NEW d \in DenyModes, Claim(p, s, f, a, d),
         Begin(p, [op |-> o, f |-> f, acc |-> a, deny |-> d, slot |-> s], "exlock")
  PROVE  New(p, s) /\ TabStep(p)
<1> DEFINE h == [file |-> f, acc |-> a, deny |-> d, locks |-> {}, st |-> "opening"]
           r == [op |-> o, f |-> f, acc |-> a, deny |-> d, slot |-> s]
<1>1. tab[p][s] = NoHandle
  BY Zenon DEF Claim, FirstFree
<1>2. h \in Handle /\ r \in OpenArg
  BY Zenon DEF Handle, OpenArg, All
<1>3. Becomes(p, s, h)
  BY <1>2, Update, Zenon DEF Claim
<1>4. arg'[p] = r /\ pc'[p] = "exlock"
  BY Zenon DEF Begin, Types, Goto
<1>5. New(p, s)
  BY <1>1, <1>2, <1>3, <1>4 DEF New, Becomes
<1> QED BY <1>3, <1>5, Zenon DEF Becomes, TabStep, Change

(* ClaimLock, OpenFile and the two steps of close change one entry. *)
LEMMA AddsLock ==
  ASSUME Types, NEW p \in Proc, Call(p), Entries(p), ClaimLock(p)
  PROVE  TabStep(p) /\ Adds(p, arg[p].slot)
<1> DEFINE s == arg[p].slot
           g == tab[p][s]
           L == g.locks \cup {Mine(p)}
           h == [g EXCEPT !.locks = L]
<1>1. /\ pc[p] = "claim" /\ todo[p] # <<>> /\ s \in Slot /\ g \in Handle
      /\ g.st = "opening" /\ g.file = arg[p].f /\ todo[p] \in Seq(Kinds)
  BY ZenonT(40) DEF ClaimLock, Call, Entries, Opening, OpenEx, OpenArg, Types
<1>2. Mine(p) \in File \X Kinds
  BY <1>1, RangeTail, Zenon DEF Mine, Emu, Handle
<1>3. L \in SUBSET (File \cup (File \X Kinds))
  BY <1>1, <1>2, Zenon DEF Handle
<1>4. tab' = [tab EXCEPT ![p][s] = h]
  BY Zenon DEF ClaimLock, AddLock
<1> HIDE DEF s, g, L
<1>5. /\ h \in Handle /\ h.file = g.file /\ h.acc = g.acc /\ h.deny = g.deny
      /\ h.st = g.st /\ h.locks = L
  BY <1>1, <1>3, SetLocks, Zenon
<1> HIDE DEF h
<1>6. Becomes(p, s, h)
  BY <1>1, <1>4, <1>5, Update, Zenon
<1>7. Adds(p, s)
  BY <1>1, <1>5, <1>6, Zenon DEF Adds, Becomes, Same, s, g, L
<1> QED BY <1>6, <1>7, Zenon DEF Becomes, TabStep, Change, s

(* The end of do_mfs_open locks the file name itself and opens the entry. *)
LEMMA OpensFile ==
  ASSUME Types, NEW p \in Proc, Call(p), Entries(p), OpenFile(p)
  PROVE  TabStep(p) /\ Opens(p, arg[p].slot)
<1> DEFINE s == arg[p].slot
           g == tab[p][s]
           L == g.locks \cup {arg[p].f}
           g1 == [g EXCEPT !.locks = L]
           h == [g1 EXCEPT !.st = "open"]
<1>1. /\ pc[p] = "claim" /\ s \in Slot /\ g \in Handle
      /\ g.st = "opening" /\ g.file = arg[p].f
  BY ZenonT(40) DEF OpenFile, Call, Entries, Opening, OpenEx, OpenArg, Types
<1>3. L \in SUBSET (File \cup (File \X Kinds))
  BY <1>1, Zenon DEF Handle
<1>4. tab' = [tab EXCEPT ![p][s] = h]
  BY <1>1, Zenon DEF OpenFile, Types
<1> HIDE DEF s, g, L
<1>5. /\ g1 \in Handle /\ g1.file = g.file /\ g1.acc = g.acc /\ g1.deny = g.deny
      /\ g1.locks = L
  BY <1>1, <1>3, SetLocks, Zenon
<1> HIDE DEF g1
<1>6. /\ h \in Handle /\ h.file = g.file /\ h.acc = g.acc /\ h.deny = g.deny
      /\ h.locks = L /\ h.st = "open"
  BY <1>5, SetState, Zenon
<1> HIDE DEF h
<1>7. Becomes(p, s, h)
  BY <1>1, <1>4, <1>6, Update, Zenon
<1>8. pc'[p] = "idle"
  BY Zenon DEF OpenFile, Return, Goto, Types
<1>9. Opens(p, s)
  BY <1>1, <1>6, <1>7, <1>8, Zenon DEF Opens, Becomes, Same, s, g, L
<1> QED BY <1>7, <1>9, Zenon DEF Becomes, TabStep, Change, s

(* mfs_close closes the descriptor of an entry, and its lock with it, before *)
(* the emulated locks.                                                       *)
LEMMA ClosesFile ==
  ASSUME Types, NEW p \in Proc, Call(p), Entries(p), mfs_close(p)
  PROVE  TabStep(p) /\ \E s \in Slot : Shuts(p, s) /\ tab[p][s].file \notin tab'[p][s].locks
<1> PICK s \in Slot :
      /\ pc[p] = "idle" /\ tab[p][s] # NoHandle
      /\ arg' = [arg EXCEPT ![p] = [op |-> "close", slot |-> s]]
      /\ tab' = [tab EXCEPT ![p][s].locks = @ \ {tab[p][s].file}, ![p][s].st = "closing"]
      /\ Goto(p, "close")
  BY Zenon DEF mfs_close
<1> DEFINE g == tab[p][s]
           L == g.locks \ {g.file}
           g1 == [g EXCEPT !.locks = L]
           h == [g1 EXCEPT !.st = "closing"]
<1>1. g \in Handle
  BY Zenon DEF Types
<1>3. L \in SUBSET (File \cup (File \X Kinds))
  BY <1>1, Zenon DEF Handle
<1>4. tab' = [tab EXCEPT ![p][s] = h]
  BY <1>1, Zenon DEF Types
<1>8. pc'[p] = "close" /\ arg'[p] \in CloseArg /\ arg'[p].slot = s
  BY Zenon DEF Goto, Types, CloseArg
<1> HIDE DEF g, L
<1>5. /\ g1 \in Handle /\ g1.file = g.file /\ g1.acc = g.acc /\ g1.deny = g.deny
      /\ g1.locks = L
  BY <1>1, <1>3, SetLocks, Zenon
<1> HIDE DEF g1
<1>6. /\ h \in Handle /\ h.file = g.file /\ h.acc = g.acc /\ h.deny = g.deny
      /\ h.locks = L /\ h.st = "closing"
  BY <1>5, SetState, Zenon
<1> HIDE DEF h
<1>7. Becomes(p, s, h)
  BY <1>4, <1>6, Update, Zenon
<1>9. Shuts(p, s) /\ tab[p][s].file \notin tab'[p][s].locks
  BY <1>1, <1>6, <1>7, <1>8, Zenon DEF Shuts, Becomes, Same, g, L
<1> QED BY <1>7, <1>9, Zenon DEF Becomes, TabStep, Change

(* The rest of mfs_close gives back one lock after the other and then frees *)
(* the entry.                                                               *)
LEMMA ClosesLock ==
  ASSUME Types, NEW p \in Proc, Call(p), Entries(p), CloseLock(p)
  PROVE  /\ TabStep(p)
         /\ \/ Becomes(p, arg[p].slot, NoHandle) /\ pc'[p] = "idle"
            \/ Shuts(p, arg[p].slot) /\ pc'[p] = "close" /\ arg'[p] = arg[p]
<1> DEFINE s == arg[p].slot
           g == tab[p][s]
           left == SelectSeq(LockOrder, LAMBDA k : Emu(g.file, k) \in g.locks)
           n == Emu(g.file, Head(left))
           L == g.locks \ {n}
           h == [g EXCEPT !.locks = L]
<1>1. /\ pc[p] = "close" /\ s \in Slot /\ g \in Handle /\ g.st = "closing"
      /\ arg[p] \in CloseArg
  BY SMTT(30) DEF CloseLock, Call, Entries, CloseArg, Types
<1>2. L \in SUBSET (File \cup (File \X Kinds))
  BY <1>1, Zenon DEF Handle
<1>3. \/ tab' = [tab EXCEPT ![p][s] = h] /\ pc' = pc /\ arg' = arg
      \/ tab' = [tab EXCEPT ![p][s] = NoHandle] /\ Goto(p, "idle")
  BY Zenon DEF CloseLock
<1>4. CASE tab' = [tab EXCEPT ![p][s] = h] /\ pc' = pc /\ arg' = arg
  <2> HIDE DEF s, g, L
  <2>1. /\ h \in Handle /\ h.file = g.file /\ h.acc = g.acc /\ h.deny = g.deny
        /\ h.st = g.st /\ h.locks = L
    BY <1>1, <1>2, SetLocks, Zenon
  <2> HIDE DEF h
  <2>2. Becomes(p, s, h)
    BY <1>1, <1>4, <2>1, Update, Zenon
  <2>3. Shuts(p, s)
    BY <1>1, <1>4, <2>1, <2>2, Zenon DEF Shuts, Becomes, Same, s, g, L
  <2> QED BY <2>2, <2>3, <1>1, <1>4, Zenon DEF Becomes, TabStep, Change, s
<1>5. CASE tab' = [tab EXCEPT ![p][s] = NoHandle] /\ Goto(p, "idle")
  <2> HIDE DEF s
  <2>1. Becomes(p, s, NoHandle)
    BY <1>1, <1>5, Update, Zenon
  <2>2. pc'[p] = "idle"
    BY <1>5, Zenon DEF Goto, Types
  <2> QED BY <2>1, <2>2, Zenon DEF Becomes, TabStep, Change, s
<1> QED BY <1>3, <1>4, <1>5, Zenon

(* Every step changes its own entries in one of these ways. *)
LEMMA TabSteps ==
  ASSUME Types, NEW p \in Proc, Call(p), Entries(p), Step(p) \/ Crash(p)
  PROVE  TabStep(p)
<1>1. CASE mfs_open(p)
  <2>1. Access \subseteq All /\ Deny \subseteq DenyModes
    BY ShareAssumption, Zenon DEF All
  <2> QED BY <1>1, <2>1, ClaimsEntry, Zenon DEF mfs_open
<1>2. CASE mfs_creat(p)
  BY <1>2, ClaimsEntry, Zenon DEF mfs_creat, All, DenyModes
<1>3. CASE ProbeRefused(p) \/ ProbeLoophole(p) \/ OpenFails(p)
  <2>1. arg[p] \in OpenArg
    BY <1>3, Zenon DEF ProbeRefused, ProbeLoophole, OpenFails, Call, OpenEx
  <2>2. Fail(p) \/ UNCHANGED tab
    BY <1>3, Zenon DEF ProbeRefused, ProbeLoophole, OpenFails
  <2> QED BY <2>1, <2>2, FailFrees, Zenon DEF TabStep, Change, Types
<1>4. CASE \/ Probe(p) \/ mfs_unlink(p) \/ mfs_setattr(p) \/ mfs_rename(p) \/ InUse(p)
           \/ ModifyFile(p) \/ ExLock2(p) \/ InUse2(p) \/ Rename(p) \/ ExLock(p)
  <2>1. UNCHANGED tab
    BY <1>4, Zenon DEF Probe, mfs_unlink, mfs_setattr, mfs_rename, Modify, InUse, ModifyFile,
                ExLock2, InUse2, Rename, ExLock
  <2> QED BY <2>1, Zenon DEF TabStep, Change, Types
<1>5. CASE Crash(p)
  BY <1>5, Zenon DEF Crash, TabStep, Change, Types
<1> QED BY <1>1, <1>2, <1>3, <1>4, <1>5, AddsLock, OpensFile, ClosesFile, ClosesLock, Zenon
        DEF Step, OpenCall, ModifyCall, CloseCall

(* What one emulator does leaves the calls and the entries of the others   *)
(* and their exclusive locks alone.                                        *)
LEMMA OthersKept ==
  ASSUME IInv, NEW p \in Proc, NEW q \in Proc, p # q, Step(p) \/ Crash(p)
  PROVE  /\ pc'[q] = pc[q] /\ arg'[q] = arg[q] /\ todo'[q] = todo[q] /\ tab'[q] = tab[q]
         /\ \A f \in File : ex'[f] = q <=> ex[f] = q
         /\ \A f \in File : ex[f] = q => (f \in exists' <=> f \in exists)
<1> USE DEF IInv, Types, Goto
<1>t. tab'[q] = tab[q]
  BY TabSteps, Zenon DEF TabStep
<1>n. q # Nobody
  BY ShareAssumption, Zenon
<1>1. CASE mfs_open(p) \/ mfs_creat(p) \/ mfs_unlink(p) \/ mfs_setattr(p) \/ mfs_rename(p)
  BY <1>1, <1>t, Zenon DEF mfs_open, mfs_creat, mfs_unlink, mfs_setattr, mfs_rename, Modify, Begin
<1>2. CASE ExLock(p)
  <2>1. arg[p].f \in File
    BY <1>2, Zenon DEF ExLock, Call, OpenArg, ModArg
  <2> QED BY <1>2, <1>t, <1>n, <2>1, Zenon DEF ExLock
<1>3. CASE ExLock2(p)
  <2>1. arg[p].g \in File
    BY <1>3, Zenon DEF ExLock2, Call, ModEx, ModArg
  <2> QED BY <1>3, <1>t, <1>n, <2>1, Zenon DEF ExLock2
<1>4. CASE Probe(p) \/ ClaimLock(p) \/ mfs_close(p) \/ CloseLock(p)
  BY <1>4, <1>t, Zenon DEF Probe, ClaimLock, mfs_close, CloseLock
<1>5. CASE ProbeRefused(p) \/ ProbeLoophole(p) \/ OpenFails(p) \/ Crash(p)
  BY <1>5, <1>t, <1>n, Zenon DEF ProbeRefused, ProbeLoophole, OpenFails, Crash, Fail, Return
<1>6. CASE InUse(p) \/ InUse2(p)
  BY <1>6, <1>t, <1>n DEF InUse, InUse2, Return
<1>7. CASE OpenFile(p)
  <2>1. ex[arg[p].f] = p
    BY <1>7, Zenon DEF OpenFile, Call, OpenEx
  <2> QED BY <1>7, <1>t, <1>n, <2>1, Zenon DEF OpenFile, Return
<1>8. CASE ModifyFile(p)
  <2>1. ex[arg[p].f] = p
    BY <1>8, Zenon DEF ModifyFile, Call, ModEx
  <2> QED BY <1>8, <1>t, <1>n, <2>1, Zenon DEF ModifyFile, Return
<1>9. CASE Rename(p)
  <2>1. ex[arg[p].f] = p /\ ex[arg[p].g] = p
    BY <1>9, Zenon DEF Rename, Call, ModEx
  <2> QED BY <1>9, <1>t, <1>n, <2>1, Zenon DEF Rename, Return
<1> QED BY <1>1, <1>2, <1>3, <1>4, <1>5, <1>6, <1>7, <1>8, <1>9, Zenon
        DEF Step, OpenCall, ModifyCall, CloseCall

(* The arguments of a call and what it goes through keep their types. *)
LEMMA BeginTypes ==
  ASSUME Types, NEW p \in Proc, NEW a \in Args, Begin(p, a, "exlock")
  PROVE  /\ exists' \subseteq File /\ ex' \in [File -> Proc \cup {Nobody}]
         /\ pc' \in [Proc -> Locations] /\ arg' \in [Proc -> Args]
         /\ todo' \in [Proc -> Seq(Kinds \cup (Kinds \X BOOLEAN))]
         /\ calls' \in [Proc -> 0 .. MaxCalls]
         /\ pc'[p] = "exlock" /\ arg'[p] = a /\ ex' = ex /\ pc[p] = "idle"
BY ShareAssumption DEF Begin, Types, Goto, Locations

(* A call that returns leaves no exclusive lock behind. *)
LEMMA ReturnTypes ==
  ASSUME Types, NEW p \in Proc, Return(p)
  PROVE  /\ ex' \in [File -> Proc \cup {Nobody}]
         /\ pc' \in [Proc -> Locations] /\ arg' \in [Proc -> Args]
         /\ todo' \in [Proc -> Seq(Kinds \cup (Kinds \X BOOLEAN))]
         /\ pc'[p] = "idle" /\ \A f \in File : ex'[f] # p
<1>1. ex' \in [File -> Proc \cup {Nobody}] /\ \A f \in File : ex'[f] # p
  BY ShareAssumption, Zenon DEF Return, Types
<1>2. /\ pc' \in [Proc -> Locations] /\ pc'[p] = "idle"
  BY Zenon DEF Return, Types, Goto, Locations
<1>3. arg' \in [Proc -> Args]
  BY Zenon DEF Return, Types, Args
<1>4. todo' \in [Proc -> Seq(Kinds \cup (Kinds \X BOOLEAN))]
  BY DEF Return, Types
<1> QED BY <1>1, <1>2, <1>3, <1>4, Zenon

(* Which calls begin with which arguments. *)
LEMMA Begins ==
  ASSUME Types, NEW p \in Proc,
         mfs_open(p) \/ mfs_creat(p) \/ mfs_unlink(p) \/ mfs_setattr(p) \/ mfs_rename(p)
  PROVE  \/ \E a \in OpenArg : Begin(p, a, "exlock") /\ New(p, a.slot)
         \/ \E a \in ModArg : Begin(p, a, "exlock") /\ UNCHANGED tab
<1>0. Access \subseteq All /\ Deny \subseteq DenyModes
  BY ShareAssumption, Zenon DEF All
<1>1. ASSUME NEW o \in {"open", "creat"}, NEW s \in Slot, NEW f \in File, NEW a \in All,
             NEW d \in DenyModes, Claim(p, s, f, a, d),
             Begin(p, [op |-> o, f |-> f, acc |-> a, deny |-> d, slot |-> s], "exlock")
      PROVE  \E b \in OpenArg : Begin(p, b, "exlock") /\ New(p, b.slot)
  <2> DEFINE b == [op |-> o, f |-> f, acc |-> a, deny |-> d, slot |-> s]
  <2>1. New(p, s)
    BY <1>1, ClaimsEntry, Zenon
  <2>2. b \in OpenArg /\ b.slot = s /\ Begin(p, b, "exlock")
    BY <1>1, Zenon DEF OpenArg
  <2> HIDE DEF b
  <2> QED BY <2>1, <2>2, Zenon
<1>2. CASE mfs_open(p)
  BY <1>0, <1>1, <1>2, Zenon DEF mfs_open
<1>3. CASE mfs_creat(p)
  BY <1>1, <1>3, Zenon DEF mfs_creat, All, DenyModes
<1>4. ASSUME NEW o \in {"unlink", "setattr", "rename"}, NEW f \in File, NEW g \in File,
             Modify(p, o, f, g)
      PROVE  \E a \in ModArg : Begin(p, a, "exlock") /\ UNCHANGED tab
  <2> DEFINE frc == OwnHandles(p, f) # {}
             a == [op |-> o, f |-> f, g |-> g, force |-> frc]
  <2>1. frc \in BOOLEAN
    BY Zenon
  <2>2. Begin(p, a, "exlock") /\ UNCHANGED tab
    BY <1>4, Zenon DEF Modify
  <2>3. a \in ModArg
    <3> HIDE DEF frc
    <3> QED BY <1>4, <2>1, Zenon DEF ModArg
  <2> HIDE DEF a
  <2> QED BY <2>2, <2>3, Zenon
<1>5. CASE mfs_unlink(p) \/ mfs_setattr(p) \/ mfs_rename(p)
  <2>1. exists \subseteq File
    BY Zenon DEF Types
  <2> QED BY <1>4, <1>5, <2>1, Zenon DEF mfs_unlink, mfs_setattr, mfs_rename
<1> QED BY <1>2, <1>3, <1>5, Zenon

(* Types are kept. *)
LEMMA NextTypes ==
  ASSUME IInv, NEW p \in Proc, Step(p) \/ Crash(p)
  PROVE  Types'
<1>t. Types /\ Call(p) /\ Entries(p)
  BY Zenon DEF IInv
<1>s. tab' \in [Proc -> [Slot -> Handle \cup {NoHandle}]]
  BY <1>t, TabSteps, Zenon DEF TabStep
<1>1. CASE mfs_open(p) \/ mfs_creat(p) \/ mfs_unlink(p) \/ mfs_setattr(p) \/ mfs_rename(p)
  <2>1. PICK a \in Args : Begin(p, a, "exlock")
    BY <1>1, <1>t, Begins, Zenon DEF Args
  <2> QED BY <2>1, <1>t, <1>s, BeginTypes, Zenon DEF Types
<1>2. CASE ExLock(p)
  <2>1. arg[p] \in OpenArg \cup ModArg
    BY <1>2, <1>t, Zenon DEF ExLock, Call
  <2>2. ex' \in [File -> Proc \cup {Nobody}]
    BY <1>2, <1>t, Zenon DEF ExLock, Types
  <2>3. todo' \in [Proc -> Seq(Kinds \cup (Kinds \X BOOLEAN))]
    <3>1. CASE arg[p].op \in {"open", "creat"}
      <4>1. arg[p] \in OpenArg
        BY <3>1, <2>1, Zenon DEF OpenArg, ModArg
      <4>2. Probes(arg[p].acc, arg[p].deny) \in Seq(Kinds)
        BY <4>1, ProbesSet, Zenon DEF OpenArg
      <4>3. \A s \in Seq(Kinds) : s \in Seq(Kinds \cup (Kinds \X BOOLEAN))
        OBVIOUS
      <4> QED BY <4>2, <4>3, <3>1, <1>2, <1>t, Zenon DEF ExLock, Types
    <3>2. CASE arg[p].op \notin {"open", "creat"}
      BY <3>2, <1>2, <1>t, Zenon DEF ExLock, Types
    <3> QED BY <3>1, <3>2, Zenon
  <2> QED BY <1>2, <1>t, <2>2, <2>3, Zenon DEF ExLock, Types, Goto, Locations
<1>3. CASE Probe(p) \/ ClaimLock(p)
  <2>1. /\ todo[p] \in Seq(Kinds) /\ todo[p] # <<>> /\ arg[p] \in OpenArg
    BY <1>3, <1>t, Zenon DEF Probe, ClaimLock, Call, OpenEx
  <2>2. Tail(todo[p]) \in Seq(Kinds) /\ Claims(arg[p].acc, arg[p].deny) \in Seq(Kinds)
    BY <2>1, ClaimsSet DEF OpenArg
  <2>3. \A s \in Seq(Kinds) : s \in Seq(Kinds \cup (Kinds \X BOOLEAN))
    OBVIOUS
  <2>4. todo' \in [Proc -> Seq(Kinds \cup (Kinds \X BOOLEAN))]
    BY <2>2, <2>3, <1>3, <1>t, Zenon DEF Probe, ClaimLock, Types
  <2> QED BY <1>3, <1>t, <1>s, <2>4, Zenon DEF Probe, ClaimLock, Types, Goto, Locations
<1>4. CASE ProbeRefused(p)
  <2>1. Loophole(arg[p].acc, arg[p].deny) \in Seq(Kinds \cup (Kinds \X BOOLEAN))
    <3> DEFINE S == Kinds \cup (Kinds \X BOOLEAN)
    <3>1. \A x, y \in S : <<x, y>> \in Seq(S)
      OBVIOUS
    <3>2. <<"denyR", FALSE>> \in S /\ <<"W", FALSE>> \in S /\ <<"compat", TRUE>> \in S
      BY Zenon DEF Kinds
    <3> HIDE DEF S
    <3>3. <<>> \in Seq(S)
      OBVIOUS
    <3>4. /\ <<<<"denyR", FALSE>>, <<"W", FALSE>>>> \in Seq(S)
          /\ <<<<"compat", TRUE>>, <<"W", FALSE>>>> \in Seq(S)
      BY <3>1, <3>2, Zenon
    <3>5. Loophole(arg[p].acc, arg[p].deny) \in Seq(S)
      BY <3>3, <3>4, Zenon DEF Loophole
    <3> QED BY <3>5, Zenon DEF S
  <2>2. CASE Fail(p)
    BY <2>2, <1>4, <1>t, <1>s, ReturnTypes, Zenon DEF ProbeRefused, Fail, Types
  <2>3. CASE ~Fail(p)
    BY <2>3, <2>1, <1>4, <1>t, <1>s, Zenon DEF ProbeRefused, Types, Goto, Locations
  <2> QED BY <2>2, <2>3, Zenon
<1>5. CASE ProbeLoophole(p)
  <2>1. Tail(todo[p]) \in Seq(Kinds \cup (Kinds \X BOOLEAN))
    BY <1>5, <1>t DEF ProbeLoophole, Call, Types
  <2>2. CASE Fail(p)
    BY <2>2, <1>5, <1>t, <1>s, ReturnTypes, Zenon DEF ProbeLoophole, Fail, Types
  <2>3. CASE ~Fail(p)
    BY <2>3, <2>1, <1>5, <1>t, <1>s, Zenon DEF ProbeLoophole, Types, Goto, Locations
  <2> QED BY <2>2, <2>3, Zenon
<1>6. CASE OpenFails(p) \/ Crash(p) \/ OpenFile(p) \/ ModifyFile(p) \/ Rename(p)
  <2>1. exists' \subseteq File
    BY <1>6, <1>t, Zenon DEF OpenFails, Crash, OpenFile, ModifyFile, Rename, Types, Call, OpenArg,
                      ModArg, OpenEx, ModEx
  <2>2. Return(p) /\ UNCHANGED calls
    BY <1>6, Zenon DEF OpenFails, Crash, OpenFile, ModifyFile, Rename, Fail
  <2> QED BY <2>1, <2>2, <1>t, <1>s, ReturnTypes, Zenon DEF Types
<1>7. CASE InUse(p) \/ InUse2(p)
  <2>1. CASE Return(p)
    BY <2>1, <1>7, <1>t, <1>s, ReturnTypes, Zenon DEF InUse, InUse2, Types
  <2>2. CASE ~Return(p)
    BY <2>2, <1>7, <1>t, <1>s, Zenon DEF InUse, InUse2, Types, Goto, Locations
  <2> QED BY <2>1, <2>2, Zenon
<1>8. CASE ExLock2(p)
  <2>1. ex' \in [File -> Proc \cup {Nobody}]
    BY <1>8, <1>t, Zenon DEF ExLock2, Types
  <2> QED BY <2>1, <1>8, <1>t, Zenon DEF ExLock2, Types, Goto, Locations
<1>9. CASE mfs_close(p)
  <2>1. \A s \in Slot : [op |-> "close", slot |-> s] \in Args
    BY Zenon DEF Args, CloseArg
  <2>2. PICK s \in Slot : arg' = [arg EXCEPT ![p] = [op |-> "close", slot |-> s]]
    BY <1>9, Zenon DEF mfs_close
  <2> DEFINE a == [op |-> "close", slot |-> s]
  <2>3. a \in Args /\ arg' = [arg EXCEPT ![p] = a]
    BY <2>1, <2>2, Zenon
  <2> HIDE DEF a
  <2>4. arg' \in [Proc -> Args]
    BY <2>3, <1>t, Zenon DEF Types
  <2> QED BY <2>4, <1>9, <1>t, <1>s, Zenon DEF mfs_close, Types, Goto, Locations
<1>10. CASE CloseLock(p)
  <2>1. NoArg \in Args
    BY Zenon DEF Args
  <2> QED BY <2>1, <1>10, <1>t, <1>s, Zenon DEF CloseLock, Types, Goto, Locations
<1> QED BY <1>1, <1>2, <1>3, <1>4, <1>5, <1>6, <1>7, <1>8, <1>9, <1>10, Zenon
        DEF Step, OpenCall, ModifyCall, CloseCall

(* An emulator in a call has the exclusive lock of the names it works on.  *)
LEMMA ReturnCall ==
  ASSUME Types, NEW p \in Proc, Return(p)
  PROVE  Call(p)'
<1>1. pc'[p] = "idle" /\ \A f \in File : ex'[f] # p
  BY ReturnTypes, Zenon
<1> QED BY <1>1, Zenon DEF Call, OpenEx, ModEx

(* What is known of a call (its location, arguments and exclusive locks) is *)
(* kept by every step of the call.                                          *)
LEMMA OwnCall ==
  ASSUME IInv, NEW p \in Proc, Step(p) \/ Crash(p)
  PROVE  Call(p)'
<1>t. Types /\ Call(p) /\ Entries(p)
  BY Zenon DEF IInv
<1>1. CASE mfs_open(p) \/ mfs_creat(p) \/ mfs_unlink(p) \/ mfs_setattr(p) \/ mfs_rename(p)
  <2>1. PICK a \in OpenArg \cup ModArg : Begin(p, a, "exlock")
    BY <1>1, <1>t, Begins, Zenon
  <2>2. pc'[p] = "exlock" /\ arg'[p] = a /\ ex' = ex /\ pc[p] = "idle"
    BY <2>1, <1>t, BeginTypes, Zenon DEF Args
  <2> QED BY <2>1, <2>2, <1>t, Zenon DEF Call, OpenEx, ModEx
<1>2. CASE ExLock(p)
  <2>1. /\ arg[p] \in OpenArg \cup ModArg /\ arg[p].f \in File /\ pc[p] = "exlock"
        /\ arg' = arg
    BY <1>2, <1>t, Zenon DEF ExLock, Call, OpenArg, ModArg
  <2>2. ex'[arg[p].f] = p
    BY <2>1, <1>2, <1>t, Zenon DEF ExLock, Types
  <2>3. CASE arg[p].op \in {"open", "creat"}
    <3>1. arg[p] \in OpenArg /\ pc'[p] = "probe"
          /\ todo'[p] = Probes(arg[p].acc, arg[p].deny)
      BY <2>1, <2>3, <1>2, <1>t, Zenon DEF ExLock, OpenArg, ModArg, Goto, Types
    <3>2. todo'[p] \in Seq(Kinds)
      BY <3>1, ProbesSet, Zenon DEF OpenArg
    <3> QED BY <2>1, <2>2, <3>1, <3>2, Zenon DEF Call, OpenEx, ModEx
  <2>4. CASE arg[p].op \notin {"open", "creat"}
    <3>1. arg[p] \in ModArg /\ pc'[p] = "inuse"
      BY <2>1, <2>4, <1>2, <1>t, Zenon DEF ExLock, OpenArg, ModArg, Goto, Types
    <3> QED BY <2>1, <2>2, <3>1, Zenon DEF Call, OpenEx, ModEx
  <2> QED BY <2>3, <2>4, Zenon
<1>3. CASE Probe(p)
  <2>1. /\ todo[p] \in Seq(Kinds) /\ todo[p] # <<>> /\ arg[p] \in OpenArg /\ arg' = arg
        /\ ex' = ex /\ ex[arg[p].f] = p
    BY <1>3, <1>t, Zenon DEF Probe, Call, OpenEx
  <2>2. CASE Tail(todo[p]) # <<>>
    <3>1. pc'[p] = "probe" /\ todo'[p] = Tail(todo[p])
      BY <2>2, <1>3, <1>t, Zenon DEF Probe, Types
    <3>2. todo'[p] \in Seq(Kinds)
      BY <2>1, <3>1
    <3> QED BY <2>1, <3>1, <3>2, Zenon DEF Call, OpenEx, ModEx
  <2>3. CASE Tail(todo[p]) = <<>>
    <3>1. pc'[p] = "claim" /\ todo'[p] = Claims(arg[p].acc, arg[p].deny)
      BY <2>3, <1>3, <1>t, Zenon DEF Probe, Types, Goto
    <3>2. todo'[p] \in Seq(Kinds)
      BY <2>1, <3>1, ClaimsSet, Zenon DEF OpenArg
    <3> QED BY <2>1, <3>1, <3>2, Zenon DEF Call, OpenEx, ModEx
  <2> QED BY <2>2, <2>3, Zenon
<1>4. CASE ProbeRefused(p)
  <2>1. CASE Fail(p)
    BY <2>1, <1>t, ReturnCall, Zenon DEF Fail
  <2>2. CASE ~Fail(p)
    <3>1. /\ pc'[p] = "loophole" /\ todo'[p] # <<>> /\ ex' = ex /\ arg' = arg
          /\ pc[p] = "probe"
      BY <2>2, <1>4, <1>t, Zenon DEF ProbeRefused, Types, Goto
    <3> QED BY <3>1, <1>t, Zenon DEF Call, OpenEx, ModEx
  <2> QED BY <2>1, <2>2, Zenon
<1>5. CASE ProbeLoophole(p)
  <2>1. CASE Fail(p)
    BY <2>1, <1>t, ReturnCall, Zenon DEF Fail
  <2>2. CASE ~Fail(p)
    <3>1. /\ pc[p] = "loophole" /\ ex' = ex /\ arg' = arg /\ todo'[p] = Tail(todo[p])
          /\ \/ pc'[p] = "loophole" /\ Tail(todo[p]) # <<>>
             \/ pc'[p] = "claim" /\ Tail(todo[p]) = <<>>
      BY <2>2, <1>5, <1>t, Zenon DEF ProbeLoophole, Types, Goto
    <3>2. Range(<<>>) = {} /\ <<>> \in Seq(Kinds)
      BY DEF Range
    <3> QED BY <3>1, <3>2, <1>t, Zenon DEF Call, OpenEx, ModEx
  <2> QED BY <2>1, <2>2, Zenon
<1>6. CASE ClaimLock(p)
  <2>1. /\ todo[p] \in Seq(Kinds) /\ todo[p] # <<>> /\ pc[p] = "claim" /\ pc' = pc
        /\ ex' = ex /\ arg' = arg /\ todo'[p] = Tail(todo[p])
    BY <1>6, <1>t, Zenon DEF ClaimLock, Call, Types
  <2>2. todo'[p] \in Seq(Kinds) /\ Range(todo'[p]) \subseteq Range(todo[p])
    BY <2>1, RangeTail, Zenon
  <2> QED BY <2>1, <2>2, <1>t, Zenon DEF Call, OpenEx, ModEx
<1>7. CASE OpenFails(p) \/ Crash(p) \/ OpenFile(p) \/ ModifyFile(p) \/ Rename(p)
  <2>1. Return(p)
    BY <1>7, Zenon DEF OpenFails, Crash, OpenFile, ModifyFile, Rename, Fail
  <2> QED BY <2>1, <1>t, ReturnCall, Zenon
<1>8. CASE InUse(p) \/ InUse2(p)
  <2>1. CASE Return(p)
    BY <2>1, <1>t, ReturnCall, Zenon
  <2>2. CASE ~Return(p)
    <3>1. /\ ex' = ex /\ arg' = arg
          /\ \/ pc[p] = "inuse" /\ pc'[p] \in {"exlock2", "modify"}
             \/ pc[p] = "inuse2" /\ pc'[p] = "rename"
      BY <2>2, <1>8, <1>t, Zenon DEF InUse, InUse2, Types, Goto
    <3> QED BY <3>1, <1>t, Zenon DEF Call, OpenEx, ModEx
  <2> QED BY <2>1, <2>2, Zenon
<1>9. CASE ExLock2(p)
  <2>1. /\ pc[p] = "exlock2" /\ pc'[p] = "inuse2" /\ arg' = arg /\ arg[p] \in ModArg
        /\ arg[p].g \in File /\ arg[p].f \in File
    BY <1>9, <1>t, Zenon DEF ExLock2, Call, ModEx, ModArg, Types, Goto
  <2>2. ex'[arg[p].g] = p /\ ex'[arg[p].f] = p
    BY <2>1, <1>9, <1>t, Zenon DEF ExLock2, Call, ModEx, Types
  <2> QED BY <2>1, <2>2, Zenon DEF Call, OpenEx, ModEx
<1>10. CASE mfs_close(p)
  <2>1. pc[p] = "idle" /\ pc'[p] = "close" /\ ex' = ex
    BY <1>10, <1>t, Zenon DEF mfs_close, Goto, Types
  <2>2. arg'[p] \in CloseArg
    BY <1>10, <1>t, ClosesFile, Zenon DEF Shuts
  <2> QED BY <2>1, <2>2, <1>t, Zenon DEF Call, OpenEx, ModEx
<1>11. CASE CloseLock(p)
  <2>1. /\ pc[p] = "close" /\ ex' = ex
        /\ pc'[p] = "idle" \/ (pc'[p] = "close" /\ arg'[p] = arg[p])
    BY <1>11, <1>t, ClosesLock, Zenon DEF CloseLock
  <2> QED BY <2>1, <1>t, Zenon DEF Call, OpenEx, ModEx
<1> QED BY <1>1, <1>2, <1>3, <1>4, <1>5, <1>6, <1>7, <1>8, <1>9, <1>10, <1>11, Zenon
        DEF Step, OpenCall, ModifyCall, CloseCall

(* An open holds an OpenArg, the other calls do not. *)
LEMMA ArgsDiffer ==
  ASSUME NEW a \in OpenArg
  PROVE  a \notin ModArg /\ a \notin CloseArg
BY Zenon DEF OpenArg, ModArg, CloseArg

(* The entries of an emulator that stay are right if the call goes on with *)
(* the same entry, or had none.                                            *)
LEMMA EntryStays ==
  ASSUME NEW p \in Proc, NEW s \in Slot, EntryOK(p, s), tab'[p][s] = tab[p][s],
         \/ tab[p][s].st = "open"
         \/ /\ Opening(p) => Opening(p)' /\ arg'[p] = arg[p]
            /\ pc[p] # "claim" \/ pc'[p] = "claim"
            /\ pc[p] = "close" => pc'[p] = "close" /\ arg'[p] = arg[p]
  PROVE  EntryOK(p, s)'
<1>1. ~tab[p][s] # NoHandle \/ tab[p][s] # NoHandle
  BY Zenon
<1> QED BY <1>1, Zenon DEF EntryOK

(* Entries other than the one a call works on are open. *)
LEMMA EntryOpen ==
  ASSUME Types, NEW p \in Proc, Entries(p), NEW s \in Slot, tab[p][s] # NoHandle,
         \/ ~Opening(p) /\ pc[p] # "close"
         \/ Opening(p) /\ s # arg[p].slot /\ pc[p] # "close"
         \/ pc[p] = "close" /\ s # arg[p].slot
  PROVE  tab[p][s].st = "open"
<1>1. tab[p][s] \in Handle /\ EntryOK(p, s)
  BY DEF Types, Entries
<1>2. pc[p] = "close" => ~Opening(p)
  BY Zenon DEF Opening, OpenEx
<1> QED BY <1>1, <1>2, Zenon DEF EntryOK, Handle

(* A call that ends without an entry, or frees the one it had. *)
LEMMA EndEntries ==
  ASSUME Types, NEW p \in Proc, Entries(p), pc'[p] = "idle",
         \/ tab' = tab /\ ~Opening(p) /\ pc[p] # "close"
         \/ Becomes(p, arg[p].slot, NoHandle) /\ (Opening(p) \/ pc[p] = "close")
  PROVE  Entries(p)'
<1>1. ~Opening(p)' /\ pc'[p] # "close"
  BY Zenon DEF Opening, OpenEx
<1>2. ASSUME NEW s \in Slot PROVE EntryOK(p, s)'
  <2>1. CASE tab'[p][s] = NoHandle
    BY <2>1, Zenon DEF EntryOK
  <2>2. CASE tab'[p][s] # NoHandle
    <3>1. tab'[p][s] = tab[p][s]
      BY <2>2, Zenon DEF Becomes
    <3>2. tab[p][s].st = "open"
      BY <2>2, <3>1, EntryOpen, Zenon DEF Becomes
    <3> QED BY <3>1, <3>2, EntryStays, Zenon DEF Entries
  <2> QED BY <2>1, <2>2, Zenon
<1> QED BY <1>1, <1>2, Zenon DEF Entries

(* A call that goes on with the same entries. *)
LEMMA SameEntries ==
  ASSUME Types, NEW p \in Proc, Entries(p), tab' = tab, arg'[p] = arg[p],
         Opening(p)' <=> Opening(p), pc[p] # "claim", pc[p] # "close", pc'[p] # "close"
  PROVE  Entries(p)'
<1>1. ASSUME NEW s \in Slot PROVE EntryOK(p, s)'
  BY EntryStays, Zenon DEF Entries
<1> QED BY <1>1, Zenon DEF Entries

(* A refused open frees the entry it had claimed. *)
LEMMA FailEntries ==
  ASSUME Types, NEW p \in Proc, Entries(p), Opening(p), arg[p] \in OpenArg, Fail(p)
  PROVE  Entries(p)'
<1>1. arg[p].slot \in Slot
  BY Zenon DEF OpenArg
<1>2. Becomes(p, arg[p].slot, NoHandle) /\ pc'[p] = "idle"
  BY <1>1, Update, ReturnTypes, Zenon DEF Fail
<1> QED BY <1>2, EndEntries, Zenon

(* What is known of the entries of an emulator is kept by each of its steps. *)
LEMMA OwnEntries ==
  ASSUME IInv, NEW p \in Proc, Step(p) \/ Crash(p)
  PROVE  Entries(p)'
<1>t. Types /\ Call(p) /\ Entries(p) /\ TabStep(p) /\ \A s \in Slot : EntryOK(p, s)
  BY TabSteps, Zenon DEF IInv, Entries
<1>1. CASE mfs_open(p) \/ mfs_creat(p) \/ mfs_unlink(p) \/ mfs_setattr(p) \/ mfs_rename(p)
  <2>1. CASE \E a \in OpenArg : Begin(p, a, "exlock") /\ New(p, a.slot)
    <3>1. PICK a \in OpenArg : Begin(p, a, "exlock") /\ New(p, a.slot)
      BY <2>1, Zenon
    <3>2. /\ pc'[p] = "exlock" /\ arg'[p] = a /\ pc[p] = "idle" /\ a.slot \in Slot
          /\ Opening(p)' /\ ~Opening(p)
      BY <3>1, <1>t, BeginTypes, Zenon DEF Args, OpenArg, Opening, OpenEx
    <3>3. /\ tab'[p][a.slot] \in Handle /\ tab'[p][a.slot].st = "opening"
          /\ tab'[p][a.slot].file = a.f /\ tab'[p][a.slot].acc = a.acc
          /\ tab'[p][a.slot].deny = a.deny /\ tab'[p][a.slot].locks = {}
      BY <3>1, <3>2, Zenon DEF New
    <3>4. ASSUME NEW s \in Slot, s # a.slot PROVE EntryOK(p, s)'
      <4>1. Change(p, s) /\ a \notin CloseArg
        BY <1>t, ArgsDiffer, Zenon DEF TabStep
      <4>2. tab'[p][s] = tab[p][s] \/ tab'[p][s] = NoHandle
        BY <4>1, <3>2, <3>4, Zenon DEF Change, New, Adds, Opens, Shuts
      <4>3. CASE tab'[p][s] = NoHandle
        BY <4>3, Zenon DEF EntryOK
      <4>4. CASE tab'[p][s] # NoHandle
        BY <4>2, <4>4, <3>2, <1>t, EntryOpen, EntryStays, Zenon
      <4> QED BY <4>3, <4>4, Zenon
    <3>5. EntryOK(p, a.slot)'
      BY <3>2, <3>3, Zenon DEF EntryOK
    <3> QED BY <3>2, <3>3, <3>4, <3>5, HandleAssumption, Zenon DEF Entries
  <2>2. CASE \E a \in ModArg : Begin(p, a, "exlock") /\ UNCHANGED tab
    <3>1. PICK a \in ModArg : Begin(p, a, "exlock") /\ UNCHANGED tab
      BY <2>2, Zenon
    <3>2. /\ pc'[p] = "exlock" /\ arg'[p] = a /\ pc[p] = "idle"
          /\ ~Opening(p)' /\ ~Opening(p)
      BY <3>1, <1>t, BeginTypes, ArgsDiffer, Zenon DEF Args, Opening, OpenEx
    <3>3. ASSUME NEW s \in Slot PROVE EntryOK(p, s)'
      BY <3>1, <3>2, <1>t, EntryStays, Zenon
    <3> QED BY <3>2, <3>3, Zenon DEF Entries
  <2> QED BY <2>1, <2>2, <1>1, <1>t, Begins, Zenon
<1>2. CASE ExLock(p)
  <2>1. /\ arg[p] \in OpenArg \cup ModArg /\ pc[p] = "exlock" /\ arg' = arg /\ tab' = tab
    BY <1>2, <1>t, Zenon DEF ExLock, Call
  <2>2. /\ arg[p].op \in {"open", "creat"} <=> arg[p] \in OpenArg
        /\ pc'[p] = IF arg[p].op \in {"open", "creat"} THEN "probe" ELSE "inuse"
    BY <2>1, <1>2, <1>t, Zenon DEF ExLock, OpenArg, ModArg, Types, Goto
  <2> QED BY <2>1, <2>2, <1>t, SameEntries, Zenon DEF Opening, OpenEx
<1>3. CASE Probe(p)
  <2>1. /\ pc[p] = "probe" /\ pc'[p] \in {"probe", "claim"} /\ arg' = arg /\ tab' = tab
    BY <1>3, <1>t, Zenon DEF Probe, Types, Goto
  <2> QED BY <2>1, <1>t, SameEntries, Zenon DEF Opening, OpenEx
<1>4. CASE ProbeRefused(p) \/ ProbeLoophole(p)
  <2>1. Opening(p) /\ arg[p] \in OpenArg /\ pc[p] \in {"probe", "loophole"}
    BY <1>4, <1>t, Zenon DEF ProbeRefused, ProbeLoophole, Opening, OpenEx, Call
  <2>2. CASE Fail(p)
    BY <2>1, <2>2, <1>t, FailEntries, Zenon
  <2>3. CASE ~Fail(p)
    <3>1. tab' = tab /\ arg' = arg /\ pc'[p] \in {"loophole", "claim"}
      BY <2>3, <1>4, <1>t, Zenon DEF ProbeRefused, ProbeLoophole, Types, Goto
    <3> QED BY <2>1, <3>1, <1>t, SameEntries, Zenon DEF Opening, OpenEx
  <2> QED BY <2>2, <2>3, Zenon
<1>5. CASE ClaimLock(p)
  <2> DEFINE s == arg[p].slot
             h == tab'[p][s]
  <2>1. /\ pc[p] = "claim" /\ todo[p] \in Seq(Kinds) /\ todo[p] # <<>> /\ arg[p] \in OpenArg
        /\ pc' = pc /\ arg' = arg /\ s \in Slot /\ Opening(p) /\ Opening(p)'
        /\ Range(todo[p]) \subseteq Range(Claims(arg[p].acc, arg[p].deny))
    BY <1>5, <1>t, Zenon DEF ClaimLock, Call, OpenEx, OpenArg, Opening
  <2>2. Adds(p, s) /\ tab[p][s].file = arg[p].f /\ tab[p][s].acc = arg[p].acc
        /\ tab[p][s].deny = arg[p].deny /\ tab[p][s].st = "opening"
    BY <2>1, <1>5, <1>t, AddsLock, Zenon DEF Entries
  <2>3. Head(todo[p]) \in Range(Claims(arg[p].acc, arg[p].deny)) /\ Head(todo[p]) \in Kinds
    BY <2>1, RangeTail, Zenon
  <2>4. arg[p].f # Mine(p)
    BY <2>1, <2>3, NameAssumption, Zenon DEF Mine, OpenArg
  <2>5. EntryOK(p, s)'
    <3>1. h.locks = tab[p][s].locks \cup {Emu(arg[p].f, Head(todo[p]))}
      BY <2>2, Zenon DEF Adds, Mine
    <3>2. /\ tab[p][s].locks \subseteq {arg[p].f} \cup
               {Emu(arg[p].f, k) : k \in Range(Claims(arg[p].acc, arg[p].deny))}
          /\ arg[p].f \notin tab[p][s].locks
      <4>1. tab[p][s] # NoHandle
        BY <2>2, HandleAssumption, Zenon DEF Adds, Same
      <4>2. EntryOK(p, s)
        BY <2>1, <1>t, Zenon
      <4> QED BY <4>1, <4>2, <2>2, Zenon DEF EntryOK
    <3>3. h.locks \subseteq {arg[p].f} \cup
               {Emu(arg[p].f, k) : k \in Range(Claims(arg[p].acc, arg[p].deny))}
      BY <3>1, <3>2, <2>3, Zenon
    <3>4. /\ h.file = arg[p].f /\ h.acc = arg[p].acc /\ h.deny = arg[p].deny
          /\ h.st = "opening"
      BY <2>2, Zenon DEF Adds, Same
    <3>5. arg[p].f \notin h.locks
      BY <3>1, <3>2, <2>4, Zenon DEF Mine
    <3> QED BY <2>1, <3>3, <3>4, <3>5, Zenon DEF EntryOK
  <2>6. ASSUME NEW t \in Slot, t # s PROVE EntryOK(p, t)'
    <3>1. tab'[p][t] = tab[p][t] \/ tab'[p][t] = NoHandle
      BY <2>1, <2>6, <1>t, Zenon DEF TabStep, Change, New, Adds, Opens, Shuts
    <3>2. CASE tab'[p][t] = NoHandle
      BY <3>2, Zenon DEF EntryOK
    <3>3. CASE tab'[p][t] # NoHandle
      BY <3>1, <3>3, <2>1, <1>t, EntryStays, Zenon
    <3> QED BY <3>2, <3>3, Zenon
  <2> QED BY <2>1, <2>2, <2>5, <2>6, HandleAssumption, Zenon DEF Entries, Adds, Same
<1>6. CASE OpenFile(p)
  <2>1. PICK s \in Slot : s = arg[p].slot
    BY <1>6, <1>t, Zenon DEF OpenFile, Call, OpenEx, OpenArg
  <2> DEFINE g == tab[p][s]
             h == tab'[p][s]
  <2>2. /\ pc[p] = "claim" /\ Opening(p) /\ ~Opening(p)'
        /\ pc'[p] = "idle" /\ Opens(p, s) /\ g.file = arg[p].f
    BY <2>1, <1>6, <1>t, OpensFile, Zenon DEF OpenFile, OpenEx, Opening, Opens, Entries
  <2>3. EntryOK(p, s)'
    <3>1. h.locks = g.locks \cup {g.file} /\ Same(g, h) /\ h.st = "open"
      BY <2>2, Zenon DEF Opens
    <3>2. g.locks \subseteq {g.file} \cup
               {Emu(g.file, k) : k \in Range(Claims(g.acc, g.deny))}
      BY <3>1, <1>t, HandleAssumption, Zenon DEF EntryOK, Same
    <3>3. h.locks \subseteq {h.file} \cup
               {Emu(h.file, k) : k \in Range(Claims(h.acc, h.deny))}
      BY <3>1, <3>2, Zenon DEF Same
    <3>4. h.file \in h.locks
      BY <3>1, Zenon DEF Same
    <3> QED BY <3>1, <3>3, <3>4, Zenon DEF EntryOK
  <2>4. ASSUME NEW t \in Slot, t # s PROVE EntryOK(p, t)'
    <3>1. tab'[p][t] = tab[p][t] \/ tab'[p][t] = NoHandle
      BY <2>1, <2>2, <2>4, <1>t, Zenon DEF TabStep, Change, New, Adds, Opens, Shuts
    <3>2. CASE tab'[p][t] = NoHandle
      BY <3>2, Zenon DEF EntryOK
    <3>3. CASE tab'[p][t] # NoHandle
      BY <3>1, <3>3, <2>1, <2>2, <2>4, <1>t, EntryOpen, EntryStays, Zenon
    <3> QED BY <3>2, <3>3, Zenon
  <2> QED BY <2>2, <2>3, <2>4, Zenon DEF Entries
<1>7. CASE OpenFails(p)
  BY <1>7, <1>t, FailEntries, Zenon DEF OpenFails, Opening, OpenEx, Call
<1>8. CASE InUse(p) \/ InUse2(p) \/ ModifyFile(p) \/ Rename(p) \/ ExLock2(p)
  <2>1. /\ pc[p] \in ModEx /\ tab' = tab /\ ~Opening(p)
    BY <1>8, Zenon DEF InUse, InUse2, ModifyFile, Rename, ExLock2, ModEx, Opening, OpenEx
  <2>2. CASE Return(p)
    BY <2>1, <2>2, <1>t, ReturnTypes, EndEntries, Zenon DEF ModEx
  <2>3. CASE ~Return(p)
    <3>1. arg' = arg /\ pc'[p] \in ModEx
      BY <2>3, <1>8, <1>t, Zenon DEF InUse, InUse2, ModifyFile, Rename, ExLock2, ModEx, Goto, Types
    <3> QED BY <2>1, <3>1, <1>t, SameEntries, Zenon DEF ModEx, Opening, OpenEx
  <2> QED BY <2>2, <2>3, Zenon
<1>9. CASE mfs_close(p)
  <2>1. PICK s \in Slot : Shuts(p, s) /\ tab[p][s].file \notin tab'[p][s].locks
    BY <1>9, <1>t, ClosesFile, Zenon
  <2>2. pc[p] = "idle" /\ pc'[p] = "close" /\ arg'[p].slot = s /\ ~Opening(p) /\ ~Opening(p)'
    BY <2>1, <1>9, Zenon DEF mfs_close, Shuts, Opening, OpenEx
  <2>3. EntryOK(p, s)'
    BY <2>1, <2>2, <1>t, HandleAssumption, Zenon DEF EntryOK, Shuts, Same
  <2>4. ASSUME NEW t \in Slot, t # s PROVE EntryOK(p, t)'
    <3>1. tab'[p][t] = tab[p][t] \/ tab'[p][t] = NoHandle
      BY <2>2, <2>4, <1>t, Zenon DEF TabStep, Change, New, Adds, Opens, Shuts
    <3>2. CASE tab'[p][t] = NoHandle
      BY <3>2, Zenon DEF EntryOK
    <3>3. CASE tab'[p][t] # NoHandle
      BY <3>1, <3>3, <2>2, <1>t, EntryOpen, EntryStays, Zenon
    <3> QED BY <3>2, <3>3, Zenon
  <2> QED BY <2>1, <2>2, <2>3, <2>4, HandleAssumption, Zenon DEF Entries, Shuts, Same
<1>10. CASE CloseLock(p)
  <2>1. pc[p] = "close" /\ ~Opening(p) /\ arg[p] \in CloseArg /\ arg[p].slot \in Slot
    BY <1>10, <1>t, Zenon DEF CloseLock, Opening, OpenEx, Call, CloseArg
  <2>2. CASE Becomes(p, arg[p].slot, NoHandle) /\ pc'[p] = "idle"
    BY <2>1, <2>2, <1>t, EndEntries, Zenon
  <2>3. CASE Shuts(p, arg[p].slot) /\ pc'[p] = "close" /\ arg'[p] = arg[p]
    <3>1. ASSUME NEW s \in Slot, s = arg[p].slot PROVE EntryOK(p, s)'
      <4>1. /\ tab[p][s].st = "closing" /\ tab[p][s] # NoHandle /\ EntryOK(p, s)
            /\ Shuts(p, s)
        BY <3>1, <2>1, <2>3, <1>t, Zenon DEF Entries
      <4> QED BY <3>1, <2>3, <4>1, Zenon DEF EntryOK, Shuts, Same
    <3>2. ASSUME NEW t \in Slot, t # arg[p].slot PROVE EntryOK(p, t)'
      <4>1. tab'[p][t] = tab[p][t] \/ tab'[p][t] = NoHandle
        BY <2>1, <2>3, <3>2, <1>t, Zenon DEF TabStep, Change, New, Adds, Opens, Shuts
      <4>2. CASE tab'[p][t] = NoHandle
        BY <4>2, Zenon DEF EntryOK
      <4>3. CASE tab'[p][t] # NoHandle
        BY <4>1, <4>3, <2>1, <3>2, <1>t, EntryOpen, EntryStays, Zenon
      <4> QED BY <4>2, <4>3, Zenon
    <3>3. ~Opening(p)'
      BY <2>3, Zenon DEF Opening, OpenEx
    <3> QED BY <2>3, <3>1, <3>2, <3>3, HandleAssumption, Zenon DEF Entries, Shuts, Same
  <2> QED BY <2>2, <2>3, <1>10, <1>t, ClosesLock, Zenon
<1>11. CASE Crash(p)
  <2>1. \A s \in Slot : tab'[p][s] = NoHandle
    BY <1>11, <1>t, Zenon DEF Crash, Types
  <2>2. pc'[p] = "idle" /\ ~Opening(p)'
    BY <1>11, <1>t, ReturnTypes, Zenon DEF Crash, Opening, OpenEx
  <2> QED BY <2>1, <2>2, Zenon DEF Entries, EntryOK
<1> QED BY <1>1, <1>2, <1>3, <1>4, <1>5, <1>6, <1>7, <1>8, <1>9, <1>10, <1>11, Zenon
        DEF Step, OpenCall, ModifyCall, CloseCall

(* Locks on the names of a file are taken, and the file is opened, only by *)
(* the owner of its exclusive lock.                                        *)
LEMMA LockByOwner ==
  ASSUME IInv, NEW p \in Proc, TabStep(p), NEW s \in Slot, NEW f \in File, NEW k \in Kinds,
         ex[f] # p \/ pc[p] # "claim", tab'[p][s] # NoHandle, Emu(f, k) \in tab'[p][s].locks
  PROVE  tab[p][s] # NoHandle /\ Emu(f, k) \in tab[p][s].locks
<1>1. Change(p, s) /\ Call(p)
  BY Zenon DEF TabStep, IInv
<1>2. CASE Adds(p, s)
  <2>1. arg[p].f # f
    BY <1>1, <1>2, Zenon DEF Adds, Call, OpenEx
  <2>2. Emu(f, k) # Mine(p)
    BY <2>1, Zenon DEF Mine, Emu
  <2> QED BY <1>2, <2>2, HandleAssumption, Zenon DEF Adds, Same
<1>3. CASE Opens(p, s)
  <2>1. arg[p].f # Emu(f, k)
    BY <1>1, <1>3, NameAssumption, Zenon DEF Opens, Call, OpenEx, OpenArg
  <2> QED BY <1>3, <2>1, HandleAssumption, Zenon DEF Opens, Same
<1>4. CASE New(p, s) \/ Shuts(p, s)
  BY <1>4, HandleAssumption, Zenon DEF New, Shuts, Same
<1> QED BY <1>1, <1>2, <1>3, <1>4, Zenon DEF Change

(* An entry only becomes open under the exclusive lock of its file. *)
LEMMA OpenByOwner ==
  ASSUME IInv, NEW p \in Proc, TabStep(p), NEW s \in Slot, tab'[p][s] # NoHandle,
         tab'[p][s].st = "open"
  PROVE  \/ tab'[p][s] = tab[p][s]
         \/ /\ Opens(p, s) /\ arg[p].f \in File /\ ex[arg[p].f] = p
            /\ tab'[p][s].file = arg[p].f
<1>1. Change(p, s) /\ Call(p) /\ Entries(p)
  BY Zenon DEF TabStep, IInv
<1>2. CASE Opens(p, s)
  BY <1>1, <1>2, Zenon DEF Opens, Call, Entries, Opening, OpenEx, OpenArg, Same
<1>3. CASE ~Opens(p, s)
  BY <1>1, <1>3, Zenon DEF Change, New, Adds, Shuts
<1> QED BY <1>2, <1>3, Zenon

(* So what was found free or not open stays so until the lock is given up. *)
LEMMA FreeStays ==
  ASSUME IInv, NEW p \in Proc, TabStep(p), NEW f \in File, NEW k \in Kinds,
         ex[f] # p \/ pc[p] # "claim"
  PROVE  /\ Free(Emu(f, k)) => Free(Emu(f, k))'
         /\ \A q \in Proc, t \in Slot :
              FreeBut(q, t, Emu(f, k)) => FreeBut(q, t, Emu(f, k))'
<1>1. \A o \in Proc : o # p => tab'[o] = tab[o]
  BY Zenon DEF TabStep
<1>2. \A s \in Slot : tab'[p][s] # NoHandle /\ Emu(f, k) \in tab'[p][s].locks
        => tab[p][s] # NoHandle /\ Emu(f, k) \in tab[p][s].locks
  BY LockByOwner, Zenon
<1> DEFINE n == Emu(f, k)
<1> HIDE DEF n
<1>3. \A s \in Slot : tab'[p][s] # NoHandle /\ n \in tab'[p][s].locks
        => tab[p][s] # NoHandle /\ n \in tab[p][s].locks
  BY <1>2, Zenon DEF n
<1>4. Free(n) => \A q \in Proc, s \in Slot : tab'[q][s] # NoHandle => n \notin tab'[q][s].locks
  BY <1>1, <1>3, Zenon DEF Free
<1>5. ASSUME NEW q \in Proc, NEW t \in Slot, FreeBut(q, t, n)
      PROVE  \A o \in Proc, s \in Slot :
               tab'[o][s] # NoHandle /\ (o # q \/ s # t) => n \notin tab'[o][s].locks
  BY <1>1, <1>3, <1>5, Zenon DEF FreeBut
<1> QED BY <1>4, <1>5, Zenon DEF n, Free, FreeBut, Emu

(* A file found not open stays so while its exclusive lock is held, unless *)
(* the holder itself opens it.                                             *)
LEMMA NotOpenStays ==
  ASSUME IInv, NEW p \in Proc, TabStep(p), NEW f \in File,
         ex[f] # p \/ pc[p] # "claim", NotOpen(f)
  PROVE  NotOpen(f)'
<1>1. \A o \in Proc : o # p => tab'[o] = tab[o]
  BY Zenon DEF TabStep
<1>2. ASSUME NEW s \in Slot, tab'[p][s] # NoHandle, tab'[p][s].st = "open"
      PROVE  tab'[p][s].file # f
  BY <1>2, OpenByOwner DEF NotOpen, Opens
<1> QED BY <1>1, <1>2, Zenon DEF NotOpen

(* A step of another emulator takes nothing away from what was found out.  *)
LEMMA OthersKnown ==
  ASSUME IInv, NEW p \in Proc, NEW q \in Proc, p # q, Step(p) \/ Crash(p)
  PROVE  Call(q)' /\ Entries(q)' /\ Known(q)'
<1>t. Types /\ TabStep(p) /\ Call(q) /\ Entries(q) /\ Known(q)
  BY TabSteps, Zenon DEF IInv
<1>1. /\ pc'[q] = pc[q] /\ arg'[q] = arg[q] /\ todo'[q] = todo[q] /\ tab'[q] = tab[q]
      /\ \A f \in File : ex'[f] = q <=> ex[f] = q
      /\ \A f \in File : ex[f] = q => (f \in exists' <=> f \in exists)
  BY OthersKept, Zenon
<1>2. Call(q)'
  <2>1. /\ pc[q] \in OpenEx => arg[q].f \in File
        /\ pc[q] \in ModEx => arg[q].f \in File /\ arg[q].g \in File
    BY <1>t, Zenon DEF Call, OpenArg, ModArg
  <2> QED BY <1>t, <1>1, <2>1, Zenon DEF Call, OpenEx, ModEx
<1>3. Entries(q)'
  <2>1. Opening(q)' <=> Opening(q)
    BY <1>1, Zenon DEF Opening
  <2>2. ASSUME NEW s \in Slot PROVE EntryOK(q, s)'
    BY <1>1, <1>t, <2>1, EntryStays, Zenon DEF Entries
  <2> QED BY <1>1, <1>t, <2>1, <2>2, Zenon DEF Entries
<1>4. Known(q)'
  <2>1. ASSUME pc[q] = "probe", NEW k \in Range(Probes(arg[q].acc, arg[q].deny))
        PROVE  k \in Range(todo[q]) \/ Free(Emu(arg[q].f, k))'
    <3>1. arg[q] \in OpenArg /\ ex[arg[q].f] = q /\ arg[q].f \in File
      BY <2>1, <1>t, Zenon DEF Call, OpenEx, OpenArg
    <3>2. k \in Kinds
      BY <3>1, <2>1, ProbesSet DEF OpenArg, Range
    <3>3. PICK f \in File : f = arg[q].f
      BY <3>1, Zenon
    <3>4. Free(Emu(f, k)) => Free(Emu(f, k))'
      BY <3>1, <3>2, <3>3, <1>t, FreeStays, Zenon
    <3> QED BY <3>3, <3>4, <2>1, <1>t, <1>1, Zenon DEF Known
  <2>2. ASSUME pc[q] = "claim", todo[q] # <<>> \/ tab[q][arg[q].slot].locks # {},
               NEW k \in Range(Probes(arg[q].acc, arg[q].deny))
        PROVE  FreeBut(q, arg[q].slot, Emu(arg[q].f, k))'
    <3>1. arg[q] \in OpenArg /\ ex[arg[q].f] = q /\ arg[q].f \in File /\ arg[q].slot \in Slot
      BY <2>2, <1>t, Zenon DEF Call, OpenEx, OpenArg
    <3>2. k \in Kinds
      BY <3>1, <2>2, ProbesSet DEF OpenArg, Range
    <3>3. PICK f \in File, t \in Slot : f = arg[q].f /\ t = arg[q].slot
      BY <3>1, Zenon
    <3>4. FreeBut(q, t, Emu(f, k)) => FreeBut(q, t, Emu(f, k))'
      BY <3>1, <3>2, <3>3, <1>t, FreeStays, Zenon
    <3> QED BY <3>3, <3>4, <2>2, <1>t, <1>1, Zenon DEF Known
  <2>3. ASSUME pc[q] \in Checked, ~arg[q].force
        PROVE  arg[q].f \in exists' /\ (pc[q] = "modify" => NotOpen(arg[q].f)')
    <3>1. ex[arg[q].f] = q /\ arg[q].f \in File
      BY <2>3, <1>t, Zenon DEF Call, Checked, ModEx, ModArg
    <3>2. PICK f \in File : f = arg[q].f
      BY <3>1, Zenon
    <3>3. NotOpen(f) => NotOpen(f)'
      BY <3>1, <3>2, <1>t, NotOpenStays, Zenon
    <3> QED BY <3>1, <3>2, <3>3, <2>3, <1>t, <1>1, Zenon DEF Known
  <2>4. pc[q] = "rename" => arg[q].g \notin exists'
    <3>1. pc[q] = "rename" => ex[arg[q].g] = q /\ arg[q].g \in File
      BY <1>t, Zenon DEF Call, ModEx, ModArg
    <3> QED BY <3>1, <1>t, <1>1, Zenon DEF Known
  <2> QED BY <2>1, <2>2, <2>3, <2>4, <1>1, Zenon DEF Known
<1> QED BY <1>2, <1>3, <1>4, Zenon

(* A probe that succeeds shows the name free. *)
LEMMA NotLocked ==
  ASSUME NEW n
  PROVE  ~Locked(n) <=> Free(n)
BY DEF Locked, Free, Handles

(* What an emulator finds out is so. *)
LEMMA OwnKnown ==
  ASSUME IInv, NEW p \in Proc, Step(p) \/ Crash(p)
  PROVE  Known(p)'
<1>t. Types /\ Call(p) /\ Entries(p) /\ Known(p) /\ TabStep(p)
  BY TabSteps, Zenon DEF IInv
<1>v. pc'[p] \in {"idle", "exlock", "loophole", "inuse", "close"} => Known(p)'
  BY Zenon DEF Known, Checked
<1>1. CASE mfs_open(p) \/ mfs_creat(p) \/ mfs_unlink(p) \/ mfs_setattr(p) \/ mfs_rename(p)
  <2>1. PICK a \in Args : Begin(p, a, "exlock")
    BY <1>1, <1>t, Begins, Zenon DEF Args
  <2> QED BY <2>1, <1>v, <1>t, BeginTypes, Zenon
<1>2. CASE ExLock(p)
  <2>1. /\ arg[p].op \in {"open", "creat"} =>
             pc'[p] = "probe" /\ todo'[p] = Probes(arg[p].acc, arg[p].deny)
        /\ arg[p].op \notin {"open", "creat"} => pc'[p] = "inuse"
        /\ arg' = arg
    BY <1>2, <1>t, Zenon DEF ExLock, Types, Goto
  <2> QED BY <2>1, <1>v, Zenon DEF Known, Checked
<1>3. CASE Probe(p)
  <2>1. /\ pc[p] = "probe" /\ todo[p] # <<>> /\ todo[p] \in Seq(Kinds) /\ arg' = arg
        /\ tab' = tab /\ ~Locked(Mine(p))
    BY <1>3, <1>t, Zenon DEF Probe, Call
  <2>2. Range(todo[p]) = {Head(todo[p])} \cup Range(Tail(todo[p]))
    BY <2>1, RangeTail, Zenon
  <2>3. Free(Emu(arg[p].f, Head(todo[p])))
    BY <2>1, NotLocked, Zenon DEF Mine
  <2>4. \A k \in Range(Probes(arg[p].acc, arg[p].deny)) :
          k \in Range(Tail(todo[p])) \/ Free(Emu(arg[p].f, k))
    BY <2>1, <2>2, <2>3, <1>t, Zenon DEF Known
  <2>5. CASE Tail(todo[p]) # <<>>
    <3>1. pc'[p] = "probe" /\ todo'[p] = Tail(todo[p])
      BY <2>5, <1>3, <1>t, Zenon DEF Probe, Types
    <3> QED BY <3>1, <2>1, <2>4, Zenon DEF Known, Checked, Free
  <2>6. CASE Tail(todo[p]) = <<>>
    <3>1. pc'[p] = "claim"
      BY <2>6, <1>3, <1>t, Zenon DEF Probe, Types, Goto
    <3>2. Range(<<>>) = {}
      BY DEF Range
    <3> QED BY <3>1, <3>2, <2>1, <2>4, <2>6, Zenon DEF Known, Checked, Free, FreeBut
  <2> QED BY <2>5, <2>6, Zenon
<1>4. CASE ProbeRefused(p)
  <2>1. pc'[p] \in {"loophole", "idle"}
    BY <1>4, <1>t, ReturnTypes, Zenon DEF ProbeRefused, Fail, Goto, Types
  <2> QED BY <2>1, <1>v, Zenon
<1>5. CASE ProbeLoophole(p)
  <2>1. CASE pc'[p] \in {"loophole", "idle"}
    BY <2>1, <1>v, Zenon
  <2>2. CASE pc'[p] \notin {"loophole", "idle"}
    <3>1. ~Fail(p)
      BY <2>2, <1>t, ReturnTypes, Zenon DEF Fail
    <3>2. /\ pc[p] = "loophole" /\ pc'[p] = "claim" /\ todo'[p] = <<>> /\ tab' = tab
          /\ arg' = arg
      BY <3>1, <2>2, <1>5, <1>t, Zenon DEF ProbeLoophole, Types, Goto
    <3>3. tab[p][arg[p].slot].locks = {}
      <4>1. Opening(p) /\ arg[p].slot \in Slot
        BY <3>2, <1>t, Zenon DEF Opening, OpenEx, Call, OpenArg
      <4>2. EntryOK(p, arg[p].slot)
        BY <4>1, <1>t, Zenon DEF Entries
      <4> QED BY <4>1, <4>2, <3>2, <1>t, Zenon DEF Entries, EntryOK
    <3> QED BY <3>2, <3>3, Zenon DEF Known, Checked
  <2> QED BY <2>1, <2>2, Zenon
<1>6. CASE ClaimLock(p)
  <2>1. /\ pc[p] = "claim" /\ todo[p] # <<>> /\ arg' = arg /\ pc' = pc
    BY <1>6, Zenon DEF ClaimLock
  <2>2. ASSUME NEW s \in Slot, s # arg[p].slot
        PROVE  tab'[p][s] = tab[p][s] \/ tab'[p][s] = NoHandle
    BY <2>1, <2>2, <1>t, Zenon DEF TabStep, Change, New, Adds, Opens, Shuts
  <2>3. \A q \in Proc : q # p => tab'[q] = tab[q]
    BY <1>t, Zenon DEF TabStep
  <2>4. ASSUME NEW k \in Range(Probes(arg[p].acc, arg[p].deny))
        PROVE  FreeBut(p, arg[p].slot, Emu(arg[p].f, k))'
    BY <2>1, <2>2, <2>3, <1>t, Zenon DEF Known, FreeBut
  <2> QED BY <2>1, <2>4, Zenon DEF Known, Checked
<1>7. CASE OpenFails(p) \/ Crash(p) \/ OpenFile(p) \/ ModifyFile(p) \/ Rename(p)
  <2>1. Return(p)
    BY <1>7, Zenon DEF OpenFails, Crash, OpenFile, ModifyFile, Rename, Fail
  <2> QED BY <2>1, <1>v, <1>t, ReturnTypes, Zenon
<1>8. CASE InUse(p)
  <2>1. CASE Return(p)
    BY <2>1, <1>v, <1>t, ReturnTypes, Zenon
  <2>2. CASE ~Return(p)
    <3>1. /\ pc'[p] \in {"modify", "exlock2"} /\ arg' = arg /\ tab' = tab /\ exists' = exists
          /\ IF Locked(arg[p].f) THEN arg[p].force ELSE arg[p].f \in exists
      BY <2>2, <1>8, <1>t, Zenon DEF InUse, Types, Goto
    <3>2. ~Locked(arg[p].f) => NotOpen(arg[p].f)
      BY NotLocked, <1>t, Zenon DEF Free, NotOpen, Entries, EntryOK, IInv
    <3> QED BY <3>1, <3>2, Zenon DEF Known, Checked, NotOpen
  <2> QED BY <2>1, <2>2, Zenon
<1>9. CASE InUse2(p) \/ ExLock2(p)
  <2>1. CASE Return(p)
    BY <2>1, <1>v, <1>t, ReturnTypes, Zenon
  <2>2. CASE ~Return(p)
    <3>1. /\ arg' = arg /\ exists' = exists
          /\ \/ pc'[p] = "inuse2" /\ pc[p] = "exlock2"
             \/ pc'[p] = "rename" /\ pc[p] = "inuse2" /\ arg[p].g \notin exists
      BY <2>2, <1>9, <1>t, Zenon DEF InUse2, ExLock2, Types, Goto
    <3> QED BY <3>1, <1>t, Zenon DEF Known, Checked
  <2> QED BY <2>1, <2>2, Zenon
<1>10. CASE mfs_close(p) \/ CloseLock(p)
  <2>1. pc'[p] \in {"idle", "close"}
    BY <1>10, <1>t, ClosesLock, Zenon DEF mfs_close, Types, Goto
  <2> QED BY <2>1, <1>v, Zenon
<1> QED BY <1>1, <1>2, <1>3, <1>4, <1>5, <1>6, <1>7, <1>8, <1>9, <1>10, Zenon
        DEF Step, OpenCall, ModifyCall, CloseCall

(* A file opened with claimed locks agrees with every claimed handle that  *)
(* was there: the probes had met none of its locks, and none came since.   *)
LEMMA OpenedAgrees ==
  ASSUME IInv, NEW p \in Proc, NEW s \in Slot, Opens(p, s), NEW q \in Proc, NEW t \in Slot,
         q # p \/ t # s, tab[q][t] # NoHandle, tab[q][t].file = tab'[p][s].file,
         Claimed(tab'[p][s]), Claimed(tab[q][t])
  PROVE  Agree(tab[q][t], tab'[p][s])
<1> DEFINE g == tab[p][s]
           h == tab'[p][s]
           o == tab[q][t]
           P == Range(Probes(h.acc, h.deny))
           C == Range(Claims(h.acc, h.deny))
<1>1. /\ pc[p] = "claim" /\ s = arg[p].slot /\ Same(g, h) /\ h.locks = g.locks \cup {arg[p].f}
      /\ o \in Handle /\ h \in Handle
  BY SMTT(30) DEF Opens, Same, IInv, Types
<1>2. /\ Call(p) /\ Known(p) /\ g.file = arg[p].f /\ g.acc = arg[p].acc
      /\ g.deny = arg[p].deny /\ arg[p] \in OpenArg
  BY <1>1, Zenon DEF IInv, Entries, Opening, OpenEx, Call
<1>3. /\ h.acc \in All /\ h.deny \in DenyModes /\ o.acc \in All /\ o.deny \in DenyModes
      /\ arg[p].f \in File
  BY <1>1, <1>2, Zenon DEF Handle, All, OpenArg
<1>4. C # {} /\ C \subseteq Kinds
  <2>1. \A x \in Seq(Kinds) : Range(x) \subseteq Kinds
    BY DEF Range
  <2>2. (IF h.deny = "compat" THEN "compat" ELSE "noncompat") \in C
    BY <1>3, ClaimsSet, Zenon
  <2> QED BY <1>3, <2>1, <2>2, ClaimsSet, Zenon
<1>5. \A k \in C : Emu(arg[p].f, k) \in g.locks
  <2>1. ASSUME NEW k \in C PROVE Emu(arg[p].f, k) \in g.locks
    <3>1. h.file = arg[p].f
      BY <1>1, <1>2, Zenon DEF Same
    <3>2. Emu(h.file, k) \in h.locks
      BY <2>1, Zenon DEF Claimed
    <3>3. Emu(arg[p].f, k) # arg[p].f
      BY <1>3, <1>4, <2>1, NameAssumption, Zenon
    <3> QED BY <1>1, <3>1, <3>2, <3>3, Zenon
  <2> QED BY <2>1, Zenon
<1>6. g.locks # {}
  BY <1>4, <1>5, Zenon
<1>7. \A k \in P : FreeBut(p, s, Emu(arg[p].f, k))
  BY <1>1, <1>2, <1>6, Zenon DEF Known, Same
<1>8. \A k \in P : Emu(o.file, k) \notin o.locks
  BY <1>1, <1>2, <1>7, Zenon DEF FreeBut, Same
<1>9. P \cap Range(Claims(o.acc, o.deny)) = {}
  BY <1>8, Zenon DEF Claimed
<1>10. <<h.deny, h.acc>> \in Admitted(o.deny, o.acc)
  BY <1>3, <1>9, TableSound, Zenon
<1> QED BY <1>10, Zenon DEF Agree

(* Any two open handles of one file keep agreeing by the DOS table. *)
LEMMA NextPairs ==
  ASSUME IInv, NEW p \in Proc, TabStep(p)
  PROVE  Pairs'
<1>1. \A o \in Proc : o # p => tab'[o] = tab[o]
  BY Zenon DEF TabStep
<1>2. SUFFICES ASSUME NEW q \in Proc, NEW s \in Slot, NEW o \in Proc, NEW t \in Slot,
                      tab'[q][s] # NoHandle, tab'[o][t] # NoHandle, q # o \/ s # t,
                      tab'[q][s].file = tab'[o][t].file,
                      tab'[q][s].st = "open", tab'[o][t].st = "open",
                      Claimed(tab'[q][s]), Claimed(tab'[o][t])
               PROVE  Agree(tab'[q][s], tab'[o][t]) \/ Agree(tab'[o][t], tab'[q][s])
  BY SMTT(30) DEF Pairs, Entry, Sharing, At, Claimed, Agree
<1>3. tab'[q][s] = tab[q][s] \/ (q = p /\ Opens(p, s))
  BY <1>1, <1>2, OpenByOwner, Zenon
<1>4. tab'[o][t] = tab[o][t] \/ (o = p /\ Opens(p, t))
  BY <1>1, <1>2, OpenByOwner, Zenon
<1>5. CASE tab'[q][s] = tab[q][s] /\ tab'[o][t] = tab[o][t]
  <2>1. /\ <<q, s>> \in Entry /\ <<o, t>> \in Entry /\ Sharing(<<q, s>>, <<o, t>>)
        /\ At(<<q, s>>) = tab[q][s] /\ At(<<o, t>>) = tab[o][t]
    BY <1>2, <1>5, Zenon DEF Entry, Sharing, At
  <2> QED BY <2>1, <1>2, <1>5, Zenon DEF IInv, Pairs
<1>6. CASE q = p /\ Opens(p, s)
  <2>1. tab'[o][t] = tab[o][t]
    BY <1>2, <1>4, <1>6, Zenon DEF Opens
  <2> QED BY <2>1, <1>2, <1>6, OpenedAgrees, Zenon
<1>7. CASE o = p /\ Opens(p, t)
  <2>1. tab'[q][s] = tab[q][s]
    BY <1>2, <1>3, <1>7, Zenon DEF Opens
  <2> QED BY <2>1, <1>2, <1>7, OpenedAgrees, Zenon
<1> QED BY <1>3, <1>4, <1>5, <1>6, <1>7, Zenon

(* The initial states satisfy the invariant. *)
LEMMA InitIInv == Init => IInv
<1> SUFFICES ASSUME Init PROVE IInv
  BY Zenon
<1>1. Types
  BY ShareAssumption DEF Init, Types, Locations, Args
<1>2. \A p \in Proc : pc[p] = "idle" /\ \A s \in Slot : tab[p][s] = NoHandle
  BY Zenon DEF Init
<1>3. Pairs
  BY <1>2, Zenon DEF Pairs, Entry
<1>4. \A p \in Proc : Call(p)
  BY <1>2, ShareAssumption, Zenon DEF Call, Init, OpenEx, ModEx
<1>5. \A p \in Proc : Entries(p) /\ Known(p)
  BY <1>2, Zenon DEF Entries, EntryOK, Opening, OpenEx, Known, Checked
<1> QED BY <1>1, <1>3, <1>4, <1>5, Zenon DEF IInv

(* Every step preserves it. *)
LEMMA NextIInv == IInv /\ [Next]_vars => IInv'
<1> SUFFICES ASSUME IInv, [Next]_vars PROVE IInv'
  BY Zenon
<1>1. ASSUME NEW p \in Proc, Step(p) \/ Crash(p) PROVE IInv'
  <2>1. TabStep(p)
    BY <1>1, TabSteps, Zenon DEF IInv
  <2>2. Types' /\ Pairs'
    BY <1>1, <2>1, NextTypes, NextPairs, Zenon
  <2>3. Call(p)' /\ Entries(p)' /\ Known(p)'
    BY <1>1, OwnCall, OwnEntries, OwnKnown, Zenon
  <2>4. \A q \in Proc : q # p => Call(q)' /\ Entries(q)' /\ Known(q)'
    BY <1>1, OthersKnown, Zenon
  <2> QED BY <2>2, <2>3, <2>4, Zenon DEF IInv
<1>2. CASE UNCHANGED vars
  <2>1. Types'
    BY <1>2, Zenon DEF vars, IInv, Types
  <2>2. Pairs'
    BY <1>2, Zenon DEF vars, IInv, Pairs, Entry, Sharing, At
  <2>3. ASSUME NEW p \in Proc PROVE Call(p)'
    BY <1>2, Zenon DEF vars, IInv, Call
  <2>4. ASSUME NEW p \in Proc PROVE Entries(p)'
    BY SMTT(30), <1>2 DEF vars, IInv, Entries, EntryOK, Opening
  <2>5. ASSUME NEW p \in Proc PROVE Known(p)'
    BY <1>2, Zenon DEF vars, IInv, Known, Free, FreeBut, NotOpen
  <2> QED BY <2>1, <2>2, <2>3, <2>4, <2>5, Zenon DEF IInv
<1> QED BY <1>1, <1>2, Zenon DEF Next

-----------------------------------------------------------------------------
(* In every reachable state of the emulators that share files: a call has  *)
(* the exclusive lock of the names it works on, an entry is being opened   *)
(* or closed only by the current call, and what the probes of share.c have *)
(* shown is still so when it is acted upon.                                *)
THEOREM Invariance == Spec => []IInv
BY InitIInv, NextIInv, PTL DEF Spec

(* Two emulators that have a file open and have claimed their locks never  *)
(* hold rights that the other one denies: open_compat and open_share keep  *)
(* the deny modes of DOS, however opens and closes overlap and wherever an *)
(* emulator dies.                                                          *)
THEOREM DenialsRespected == Spec => []DenyRespected
<1>1. IInv => DenyRespected
  <2> SUFFICES ASSUME IInv PROVE DenyRespected
    BY Zenon
  <2>1. ASSUME NEW h \in Handles
        PROVE  h \in Handle /\ h.locks \subseteq {h.file} \cup {Emu(h.file, k) : k \in Kinds}
    <3>1. PICK p \in Proc, s \in Slot : h = tab[p][s] /\ h # NoHandle
      BY <2>1 DEF Handles
    <3>2. h \in Handle /\ EntryOK(p, s)
      BY <3>1 DEF IInv, Types, Entries
    <3>3. Range(Claims(h.acc, h.deny)) \subseteq Kinds
      BY <3>2, WhichKinds, Zenon DEF Handle, All
    <3> QED BY <3>1, <3>2, <3>3, Zenon DEF EntryOK
  <2>2. ASSUME NEW f \in File, ex[f] # Nobody
        PROVE  pc[ex[f]] \notin {"idle", "exlock", "close"}
    BY <2>2 DEF IInv, Types, Call
  <2> QED BY <2>1, <2>2, Zenon DEF DenyRespected, TypeOK, IInv, Types, Pairs
<1> QED BY <1>1, Invariance, PTL

(* What file_is_opened told do_mfs_unlink and do_mfs_rename is still so    *)
(* when they act: nobody has opened or removed the file, and nobody has    *)
(* created the destination.                                                *)
THEOREM ChecksHold == Spec => []ChecksStillHold
<1>1. IInv => ChecksStillHold
  <2> SUFFICES ASSUME IInv, NEW p \in Proc
               PROVE  /\ pc[p] = "modify" /\ ~arg[p].force =>
                           /\ arg[p].f \in exists
                           /\ \A h \in Handles : h.st = "open" => h.file # arg[p].f
                      /\ pc[p] = "rename" =>
                           arg[p].g \notin exists /\ (arg[p].force \/ arg[p].f \in exists)
    BY Zenon DEF ChecksStillHold
  <2>1. Known(p)
    BY Zenon DEF IInv
  <2> QED BY <2>1 DEF Known, Checked, NotOpen, Handles
<1> QED BY <1>1, Invariance, PTL

(* When every emulator in a call waits for an exclusive lock, two of them  *)
(* are in do_mfs_rename, one waiting for the other: no other call takes a  *)
(* second lock while it has one.                                           *)
THEOREM RenamesBlock == Spec => []OnlyRenamesBlock
<1>1. IInv => OnlyRenamesBlock
  <2> SUFFICES ASSUME IInv, NEW o \in Proc, Blocked(o),
                      \A p \in Proc : Blocked(p) \/ pc[p] = "idle"
               PROVE  \E p, q \in Proc : /\ pc[p] = "exlock2" /\ pc[q] = "exlock2"
                                         /\ ex[arg[p].g] = q
    BY Zenon DEF OnlyRenamesBlock
  <2>1. ASSUME NEW p \in Proc, Blocked(p)
        PROVE  \E q \in Proc : /\ pc[q] = "exlock2"
                               /\ pc[p] = "exlock2" => ex[arg[p].g] = q
    <3>1. PICK f \in File : /\ ex[f] # Nobody
                            /\ pc[p] = "exlock2" => f = arg[p].g
      BY <2>1, Zenon DEF Blocked, IInv, Call, ModEx, OpenArg, ModArg
    <3>2. PICK q \in Proc : ex[f] = q
      BY <3>1, Zenon DEF IInv, Types
    <3>3. pc[q] \notin {"idle", "exlock", "close"}
      BY <3>2, Zenon DEF IInv, Call
    <3>4. pc[q] = "exlock2"
      BY <3>3, Zenon DEF Blocked
    <3> QED BY <3>1, <3>2, <3>4, Zenon
  <2>2. PICK p \in Proc : pc[p] = "exlock2"
    BY <2>1, Zenon
  <2> QED BY <2>1, <2>2, Zenon
<1> QED BY <1>1, Invariance, PTL

(* The answer of the loophole of do_mfs_open. *)
LEMMA LoopholeAnswer ==
  ASSUME NEW f, NEW a \in All, NEW d \in DenyModes
  PROVE  (/\ Loophole(a, d) # <<>>
          /\ \A l \in Range(Loophole(a, d)) : Locked(Emu(f, l[1])) = l[2])
         <=> /\ ~Writes(a) /\ ~DeniesR(d) /\ ~Locked(Emu(f, "W"))
             /\ IF d = "compat" THEN ~Locked(Emu(f, "denyR")) ELSE Locked(Emu(f, "compat"))
<1> DEFINE A(k, v) == Locked(Emu(f, k)) = v
<1>1. \A x, y : Range(<<x, y>>) = {x, y}
  BY DEF Range
<1>2. \A k : (A(k, FALSE) <=> ~Locked(Emu(f, k))) /\ (A(k, TRUE) <=> Locked(Emu(f, k)))
  BY Zenon DEF Locked
<1>3. CASE Writes(a) \/ DeniesR(d)
  BY <1>3, Zenon DEF Loophole
<1>4. CASE ~Writes(a) /\ ~DeniesR(d) /\ d = "compat"
  <2> DEFINE x == <<"denyR", FALSE>>
             y == <<"W", FALSE>>
  <2>1. Loophole(a, d) = <<x, y>> /\ <<x, y>> # <<>>
    BY <1>4, Zenon DEF Loophole
  <2>2. x[1] = "denyR" /\ x[2] = FALSE /\ y[1] = "W" /\ y[2] = FALSE
    BY Zenon
  <2> HIDE DEF x, y
  <2>3. Loophole(a, d) # <<>> /\ Range(Loophole(a, d)) = {x, y}
    BY <2>1, <1>1, Zenon
  <2> HIDE DEF A
  <2>4. (\A l \in {x, y} : A(l[1], l[2])) <=> A("denyR", FALSE) /\ A("W", FALSE)
    BY <2>2, Zenon
  <2>5. (\A l \in Range(Loophole(a, d)) : A(l[1], l[2]))
          <=> A("denyR", FALSE) /\ A("W", FALSE)
    BY <2>3, <2>4, Zenon
  <2>6. (\A l \in Range(Loophole(a, d)) : A(l[1], l[2]))
          <=> ~Locked(Emu(f, "denyR")) /\ ~Locked(Emu(f, "W"))
    BY <2>5, <1>2, Zenon
  <2> QED BY <2>3, <2>6, <1>4, Zenon DEF A
<1>5. CASE ~Writes(a) /\ ~DeniesR(d) /\ d # "compat"
  <2> DEFINE x == <<"compat", TRUE>>
             y == <<"W", FALSE>>
  <2>1. Loophole(a, d) = <<x, y>> /\ <<x, y>> # <<>>
    BY <1>5, Zenon DEF Loophole
  <2>2. x[1] = "compat" /\ x[2] = TRUE /\ y[1] = "W" /\ y[2] = FALSE
    BY Zenon
  <2> HIDE DEF x, y
  <2>3. Loophole(a, d) # <<>> /\ Range(Loophole(a, d)) = {x, y}
    BY <2>1, <1>1, Zenon
  <2> HIDE DEF A
  <2>4. (\A l \in {x, y} : A(l[1], l[2])) <=> A("compat", TRUE) /\ A("W", FALSE)
    BY <2>2, Zenon
  <2>5. (\A l \in Range(Loophole(a, d)) : A(l[1], l[2]))
          <=> A("compat", TRUE) /\ A("W", FALSE)
    BY <2>3, <2>4, Zenon
  <2>6. (\A l \in Range(Loophole(a, d)) : A(l[1], l[2]))
          <=> Locked(Emu(f, "compat")) /\ ~Locked(Emu(f, "W"))
    BY <2>5, <1>2, Zenon
  <2> QED BY <2>3, <2>6, <1>5, Zenon DEF A
<1> QED BY <1>3, <1>4, <1>5, Zenon

(* With one claimed handle on a file, the probes of do_mfs_open and its    *)
(* loophole answer a second open exactly as the table of                   *)
(* test/func_ds3_share_open_twice.py says.                                 *)
THEOREM AnswersExact == Spec => []MatrixExact
<1>1. IInv => MatrixExact
  <2> SUFFICES ASSUME IInv, NEW e \in Entry, At(e).st = "open", Claimed(At(e)),
                      \A o \in Entry : At(o).file = At(e).file => o = e,
                      NEW d \in DenyModes, NEW a \in All
               PROVE  Answer(At(e).file, a, d) <=> <<d, a>> \in Admitted(At(e).deny, At(e).acc)
    BY Zenon DEF MatrixExact
  <2> DEFINE h == At(e)
             C == Range(Claims(h.acc, h.deny))
  <2>1. PICK p \in Proc, s \in Slot : e = <<p, s>> /\ h = tab[p][s] /\ h # NoHandle
    BY DEF Entry, At
  <2>2. h \in Handle /\ EntryOK(p, s) /\ h.acc \in All /\ h.deny \in DenyModes
    <3>1. tab[p][s] \in Handle \cup {NoHandle} /\ EntryOK(p, s)
      BY Zenon DEF IInv, Types, Entries
    <3> HIDE DEF h
    <3>2. h \in Handle
      BY <2>1, <3>1, Zenon
    <3> QED BY <3>1, <3>2, Zenon DEF Handle, All
  <2>3. ASSUME NEW k \in Kinds PROVE Locked(Emu(h.file, k)) <=> k \in C
    <3>1. ASSUME NEW q \in Proc, NEW t \in Slot, tab[q][t] # NoHandle,
                 Emu(h.file, k) \in tab[q][t].locks
          PROVE  tab[q][t] = h
      <4>1. EntryOK(q, t) /\ tab[q][t] \in Handle
        BY <3>1 DEF IInv, Types, Entries
      <4>2. tab[q][t].file \in File
        BY <4>1, Zenon DEF Handle
      <4>3. tab[q][t].file # Emu(h.file, k)
        BY <2>2, <4>2, NameAssumption, Zenon DEF Handle
      <4>4. tab[q][t].file = h.file
        BY <3>1, <4>1, <4>3, Zenon DEF EntryOK, Emu
      <4>5. <<q, t>> \in Entry /\ At(<<q, t>>) = tab[q][t]
        BY <3>1, Zenon DEF Entry, At
      <4> QED BY <4>4, <4>5, Zenon
    <3>2. Emu(h.file, k) \in h.locks <=> k \in C
      <4>1. h.file # Emu(h.file, k)
        BY <2>2, NameAssumption, Zenon DEF Handle
      <4>2. Emu(h.file, k) \in h.locks => k \in C
        BY <2>1, <2>2, <4>1, Zenon DEF EntryOK, Emu
      <4> QED BY <4>2, Zenon DEF Claimed
    <3> QED BY <2>1, <3>1, <3>2 DEF Locked, Handles
  <2>4. (\A k \in Range(Probes(a, d)) : ~Locked(Emu(h.file, k)))
          <=> ~Meets(h.acc, h.deny, a, d)
    BY <2>2, <2>3, WhichKinds, Zenon DEF Meets
  <2>5. /\ Locked(Emu(h.file, "W")) <=> Writes(h.acc)
        /\ Locked(Emu(h.file, "denyR")) <=> DeniesR(h.deny)
        /\ Locked(Emu(h.file, "compat")) <=> h.deny = "compat"
    BY <2>2, <2>3, WhichKinds, Zenon DEF Kinds
  <2>6. Answer(h.file, a, d) <=> Admits(h.acc, h.deny, a, d)
    <3> HIDE DEF h
    <3>1. (/\ Loophole(a, d) # <<>>
           /\ \A l \in Range(Loophole(a, d)) : Locked(Emu(h.file, l[1])) = l[2])
          <=> /\ ~Writes(a) /\ ~DeniesR(d) /\ ~Locked(Emu(h.file, "W"))
              /\ IF d = "compat" THEN ~Locked(Emu(h.file, "denyR"))
                 ELSE Locked(Emu(h.file, "compat"))
      BY LoopholeAnswer, Zenon
    <3> DEFINE L == /\ Loophole(a, d) # <<>>
                    /\ \A l \in Range(Loophole(a, d)) : Locked(Emu(h.file, l[1])) = l[2]
    <3>2. Answer(h.file, a, d) <=>
            (\A k \in Range(Probes(a, d)) : ~Locked(Emu(h.file, k))) \/ L
      BY Zenon DEF Answer
    <3> HIDE DEF L
    <3>3. L <=> /\ ~Writes(a) /\ ~DeniesR(d) /\ ~Locked(Emu(h.file, "W"))
                /\ IF d = "compat" THEN ~Locked(Emu(h.file, "denyR"))
                   ELSE Locked(Emu(h.file, "compat"))
      BY <3>1, Zenon DEF L
    <3> QED BY <2>4, <2>5, <3>2, <3>3, Zenon DEF Admits
  <2> QED BY <2>2, <2>6, TableExact, Zenon
<1> QED BY <1>1, Invariance, PTL
=============================================================================
