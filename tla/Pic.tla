-------------------------------- MODULE Pic --------------------------------
(***************************************************************************)
(* The interrupt controllers between the device threads, which raise and   *)
(* lower lines at any time, and the thread that runs DOS, which programs   *)
(* the controllers and takes interrupts.  Taking one is two calls, each    *)
(* under pic_mtx: pic_run and dpmi_pic_run ask pic_pending and then call   *)
(* pic_get_inum; a device may come in between.                             *)
(***************************************************************************)
EXTENDS I8259

CONSTANTS Dev,       \* IRQ numbers of the devices
          Commands,  \* bytes DOS writes to the command ports
          Data,      \* bytes DOS writes to the data ports
          Elcr       \* bytes DOS writes to the ELCR ports
Ctl == {"m", "s"}

ASSUME PicAssumption ==
  /\ Dev \subseteq (0..15) \ {2}
  /\ Commands \subseteq Byte /\ Data \subseteq Byte /\ Elcr \subseteq Byte

VARIABLES pics,      \* both controllers
          cpu,       \* "run", or "inum" after pic_pending answered yes
          newer,     \* newer[c]: <<i, j>> in service, i acknowledged after j
          withdrawn  \* a device lowered a line since pic_pending
vars == <<pics, cpu, newer, withdrawn>>

Init ==
  /\ pics = PicsInit
  /\ cpu = "run"
  /\ newer = [c \in Ctl |-> {}]
  /\ withdrawn = FALSE

(* The order of the acks: what left the ISR is dropped, what entered is    *)
(* newer than what was there.                                              *)
History(c) ==
  LET old == pics[c].isr
      now == pics'[c].isr
  IN {p \in newer[c] : p[1] \in now /\ p[2] \in now}
     \cup ((now \ old) \X (now \cap old))
Become(P) == pics' = P /\ newer' = [c \in Ctl |-> History(c)]

(* Devices, from any thread. *)
Request(irq) ==
  /\ Become(pic_request(pics, irq))
  /\ UNCHANGED <<cpu, withdrawn>>
Untrigger(irq) ==
  /\ Become(pic_untrigger(pics, irq))
  /\ withdrawn' = (cpu = "inum")
  /\ UNCHANGED cpu

(* pic_run and dpmi_pic_run. *)
pic_pending ==
  /\ cpu = "run" /\ Wants(pics, "m")
  /\ cpu' = "inum"
  /\ UNCHANGED <<pics, newer, withdrawn>>
pic_get_inum ==
  /\ cpu = "inum"
  /\ Become(pic_read_irq(pics))
  /\ cpu' = "run" /\ withdrawn' = FALSE

(* The DOS program, between instructions. *)
WriteCmd(c, v) ==
  /\ cpu = "run"
  /\ Become(pic_ioport_write(pics, c, 0, v))
  /\ UNCHANGED <<cpu, withdrawn>>
WriteImr(c, v) ==
  /\ cpu = "run"
  /\ Become(pic_ioport_write(pics, c, 1, v))
  /\ UNCHANGED <<cpu, withdrawn>>
ReadCmd(c) ==
  /\ cpu = "run"
  /\ Become(pic_ioport_read(pics, c, 0))
  /\ UNCHANGED <<cpu, withdrawn>>
WriteElcr(c, v) ==
  /\ cpu = "run"
  /\ Become(elcr_ioport_write(pics, c, v))
  /\ UNCHANGED <<cpu, withdrawn>>

Device == \E irq \in Dev : Request(irq) \/ Untrigger(irq)
Dos ==
  \/ pic_pending \/ pic_get_inum
  \/ \E c \in Ctl :
       \/ ReadCmd(c)
       \/ \E v \in Commands : WriteCmd(c, v)
       \/ \E v \in Data : WriteImr(c, v)
       \/ \E v \in Elcr : WriteElcr(c, v)
Next == Device \/ Dos
Spec == Init /\ [][Next]_vars
-----------------------------------------------------------------------------
(* Every register keeps its width. *)
TypeOK ==
  /\ pics \in Pics /\ cpu \in {"run", "inum"} /\ withdrawn \in BOOLEAN
  /\ newer \in [Ctl -> SUBSET (Line \X Line)]

(* i8259.c:92: the INT outputs follow the registers, the slave's one as    *)
(* the level of line 2 of the master; and the request of the slave is not  *)
(* lost on its way: while it wants an interrupt, line 2 is requested on    *)
(* the master or being served there.                                       *)
OutputsCurrent ==
  /\ TypeOK /\ OutCurrent(pics) /\ CascadeCurrent(pics)
  /\ Wants(pics, "s") => 2 \in pics.m.irr \cup pics.m.isr

(* A nonspecific end of interrupt, with or without rotation, ends the      *)
(* interrupt acknowledged last on that controller and no other one.        *)
EoiEndsLatest ==
  [][\A c \in Ctl, v \in Commands :
       (/\ v \div 32 \in {1, 5} /\ ~Bit(v, 4) /\ ~Bit(v, 3)
        /\ ~pics[c].poll /\ pics[c].isr # {} /\ WriteCmd(c, v))
       => \E i \in pics[c].isr :
            /\ pics'[c].isr = pics[c].isr \ {i}
            /\ \A j \in pics'[c].isr : <<i, j>> \in newer[c]]_vars

(* A spurious interrupt of the master needs a line that was lowered after  *)
(* pic_pending; the slave never gives one.                                 *)
SpuriousOnlyIfWithdrawn ==
  [][(~Wants(pics, Vector(pics)[1]) /\ pic_get_inum)
       => withdrawn /\ Vector(pics)[1] = "m"]_vars
=============================================================================
