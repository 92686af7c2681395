------------------------------ MODULE GuestProofs ------------------------------
(***************************************************************************)
(* What Platform promises of the services of a legacy boot, of the guest's *)
(* exits, of the shadowed registers and of what the firmware publishes,    *)
(* for every value of their constants, and the types of all its parts      *)
(* together.                                                               *)
(***************************************************************************)
EXTENDS PlatformProofs, SequenceTheorems

-------------------------------------------------------------------------------
(* The legacy services                                                     *)

Bootable(d) == d.found /\ ~d.partition /\ d.readable /\ d.signed

\* What a call holds at each point.
PoolsFit ==
  /\ pools \subseteq {"handles", "map", "sector"}
  /\ "map" \in pools => legacyPc = "e820"
  /\ "sector" \in pools => legacyPc = "sector"
  /\ "handles" \in pools => legacyPc \in {"int13", "scan", "sector"}

\* The scan has passed no disk that it should have taken, and a buffer is only
\* there for a disk that is not skipped.
ScanMissesNone ==
  /\ legacyPc \in {"scan", "sector"} =>
       \A i \in DOMAIN disks : i < call.disk => ~Bootable(disks[i])
  /\ legacyPc = "sector" => call.disk \in DOMAIN disks /\ ~Services!Skips(disks[call.disk])

ServicesInv ==
  /\ disks \in Seq(Services!Disk) /\ memory \in MemoryMaps /\ call \in Services!Call
  /\ legacyPc \in {"idle", "int13", "e820", "scan", "sector"} /\ PoolsFit
  /\ legacyPc = "int13" => disks # <<>>
  /\ owned # NULL => owned.of \in Seq(Services!Disk) /\ owned.disk \in DOMAIN owned.of
  /\ ScanMissesNone
  /\ Services!FirstBootSector /\ Services!MapWhole

\* The invariant is more than what a run checks.
LEMMA ServicesInvGives == ServicesInv => Services!TypeOK /\ Services!ServicesSound
<1>. SUFFICES ASSUME ServicesInv PROVE Services!TypeOK /\ Services!ServicesSound
  OBVIOUS
<1>1. pools \subseteq {"handles", "map", "sector"}
  BY DEF ServicesInv, PoolsFit
<1>2. Services!PoolsReturned
  BY DEF ServicesInv, PoolsFit, Services!PoolsReturned
<1>. QED  BY <1>1, <1>2 DEF ServicesInv, Services!TypeOK, Services!ServicesSound

LEMMA InitServices ==
  ASSUME Services!LegacyAssumption, Services!Init
  PROVE  ServicesInv
<1>1. call \in Services!Call
  BY DEF Services!Init, Services!NoCall, Services!Call
<1>2. disks \in Seq(Services!Disk) /\ memory \in MemoryMaps /\ pools = {} /\ owned = NULL
      /\ legacyPc = "idle"
  BY DEF Services!Init, Services!LegacyAssumption
<1>3. Services!MapWhole
  BY DEF Services!Init, Services!NoMap, Services!MapWhole
<1>. QED  BY <1>1, <1>2, <1>3 DEF ServicesInv, PoolsFit, ScanMissesNone, Services!FirstBootSector

\* The calls that touch neither a sector nor a map.
LEMMA DiskServices ==
  ASSUME Services!LegacyAssumption, ServicesInv,
         \/ \E f \in {"read", "write", "reset"} : Services!Int13Begin(f)
         \/ Services!Int13Transfer
  PROVE  ServicesInv'
<1>. UNCHANGED <<memory, owned, e820>>
  BY DEF Services!Int13Begin, Services!Int13Transfer
<1>1. Services!FirstBootSector' /\ Services!MapWhole'
  BY DEF ServicesInv, Services!FirstBootSector, Services!MapWhole
<1>2. ASSUME NEW f \in {"read", "write", "reset"}, Services!Int13Begin(f)
      PROVE  ServicesInv'
  <2>1. call' \in Services!Call
    BY <1>2 DEF Services!Int13Begin, Services!NoCall, Services!Call
  <2>. QED  BY <1>1, <1>2, <2>1 DEF ServicesInv, Services!Int13Begin, PoolsFit, ScanMissesNone
<1>3. CASE Services!Int13Transfer
  <2>1. call' \in Services!Call
    BY <1>3 DEF Services!Int13Transfer, Services!Return, Services!NoCall, Services!Call
  <2>2. disks' \in Seq(Services!Disk)
    <3>1. CASE UNCHANGED disks
      BY <3>1 DEF ServicesInv
    <3>2. ASSUME NEW s \in BOOLEAN, disks' = [disks EXCEPT ![1].signed = s]
          PROVE  disks' \in Seq(Services!Disk)
      <4>1. disks \in Seq(Services!Disk) /\ disks # <<>>
        BY <1>3 DEF ServicesInv, Services!Int13Transfer
      <4>2. disks[1] \in Services!Disk
        BY <4>1
      <4>. DEFINE d == [disks[1] EXCEPT !.signed = s]
      <4>3. d \in Services!Disk
        BY <4>2 DEF Services!Disk
      <4>4. disks' = [disks EXCEPT ![1] = d]
        BY <3>2
      <4>. QED  BY <4>1, <4>3, <4>4
    <3>. QED  BY <1>3, <3>1, <3>2 DEF Services!Int13Transfer
  <2>. QED  BY <1>1, <1>3, <2>1, <2>2 DEF ServicesInv, Services!Int13Transfer, Services!Return, PoolsFit,
                  ScanMissesNone
<1>. QED  BY <1>2, <1>3

\* The entries handed over are those of the map they were made from.
LEMMA MapServices ==
  ASSUME Services!LegacyAssumption, ServicesInv,
         \/ \E room \in Capacities : Services!E820Begin(room)
         \/ \E map \in MemoryMaps : Services!MapChanges(map)
         \/ Services!E820Fill
  PROVE  ServicesInv'
<1>. UNCHANGED <<disks, owned>>
  BY DEF Services!E820Begin, Services!MapChanges, Services!E820Fill
<1>1. Services!FirstBootSector'
  BY DEF ServicesInv, Services!FirstBootSector
<1>0. memory \in Seq(Services!MemoryTypes) /\ Len(memory) \in Nat
  BY DEF ServicesInv, Services!LegacyAssumption
<1>2. ASSUME NEW room \in Capacities, Services!E820Begin(room)
      PROVE  ServicesInv'
  <2>1. call' = [function |-> "reset", room |-> room, size |-> Len(memory), disk |-> 1]
    BY <1>2, Zenon DEF Services!E820Begin, Services!NoCall
  <2>2. call' \in Services!Call
    BY <1>0, <2>1 DEF Services!Call
  <2>. QED  BY <1>1, <1>2, <2>2 DEF ServicesInv, Services!E820Begin, PoolsFit, ScanMissesNone,
                  Services!MapWhole
<1>3. ASSUME NEW map \in MemoryMaps, Services!MapChanges(map)
      PROVE  ServicesInv'
  BY <1>1, <1>3 DEF ServicesInv, Services!MapChanges, PoolsFit, ScanMissesNone, Services!MapWhole
<1>4. CASE Services!E820Fill
  <2>1. call' \in Services!Call /\ legacyPc' = "idle" /\ pools' = {} /\ memory' = memory
    BY <1>4 DEF ServicesInv, Services!E820Fill, Services!Return, Services!NoCall, Services!Call, PoolsFit
  <2>2. Services!MapWhole'
    <3>1. CASE ~Services!MapFits
      BY <1>4, <3>1 DEF Services!E820Fill, ServicesInv, Services!MapWhole
    <3>2. CASE Services!MapFits
      <4>. DEFINE n == Services!Entries(memory, call.room)
                  s == [i \in 1 .. n |-> Services!E820Type(memory[i])]
      <4>1. call.room \in Nat
        <5>1. Capacities \cup {0} \subseteq Nat
          BY DEF Services!LegacyAssumption
        <5>. QED  BY <5>1 DEF ServicesInv, Services!Call
      <4>2. n \in Nat /\ n <= call.room /\ (n < Len(memory) => n = call.room)
        BY <1>0, <4>1 DEF Services!Entries
      <4>3. e820' = [entries |-> s, room |-> call.room, of |-> memory]
        BY <1>4, <3>2 DEF Services!E820Fill
      <4>. HIDE DEF n
      <4>4. Len(s) = n
        BY <4>2
      <4>. HIDE DEF s
      <4>5. /\ e820'.entries = s /\ e820'.room = call.room /\ Len(e820'.of) = Len(memory)
        BY <4>3
      <4>. QED  BY <4>2, <4>4, <4>5 DEF Services!MapWhole
    <3>. QED  BY <3>1, <3>2
  <2>. QED  BY <1>1, <2>1, <2>2 DEF ServicesInv, PoolsFit, ScanMissesNone
<1>. QED  BY <1>2, <1>3, <1>4

\* The scan passes a disk only for a reason, and takes the first one left.
LEMMA ScanServices ==
  ASSUME Services!LegacyAssumption, ServicesInv,
         \/ Services!ScanBegin \/ Services!ScanSkips \/ Services!ScanAllocates
         \/ Services!ScanReads \/ Services!ScanEnds \/ Services!SectorFreed
  PROVE  ServicesInv'
<1>. UNCHANGED <<disks, memory, e820>>
  BY DEF Services!ScanBegin, Services!ScanSkips, Services!ScanAllocates, Services!ScanReads,
         Services!ScanEnds, Services!SectorFreed
<1>1. Services!MapWhole'
  BY DEF ServicesInv, Services!MapWhole
<1>2. Services!NoCall \in Services!Call
  BY DEF Services!NoCall, Services!Call
<1>3. /\ call.disk \in Nat \ {0}
      /\ [call EXCEPT !.disk = @ + 1] \in Services!Call
      /\ [call EXCEPT !.disk = @ + 1].disk = call.disk + 1
  BY DEF ServicesInv, Services!Call
<1>4. CASE Services!ScanBegin
  <2>1. call'.disk = 1
    BY <1>4 DEF Services!ScanBegin, Services!NoCall
  <2>2. ScanMissesNone'
    BY <1>4, <2>1 DEF ScanMissesNone, Services!ScanBegin, ServicesInv
  <2>. QED  BY <1>1, <1>2, <1>4, <2>2 DEF ServicesInv, Services!ScanBegin, PoolsFit,
                  Services!FirstBootSector
<1>5. CASE Services!ScanSkips
  <2>1. ~Bootable(disks[call.disk])
    BY <1>5 DEF Services!ScanSkips, Services!Skips, Bootable
  <2>2. /\ call' = [call EXCEPT !.disk = @ + 1] /\ legacyPc' = "scan" /\ legacyPc = "scan"
        /\ UNCHANGED owned /\ pools' \subseteq pools
    BY <1>5 DEF Services!ScanSkips, Services!NextDisk
  <2>3. ScanMissesNone'
    BY <1>3, <2>1, <2>2 DEF ScanMissesNone, ServicesInv
  <2>. QED  BY <1>1, <1>3, <2>2, <2>3 DEF ServicesInv, PoolsFit, Services!FirstBootSector
<1>6. CASE Services!ScanAllocates
  <2>1. /\ legacyPc = "scan" /\ call.disk \in DOMAIN disks /\ ~Services!Skips(disks[call.disk])
        /\ UNCHANGED owned
    BY <1>3, <1>6 DEF Services!ScanAllocates, ServicesInv
  <2>2. CASE legacyPc' = "sector" /\ pools' = pools \cup {"sector"} /\ UNCHANGED call
    <3>1. ScanMissesNone'
      BY <2>1, <2>2 DEF ScanMissesNone, ServicesInv
    <3>. QED  BY <1>1, <2>1, <2>2, <3>1 DEF ServicesInv, PoolsFit, Services!FirstBootSector
  <2>3. CASE Services!Return({"handles"})
    BY <1>1, <1>2, <2>1, <2>3 DEF Services!Return, ServicesInv, PoolsFit, ScanMissesNone,
                  Services!FirstBootSector
  <2>. QED  BY <1>6, <2>2, <2>3 DEF Services!ScanAllocates
<1>7. CASE Services!ScanReads
  <2>. DEFINE d == disks[call.disk]
  <2>1. /\ legacyPc = "sector" /\ call.disk \in DOMAIN disks /\ d.found /\ ~d.partition
        /\ \A i \in DOMAIN disks : i < call.disk => ~Bootable(disks[i])
    BY <1>7, Zenon DEF Services!ScanReads, ServicesInv, ScanMissesNone, Services!Skips
  <2>2. CASE d.readable /\ d.signed
    <3>1. /\ owned' = [disk |-> call.disk, of |-> disks] /\ legacyPc' = "idle"
          /\ pools' = pools \ {"handles", "sector"} /\ call' = Services!NoCall
      BY <1>7, <2>2 DEF Services!ScanReads, Services!Return
    <3>2. Bootable(d)
      BY <2>1, <2>2 DEF Bootable
    <3>3. \A i \in 1 .. call.disk - 1 : ~Bootable(disks[i])
      BY <1>3, <2>1 DEF ServicesInv
    <3>4. Services!FirstBootSector'
      BY <3>1, <3>2, <3>3 DEF Services!FirstBootSector, Bootable
    <3>. QED  BY <1>1, <1>2, <2>1, <3>1, <3>4 DEF ServicesInv, PoolsFit, ScanMissesNone
  <2>3. CASE ~(d.readable /\ d.signed)
    <3>1. /\ call' = [call EXCEPT !.disk = @ + 1] /\ legacyPc' = "scan"
          /\ UNCHANGED owned /\ pools' = pools \ {"sector"}
      BY <1>7, <2>3 DEF Services!ScanReads, Services!Unreadable, Services!NextDisk
    <3>2. ~Bootable(d)
      BY <2>3 DEF Bootable
    <3>3. ScanMissesNone'
      BY <1>3, <2>1, <3>1, <3>2 DEF ScanMissesNone, ServicesInv
    <3>. QED  BY <1>1, <1>3, <2>1, <3>1, <3>3 DEF ServicesInv, PoolsFit, Services!FirstBootSector
  <2>. QED  BY <2>2, <2>3
<1>8. CASE Services!ScanEnds
  BY <1>1, <1>2, <1>8 DEF Services!ScanEnds, Services!Return, ServicesInv, PoolsFit, ScanMissesNone,
     Services!FirstBootSector
<1>9. CASE Services!SectorFreed
  BY <1>1, <1>9 DEF Services!SectorFreed, ServicesInv, PoolsFit, ScanMissesNone,
     Services!FirstBootSector
<1>. QED  BY <1>4, <1>5, <1>6, <1>7, <1>8, <1>9

LEMMA NextServices ==
  ASSUME Services!LegacyAssumption, ServicesInv, [Services!Next]_Services!vars
  PROVE  ServicesInv'
<1>1. CASE UNCHANGED Services!vars
  BY <1>1 DEF Services!vars, ServicesInv, PoolsFit, ScanMissesNone, Services!FirstBootSector,
              Services!MapWhole
<1>. QED  BY <1>1, DiskServices, MapServices, ScanServices DEF Services!Next

LEMMA StepOfServices == [Next]_vars => [Services!Next]_Services!vars
<1>1. ServiceStep => Services!Next
  BY DEF ServiceStep
<1>2. [Next]_vars => ServiceStep \/ UNCHANGED legacyVars
  BY DEF Next, vars, BootStep, Rest, ExitStep, ShadowStep, ApicStep, SmmStep
<1>3. UNCHANGED legacyVars => UNCHANGED Services!vars
  BY DEF legacyVars, Services!vars
<1>. QED  BY <1>1, <1>2, <1>3

LEMMA ServicesInvAlways == Spec => []ServicesInv
<1>1. Services!LegacyAssumption
  BY PartsAssumption DEF PartsAssumption
<1>2. Init => ServicesInv
  BY <1>1, InitServices DEF Init
<1>3. ServicesInv /\ [Next]_vars => ServicesInv'
  BY <1>1, StepOfServices, NextServices
<1>. QED  BY <1>2, <1>3, PTL DEF Spec

\* Whatever fails on the way, a service of the legacy boot frees what it
\* allocates, hands over the first boot sector there is, and fills the caller's
\* room from one memory map.
THEOREM ServicesAlways == Spec => []ServicesSound
<1>1. ServicesInv => ServicesSound
  BY ServicesInvGives DEF ServicesSound
<1>. QED  BY <1>1, ServicesInvAlways, PTL

-------------------------------------------------------------------------------
(* The guest's exits                                                       *)

\* Quotient and remainder determine each other.
LEMMA Division ==
  ASSUME NEW n \in Nat \ {0}, NEW q \in Nat, NEW r \in 0 .. n - 1
  PROVE  (r + q * n) \div n = q /\ (r + q * n) % n = r
<1>. DEFINE x == r + q * n
            p == x \div n
<1>1. q * n \in Nat /\ x \in Nat
  BY SMT
<1>2. p \in Nat /\ p * n <= x /\ x < (p + 1) * n /\ x % n = x - p * n
  BY <1>1, SMT
<1>. HIDE DEF p
<1>3. p < q => (p + 1) * n <= q * n
  BY <1>2, SMT
<1>4. p > q => (q + 1) * n <= p * n
  BY <1>2, SMT
<1>5. (q + 1) * n = q * n + n /\ (p + 1) * n \in Nat /\ p * n \in Nat
  BY <1>2, SMT
<1>6. p = q
  BY <1>1, <1>2, <1>3, <1>4, <1>5, SMT
<1>7. x % n = r
  BY <1>1, <1>2, <1>6, SMT
<1>. QED  BY <1>6, <1>7 DEF p

\* The two halves of a register.
LEMMA Halves ==
  ASSUME Exits!ExitsAssumption
  PROVE  /\ W \in Nat \ {0, 1} /\ 0 \in Exits!Word /\ 1 \in Exits!Word
         /\ Exits!Word \subseteq Exits!Register
         /\ \A r \in Exits!Register : Exits!Low(r) \in Exits!Word /\ Exits!High(r) \in Exits!Word
         /\ \A l, h \in Exits!Word : /\ l + h * W \in Exits!Register
                                     /\ h * W + l \in Exits!Register
                                     /\ Exits!Low(l + h * W) = l /\ Exits!High(l + h * W) = h
<1>1. W \in Nat \ {0, 1}
  BY DEF Exits!ExitsAssumption
<1>2. W * W \in Nat /\ W * W >= 2 * W
  BY <1>1, SMT
<1>3. ASSUME NEW r \in Exits!Register
      PROVE  Exits!Low(r) \in Exits!Word /\ Exits!High(r) \in Exits!Word
  <2>. DEFINE q == r \div W
  <2>1. r \in Nat /\ r < W * W
    BY <1>2, <1>3 DEF Exits!Register
  <2>2. r % W \in 0 .. W - 1 /\ q \in Nat /\ q * W <= r
    BY <1>1, <2>1, SMT
  <2>. HIDE DEF q
  <2>3. q >= W => q * W >= W * W
    BY <1>1, <2>2, SMT
  <2>4. q * W \in Nat
    BY <1>1, <2>2, SMT
  <2>5. q < W
    BY <1>1, <1>2, <2>1, <2>2, <2>3, <2>4
  <2>. QED  BY <1>1, <2>2, <2>5 DEF q, Exits!Low, Exits!High, Exits!Word
<1>4. ASSUME NEW l \in Exits!Word, NEW h \in Exits!Word
      PROVE  /\ l + h * W \in Exits!Register /\ h * W + l \in Exits!Register
             /\ Exits!Low(l + h * W) = l /\ Exits!High(l + h * W) = h
  <2>1. h \in Nat /\ h <= W - 1 /\ l \in 0 .. W - 1 /\ W \in Nat \ {0}
    BY <1>1, <1>4 DEF Exits!Word
  <2>2. h * W \in Nat /\ h * W <= (W - 1) * W
    BY <2>1, SMT
  <2>3. (W - 1) * W = W * W - W
    BY <2>1, SMT
  <2>4. l + h * W \in 0 .. W * W - 1 /\ h * W + l \in 0 .. W * W - 1
    BY <1>2, <2>1, <2>2, <2>3
  <2>5. (l + h * W) \div W = h /\ (l + h * W) % W = l
    BY <2>1, Division
  <2>. QED  BY <2>4, <2>5 DEF Exits!Low, Exits!High, Exits!Register
<1>5. 0 \in Exits!Word /\ 1 \in Exits!Word /\ Exits!Word \subseteq Exits!Register
  BY <1>1, <1>2 DEF Exits!Word, Exits!Register
<1>. QED  BY <1>1, <1>3, <1>4, <1>5

\* A value without its odd multiple of a bit.
LEMMA BitCleared ==
  ASSUME NEW x \in Nat, NEW bit \in Nat \ {0}
  PROVE  /\ Exits!ClearBit(x, bit) \in 0 .. x
         /\ (Exits!ClearBit(x, bit) \div bit) % 2 = 0
<1>. DEFINE q == x \div bit
            r == x % bit
<1>1. q \in Nat /\ r \in 0 .. bit - 1
  BY SMT
<1>2. x = r + q * bit
  BY SMT
<1>. HIDE DEF q, r
<1>3. CASE q % 2 = 1
  <2>1. q - 1 \in Nat /\ (q - 1) % 2 = 0
    BY <1>1, <1>3
  <2>2. (q - 1) * bit = q * bit - bit /\ (q - 1) * bit \in Nat /\ q * bit \in Nat
    BY <1>1, <2>1, SMT
  <2>3. x - bit = r + (q - 1) * bit /\ x - bit \in 0 .. x
    BY <1>1, <1>2, <2>2
  <2>4. (x - bit) \div bit = q - 1
    BY <1>1, <2>1, <2>3, Division
  <2>5. Exits!ClearBit(x, bit) = x - bit
    BY <1>3 DEF Exits!ClearBit, q
  <2>. QED  BY <2>1, <2>3, <2>4, <2>5
<1>4. CASE q % 2 # 1
  <2>1. q % 2 = 0
    BY <1>1, <1>4
  <2>2. Exits!ClearBit(x, bit) = x
    BY <1>4 DEF Exits!ClearBit, q
  <2>. QED  BY <2>1, <2>2 DEF q
<1>. QED  BY <1>3, <1>4

\* With the topmost bit cleared and then another, neither is left.
LEMMA BothCleared ==
  ASSUME Exits!ExitsAssumption, NEW x \in Exits!Word
  PROVE  LET c == Exits!ClearBit(Exits!ClearBit(x, HvBit), VmxBit)
         IN  /\ c \in Exits!Word
             /\ (c \div VmxBit) % 2 = 0 /\ (c \div HvBit) % 2 = 0
<1>. DEFINE y == Exits!ClearBit(x, HvBit)
            c == Exits!ClearBit(y, VmxBit)
<1>1. /\ x \in Nat /\ x < W /\ W = 2 * HvBit
      /\ HvBit \in Nat \ {0} /\ VmxBit \in Nat \ {0}
  BY DEF Exits!ExitsAssumption, Exits!Word
<1>2. y \in 0 .. x /\ (y \div HvBit) % 2 = 0
  BY <1>1, BitCleared
<1>. HIDE DEF y
<1>0. y \in Nat
  BY <1>1, <1>2
<1>3. c \in 0 .. y /\ (c \div VmxBit) % 2 = 0
  BY <1>0, <1>1, BitCleared
<1>. HIDE DEF c
<1>4. y < HvBit
  <2>. DEFINE q == y \div HvBit
  <2>1. q \in Nat /\ q * HvBit <= y /\ y < (q + 1) * HvBit /\ q % 2 = 0
    BY <1>1, <1>2, SMT
  <2>. HIDE DEF q
  <2>2. q >= 2 => q * HvBit >= 2 * HvBit
    BY <1>1, <2>1, SMT
  <2>3. q * HvBit \in Nat
    BY <1>1, <2>1, SMT
  <2>4. q < 2
    BY <1>1, <1>2, <2>1, <2>2, <2>3
  <2>5. q = 0
    BY <2>1, <2>4
  <2>. QED  BY <1>1, <2>1, <2>5
<1>5. c \div HvBit = 0
  <2>1. c \in 0 .. HvBit - 1 /\ c = c + 0 * HvBit
    BY <1>1, <1>2, <1>3, <1>4
  <2>. QED  BY <1>1, <2>1, Division
<1>6. c \in Exits!Word
  BY <1>1, <1>2, <1>3 DEF Exits!Word
<1>7. (c \div HvBit) % 2 = 0
  BY <1>5
<1>. QED  BY <1>3, <1>6, <1>7 DEF c, y

ExitsInv ==
  /\ Exits!TypeOK /\ core \in {"vmx", "svm"} /\ answer \in {"none", "features", "msr"}
  /\ exit # NULL => Exits!Takes(exit)
  /\ DOMAIN wrote = Exits!Word
  /\ Exits!GuestKeptIn

\* What a handler has done when it is through with its exit.
HandledWell ==
  /\ gpr' \in [Gprs -> Exits!Register] /\ cr' \in [Crs -> Exits!Register]
  /\ rip' \in 0 .. Window - 1
  /\ Exits!HandledAsMeant(exit) =>
       /\ rip' = (rip + (IF exit.reason \in Exits!Events THEN 0 ELSE exit.length)) % Window
       /\ \A r \in Gprs \ Exits!Outputs(exit) : gpr'[r] = gpr[r]
       /\ cr' # cr => /\ exit.reason = "CR_ACCESS" /\ exit.type = 0
                      /\ cr' = [cr EXCEPT ![exit.num] = gpr[Exits!Numbered(exit.reg)]]
       /\ exitMsr' # exitMsr => exit.reason = "WRMSR"

\* The fields of an exit.
LEMMA ExitFields ==
  ASSUME NEW e \in Exits!Exits
  PROVE  /\ e.length \in Lengths
         /\ e.reason = "CR_ACCESS" => e.reg \in Gprs
         /\ e.reason \in Exits!Instructions \cup Exits!Faults \cup Exits!Events \cup {"CR_ACCESS", "NPF"}
<1>1. CASE \E r \in Exits!Instructions \cup Exits!Faults \cup Exits!Events, l \in Lengths :
             e = Exits!Exit(r, l)
  <2>1. PICK r \in Exits!Instructions \cup Exits!Faults \cup Exits!Events, l \in Lengths :
          e = Exits!Exit(r, l)
    BY <1>1
  <2>2. e.length = l /\ e.reason = r
    BY <2>1 DEF Exits!Exit
  <2>3. r # "CR_ACCESS"
    BY DEF Exits!Instructions, Exits!Faults, Exits!Events
  <2>. QED  BY <2>2, <2>3
<1>2. CASE e \in [reason : {"CR_ACCESS"}, length : Lengths, num : Crs \cup {8}, type : 0 .. 3,
                  reg : Gprs]
  BY <1>2
<1>3. CASE e \in [reason : {"NPF"}, length : Lengths, num : {0, 1}, type : 0 .. 1, reg : {0}]
  BY <1>3
<1>. QED  BY <1>1, <1>2, <1>3 DEF Exits!Exits

\* An instruction pointer n bytes further is somewhere else.
LEMMA Moves ==
  ASSUME Exits!ExitsAssumption, ExitsInv, NEW n \in 0 .. Window - 1
  PROVE  /\ (rip + n) % Window \in 0 .. Window - 1
         /\ n # 0 => (rip + n) % Window # rip
<1>1. Window \in Nat \ {0, 1} /\ rip \in 0 .. Window - 1
  BY DEF Exits!ExitsAssumption, ExitsInv, Exits!TypeOK
<1>2. (rip + n) % Window = IF rip + n < Window THEN rip + n ELSE rip + n - Window
  <2>1. CASE rip + n < Window
    <3>1. rip + n \in 0 .. Window - 1 /\ rip + n = rip + n + 0 * Window
      BY <1>1, <2>1
    <3>. QED  BY <1>1, <2>1, <3>1, Division
  <2>2. CASE ~(rip + n < Window)
    <3>. DEFINE r == rip + n - Window
    <3>1. r \in 0 .. Window - 1 /\ rip + n = r + 1 * Window
      BY <1>1, <2>2
    <3>. HIDE DEF r
    <3>2. (r + 1 * Window) % Window = r
      BY <1>1, <3>1, Division
    <3>. QED  BY <2>2, <3>1, <3>2 DEF r
  <2>. QED  BY <2>1, <2>2
<1>. QED  BY <1>1, <1>2

\* The guest goes on n bytes further.
LEMMA Advances ==
  ASSUME Exits!ExitsAssumption, ExitsInv, NEW n \in 0 .. Window - 1, Exits!Advance(n)
  PROVE  /\ rip' = (rip + n) % Window /\ rip' \in 0 .. Window - 1 /\ cr' = cr
         /\ n # 0 => rip' # rip
<1>1. rip' = (rip + n) % Window /\ cr' = cr
  BY DEF Exits!Advance, Exits!VmxWriteGuestState, Exits!VmxReadGuestState
<1>. QED  BY <1>1, Moves

LEMMA LengthsFit ==
  ASSUME Exits!ExitsAssumption
  PROVE  /\ \A l \in Lengths : l \in 0 .. Window - 1 /\ l # 0
         /\ 0 \in 0 .. Window - 1 /\ 1 \in 0 .. Window - 1
BY DEF Exits!ExitsAssumption

\* What is left to show of a handler that changes no MSR and gives no answer.
LEMMA OthersKept ==
  ASSUME ExitsInv, HandledWell, exit' = NULL, core' = core, lapicId' \in Exits!Word,
         answer' = "none", UNCHANGED <<exitMsr, wrote>>
  PROVE  ExitsInv'
<1>1. Exits!TypeOK'
  BY DEF ExitsInv, HandledWell, Exits!TypeOK
<1>2. Exits!GuestKeptIn'
  BY DEF ExitsInv, Exits!GuestKeptIn
<1>. QED  BY <1>1, <1>2 DEF ExitsInv

\* CPUID: the leaf is the low half, and of its features two are missing.
LEMMA CpuidHandled ==
  ASSUME Exits!ExitsAssumption, ExitsInv, exit \in Exits!Exits, exit.reason = "CPUID",
         Exits!HandleCpuidExit
  PROVE  HandledWell /\ (exit' = NULL /\ core' = core => ExitsInv')
<1>. DEFINE leaf == Exits!Leaf
            regs == Exits!CpuidFor(leaf)
            raw  == Leaves[leaf % W]
<1>0. /\ gpr \in [Gprs -> Exits!Register] /\ {0, 1, 2, 3} \subseteq Gprs
      /\ Leaves \in [Exits!Word -> [1 .. 4 -> Exits!Word]] /\ MaxLeaf \in Exits!Word
  BY DEF ExitsInv, Exits!TypeOK, Exits!ExitsAssumption, Exits!RAX, Exits!RBX, Exits!RCX, Exits!RDX
<1>1. leaf \in Exits!Word /\ leaf = Exits!Low(gpr[0]) /\ leaf % W \in Exits!Word
  <2>1. leaf \in Exits!Word /\ leaf = Exits!Low(gpr[0])
    BY <1>0, Halves DEF Exits!Leaf, Exits!RAX
  <2>2. W \in Nat \ {0, 1}
    BY Halves
  <2>. QED  BY <2>1, <2>2 DEF Exits!Word
<1>2. raw \in [1 .. 4 -> Exits!Word]
  BY <1>0, <1>1
<1>3. regs \in [1 .. 4 -> Exits!Word]
  <2>. HIDE DEF leaf, raw
  <2>0. Exits!CpuidFor(leaf) =
          IF leaf = 1
          THEN [raw EXCEPT ![3] = Exits!ClearBit(Exits!ClearBit(raw[3], HvBit), VmxBit)]
          ELSE IF leaf = 0 /\ raw[1] > MaxLeaf THEN [raw EXCEPT ![1] = MaxLeaf] ELSE raw
    BY DEF Exits!CpuidFor, raw
  <2>1. raw[3] \in Exits!Word
    BY <1>2
  <2>2. Exits!ClearBit(Exits!ClearBit(raw[3], HvBit), VmxBit) \in Exits!Word
    BY <2>1, BothCleared
  <2>. QED  BY <1>0, <1>2, <2>0, <2>2
<1>4. leaf = 1 => (regs[3] \div VmxBit) % 2 = 0 /\ (regs[3] \div HvBit) % 2 = 0
  <2>. SUFFICES ASSUME leaf = 1
                PROVE  (regs[3] \div VmxBit) % 2 = 0 /\ (regs[3] \div HvBit) % 2 = 0
    OBVIOUS
  <2>1. raw[3] \in Exits!Word
    BY <1>2
  <2>2. regs[3] = Exits!ClearBit(Exits!ClearBit(raw[3], HvBit), VmxBit)
    BY <1>2 DEF Exits!CpuidFor
  <2>. QED  BY <2>1, <2>2, BothCleared
<1>. HIDE DEF regs, leaf, raw
<1>5. /\ gpr' = [gpr EXCEPT ![0] = regs[1], ![1] = regs[2], ![2] = regs[3], ![3] = regs[4]]
      /\ answer' = IF leaf = 1 THEN "features" ELSE "none"
      /\ UNCHANGED <<exitMsr, lapicId, wrote>>
  BY <1>1 DEF Exits!HandleCpuidExit, Exits!RAX, Exits!RBX, Exits!RCX, Exits!RDX, regs, leaf
<1>6. gpr' \in [Gprs -> Exits!Register] /\ gpr'[2] = regs[3]
      /\ \A r \in Gprs \ {0, 1, 2, 3} : gpr'[r] = gpr[r]
  <2>1. \A i \in 1 .. 4 : regs[i] \in Exits!Register
    BY <1>3, Halves
  <2>. QED  BY <1>0, <1>5, <2>1
<1>7. HandledWell
  <2>1. exit.length \in 0 .. Window - 1 /\ exit.length # 0
    BY ExitFields, LengthsFit
  <2>2. /\ rip' = (rip + exit.length) % Window /\ rip' \in 0 .. Window - 1 /\ cr' = cr
        /\ rip' # rip
    BY <2>1, Advances DEF Exits!HandleCpuidExit
  <2>3. cr \in [Crs -> Exits!Register]
    BY DEF ExitsInv, Exits!TypeOK
  <2>4. Exits!Outputs(exit) = {0, 1, 2, 3} /\ exit.reason \notin Exits!Events
    BY DEF Exits!Outputs, Exits!Events, Exits!RAX, Exits!RBX, Exits!RCX, Exits!RDX
  <2>. QED  BY <1>5, <1>6, <2>2, <2>3, <2>4 DEF HandledWell
<1>8. ASSUME exit' = NULL, core' = core
      PROVE  ExitsInv'
  <2>1. Exits!TypeOK'
    BY <1>5, <1>7, <1>8 DEF ExitsInv, HandledWell, Exits!TypeOK
  <2>2. Exits!GuestKeptIn'
    BY <1>4, <1>5, <1>6, <1>8 DEF ExitsInv, Exits!GuestKeptIn, Exits!RCX
  <2>. QED  BY <1>5, <1>8, <2>1, <2>2 DEF ExitsInv
<1>. QED  BY <1>7, <1>8

\* RDMSR and WRMSR: only an MSR that is not protected is written, with the low
\* halves of two registers, and under VMX only by WRMSR, so that a later reading
\* finds them.
LEMMA MsrHandled ==
  ASSUME Exits!ExitsAssumption, ExitsInv, exit \in Exits!Exits,
         exit.reason \in {"RDMSR", "WRMSR"}, Exits!HandleMsrExit
  PROVE  HandledWell /\ (exit' = NULL /\ core' = core => ExitsInv')
<1>. DEFINE m == Exits!Low(gpr[2])
            lo == Exits!Low(gpr[0])
            hi == Exits!Low(gpr[3])
<1>0. /\ gpr \in [Gprs -> Exits!Register] /\ {0, 2, 3} \subseteq Gprs
      /\ exitMsr \in [Exits!Word -> Exits!Register]
  BY DEF ExitsInv, Exits!TypeOK, Exits!ExitsAssumption, Exits!RAX, Exits!RCX, Exits!RDX
<1>1. m \in Exits!Word /\ lo \in Exits!Word /\ hi \in Exits!Word
  BY <1>0, Halves
<1>2. /\ lo + hi * W \in Exits!Register
      /\ Exits!Low(lo + hi * W) = lo /\ Exits!High(lo + hi * W) = hi
  BY <1>1, Halves
<1>3. Exits!MsrValue = lo + hi * W
  BY DEF Exits!MsrValue, Exits!RAX, Exits!RDX
<1>4. /\ answer' \in {"none", "msr"} /\ lapicId' = lapicId /\ Exits!Advance(exit.length)
  BY DEF Exits!HandleMsrExit
<1>5. /\ exit.length \in 0 .. Window - 1 /\ exit.length # 0 /\ exit.reason \notin Exits!Events
  BY ExitFields, LengthsFit DEF Exits!Events
<1>6. /\ rip' = (rip + exit.length) % Window /\ rip' \in 0 .. Window - 1 /\ cr' = cr
      /\ rip' # rip /\ cr \in [Crs -> Exits!Register]
  BY <1>4, <1>5, Advances DEF ExitsInv, Exits!TypeOK
<1>. HIDE DEF m, lo, hi
<1>7. CASE Exits!IsRead
  <2>1. /\ gpr' = [gpr EXCEPT ![0] = Exits!Low(exitMsr[m]), ![3] = Exits!High(exitMsr[m])]
        /\ UNCHANGED <<exitMsr, wrote>>
    BY <1>7 DEF Exits!HandleMsrExit, Exits!RAX, Exits!RCX, Exits!RDX, m
  <2>2. exitMsr[m] \in Exits!Register
    BY <1>0, <1>1
  <2>3. Exits!Low(exitMsr[m]) \in Exits!Register /\ Exits!High(exitMsr[m]) \in Exits!Register
    BY <2>2, Halves
  <2>4. gpr' \in [Gprs -> Exits!Register] /\ \A r \in Gprs \ {0, 3} : gpr'[r] = gpr[r]
    BY <1>0, <2>1, <2>3
  <2>5. Exits!Outputs(exit) = {0, 3}
    BY <1>7 DEF Exits!IsRead, Exits!Outputs, Exits!RAX, Exits!RDX
  <2>6. HandledWell
    BY <1>5, <1>6, <2>1, <2>4, <2>5 DEF HandledWell
  <2>7. ASSUME exit' = NULL, core' = core
        PROVE  ExitsInv'
    <3>1. Exits!TypeOK'
      BY <1>4, <2>1, <2>6, <2>7 DEF ExitsInv, HandledWell, Exits!TypeOK
    <3>2. Exits!GuestKeptIn'
      BY <1>4, <2>1, <2>7 DEF ExitsInv, Exits!GuestKeptIn
    <3>. QED  BY <1>4, <2>1, <2>7, <3>1, <3>2 DEF ExitsInv
  <2>. QED  BY <2>6, <2>7
<1>8. CASE ~Exits!IsRead
  <2>1. /\ exitMsr' = IF m \in Protected THEN exitMsr ELSE [exitMsr EXCEPT ![m] = lo + hi * W]
        /\ wrote' = IF exit.reason = "RDMSR" \/ m \in Protected THEN wrote
                    ELSE [wrote EXCEPT ![m] = <<hi, lo>>]
        /\ gpr' = gpr
    BY <1>3, <1>8 DEF Exits!HandleMsrExit, Exits!RAX, Exits!RCX, Exits!RDX, m, lo, hi
  <2>2. HandledWell
    <3>1. Exits!HandledAsMeant(exit) => exit.reason = "WRMSR"
      BY <1>8 DEF Exits!HandledAsMeant, Exits!IsRead, ExitsInv
    <3>. QED  BY <1>0, <1>5, <1>6, <2>1, <3>1 DEF HandledWell
  <2>3. ASSUME exit' = NULL, core' = core
        PROVE  ExitsInv'
    <3>0. exitMsr' \in [Exits!Word -> Exits!Register]
      BY <1>0, <1>2, <2>1
    <3>1. Exits!TypeOK'
      BY <1>4, <2>2, <2>3, <3>0 DEF ExitsInv, HandledWell, Exits!TypeOK
    <3>2. \A p \in Protected : exitMsr'[p] = 0
      <4>1. \A p \in Protected : exitMsr[p] = 0 /\ p \in Exits!Word
        BY DEF ExitsInv, Exits!GuestKeptIn, Exits!ExitsAssumption
      <4>. QED  BY <1>0, <2>1, <4>1
    <3>3. ASSUME core = "vmx", NEW n \in Exits!Word, wrote'[n] # NULL
          PROVE  <<Exits!High(exitMsr'[n]), Exits!Low(exitMsr'[n])>> = wrote'[n]
      <4>0. exit.reason # "RDMSR"
        BY <1>8, <3>3 DEF Exits!IsRead
      <4>1. wrote[n] # NULL => <<Exits!High(exitMsr[n]), Exits!Low(exitMsr[n])>> = wrote[n]
        BY <3>3 DEF ExitsInv, Exits!GuestKeptIn
      <4>2. CASE m \in Protected \/ n # m
        BY <1>0, <2>1, <3>3, <4>0, <4>1, <4>2
      <4>3. CASE ~(m \in Protected) /\ n = m /\ n \in DOMAIN wrote
        BY <1>0, <1>2, <2>1, <4>0, <4>3
      <4>4. n \in DOMAIN wrote
        BY DEF ExitsInv
      <4>. QED  BY <4>2, <4>3, <4>4
    <3>4. Exits!GuestKeptIn'
      BY <1>4, <2>3, <3>2, <3>3 DEF Exits!GuestKeptIn
    <3>. QED  BY <1>4, <2>1, <2>3, <3>1, <3>4 DEF ExitsInv
  <2>. QED  BY <2>2, <2>3
<1>. QED  BY <1>7, <1>8

\* What an exit that is taken and all handlers have in common.
LEMMA ExitTaken ==
  ASSUME Exits!ExitsAssumption, ExitsInv, exit # NULL
  PROVE  /\ exit \in Exits!Exits /\ Exits!Takes(exit)
         /\ exit.length \in 0 .. Window - 1 /\ exit.length # 0
         /\ gpr \in [Gprs -> Exits!Register] /\ Exits!RAX \in Gprs
         /\ cr \in [Crs -> Exits!Register] /\ 0 \in Exits!Register
         /\ lapicId \in Exits!Word
<1>1. exit \in Exits!Exits /\ Exits!Takes(exit)
  BY DEF ExitsInv, Exits!TypeOK
<1>2. exit.length \in 0 .. Window - 1 /\ exit.length # 0
  BY <1>1, ExitFields, LengthsFit
<1>3. 0 \in Exits!Register /\ Exits!RAX \in Gprs
  BY Halves DEF Exits!ExitsAssumption
<1>. QED  BY <1>1, <1>2, <1>3 DEF ExitsInv, Exits!TypeOK

\* Accesses to control registers: under VMX a plain move changes the control
\* register or the register it names, and neither core leaves the types.
LEMMA CrHandled ==
  ASSUME Exits!ExitsAssumption, ExitsInv, exit # NULL, exit.reason = "CR_ACCESS",
         Exits!HandleCrAccess
  PROVE  HandledWell /\ lapicId' \in Exits!Word /\ answer' = "none" /\ UNCHANGED <<exitMsr, wrote>>
<1>. DEFINE moved == IF core = "vmx" THEN Exits!VmxHandleCrAccess ELSE Exits!SvmHandleCrAccess
<1>1. /\ rip' = (rip + exit.length) % Window /\ cr' = moved[1] /\ gpr' = moved[2]
      /\ answer' = "none" /\ UNCHANGED <<exitMsr, lapicId, wrote>>
  BY DEF Exits!HandleCrAccess, Exits!VmxWriteGuestState
<1>2. rip' \in 0 .. Window - 1 /\ exit.reason \notin Exits!Events
  BY <1>1, ExitTaken, Moves DEF Exits!Events
<1>3. exit.reg \in Gprs
  BY ExitTaken, ExitFields
<1>4. \A value \in Exits!Register : Exits!CrLoaded(value) \in [Crs -> Exits!Register]
  BY ExitTaken DEF Exits!CrLoaded
<1>5. CASE core = "vmx"
  <2>1. gpr[exit.reg] \in Exits!Register
    BY <1>3, ExitTaken
  <2>2. CASE exit.type = 0
    <3>1. cr' = Exits!CrLoaded(gpr[exit.reg]) /\ gpr' = gpr
      BY <1>1, <1>5, <2>2 DEF Exits!VmxHandleCrAccess
    <3>2. cr' # cr => cr' = [cr EXCEPT ![exit.num] = gpr[exit.reg]]
      BY <3>1 DEF Exits!CrLoaded
    <3>3. Exits!HandledAsMeant(exit) => Exits!Numbered(exit.reg) = exit.reg
      BY DEF Exits!HandledAsMeant, Exits!PlainMove
    <3>4. HandledWell
      BY <1>1, <1>2, <1>4, <2>1, <2>2, <3>1, <3>2, <3>3, ExitTaken DEF HandledWell
    <3>. QED  BY <1>1, <3>4, ExitTaken
  <2>3. CASE exit.type # 0
    <3>1. /\ cr' = cr
          /\ gpr' = [gpr EXCEPT ![exit.reg] = IF exit.num \in Crs THEN cr[exit.num] ELSE 0]
      BY <1>1, <1>5, <2>3 DEF Exits!VmxHandleCrAccess
    <3>2. (IF exit.num \in Crs THEN cr[exit.num] ELSE 0) \in Exits!Register
      BY ExitTaken
    <3>3. gpr' \in [Gprs -> Exits!Register] /\ \A r \in Gprs \ {exit.reg} : gpr'[r] = gpr[r]
      BY <1>3, <3>1, <3>2, ExitTaken
    <3>4. Exits!HandledAsMeant(exit) => Exits!Outputs(exit) = {exit.reg}
      BY <2>3 DEF Exits!HandledAsMeant, Exits!PlainMove, Exits!Outputs
    <3>5. HandledWell
      BY <1>1, <1>2, <3>1, <3>3, <3>4, ExitTaken DEF HandledWell
    <3>. QED  BY <1>1, <3>5, ExitTaken
  <2>. QED  BY <2>2, <2>3
<1>6. CASE core # "vmx"
  <2>1. gpr[Exits!RAX] \in Exits!Register
    BY ExitTaken
  <2>2. moved = IF exit.type # 0 THEN <<Exits!CrLoaded(gpr[Exits!RAX]), gpr>>
                ELSE <<cr, IF exit.num \in Crs THEN [gpr EXCEPT ![Exits!RAX] = cr[exit.num]]
                           ELSE gpr>>
    BY <1>6 DEF Exits!SvmHandleCrAccess
  <2>. HIDE DEF moved
  <2>3. moved[1] \in [Crs -> Exits!Register] /\ moved[2] \in [Gprs -> Exits!Register]
    BY <1>4, <2>1, <2>2, ExitTaken
  <2>4. ~Exits!HandledAsMeant(exit)
    BY <1>6 DEF Exits!HandledAsMeant, ExitsInv
  <2>5. HandledWell
    BY <1>1, <1>2, <2>3, <2>4 DEF HandledWell
  <2>. QED  BY <1>1, <2>5, ExitTaken
<1>. QED  BY <1>5, <1>6

\* Accesses to ports: VMX ignores them, SVM may put a result into RAX.
LEMMA IoHandled ==
  ASSUME Exits!ExitsAssumption, ExitsInv, exit # NULL, exit.reason = "IO", Exits!HandleIoExit
  PROVE  HandledWell /\ lapicId' \in Exits!Word /\ answer' = "none" /\ UNCHANGED <<exitMsr, wrote>>
<1>1. Exits!Advance(exit.length) /\ answer' = "none" /\ UNCHANGED <<exitMsr, lapicId, wrote>>
  BY DEF Exits!HandleIoExit
<1>2. /\ rip' = (rip + exit.length) % Window /\ rip' \in 0 .. Window - 1 /\ cr' = cr
      /\ rip' # rip
  BY <1>1, ExitTaken, Advances
<1>3. gpr' \in [Gprs -> Exits!Register] /\ \A r \in Gprs \ {Exits!RAX} : gpr'[r] = gpr[r]
  <2>1. CASE UNCHANGED gpr
    BY <2>1, ExitTaken
  <2>2. ASSUME NEW v \in Exits!Word, gpr' = [gpr EXCEPT ![Exits!RAX] = v]
        PROVE  gpr' \in [Gprs -> Exits!Register] /\ \A r \in Gprs \ {Exits!RAX} : gpr'[r] = gpr[r]
    BY <2>2, ExitTaken, Halves
  <2>3. ASSUME NEW v \in Exits!Word,
               gpr' = [gpr EXCEPT ![Exits!RAX] = Exits!High(@) * W + v]
        PROVE  gpr' \in [Gprs -> Exits!Register] /\ \A r \in Gprs \ {Exits!RAX} : gpr'[r] = gpr[r]
    <3>1. gpr[Exits!RAX] \in Exits!Register
      BY ExitTaken
    <3>2. Exits!High(gpr[Exits!RAX]) * W + v \in Exits!Register
      BY <3>1, Halves
    <3>. QED  BY <2>3, <3>2, ExitTaken
  <2>. QED  BY <2>1, <2>2, <2>3 DEF Exits!HandleIoExit, Exits!VmxHandleIoExit, Exits!SvmHandleIoExit
<1>4. Exits!Outputs(exit) = {Exits!RAX} /\ exit.reason \notin Exits!Events
  BY DEF Exits!Outputs, Exits!Events
<1>5. HandledWell
  BY <1>1, <1>2, <1>3, <1>4, ExitTaken DEF HandledWell
<1>. QED  BY <1>1, <1>5, ExitTaken

\* The exits after which the guest just goes on.
LEMMA ResumeHandled ==
  ASSUME Exits!ExitsAssumption, ExitsInv, exit # NULL,
         exit.reason \notin {"CPUID", "RDMSR", "WRMSR", "CR_ACCESS", "IO", "NPF"},
         IF core = "vmx" THEN Exits!VmxResume ELSE Exits!SvmResume
  PROVE  HandledWell /\ lapicId' \in Exits!Word /\ answer' = "none" /\ UNCHANGED <<exitMsr, wrote>>
<1>1. /\ answer' = "none" /\ UNCHANGED <<gpr, exitMsr, lapicId, wrote>>
      /\ core = "vmx" => Exits!Advance(Exits!Skipped)
      /\ core # "vmx" => Exits!Advance(IF exit.reason = "HLT" THEN exit.length ELSE 1)
  BY DEF Exits!VmxResume, Exits!SvmResume
<1>2. 0 \in 0 .. Window - 1 /\ 1 \in 0 .. Window - 1
  BY LengthsFit
<1>3. CASE core = "vmx"
  <2>1. Exits!Skipped \in 0 .. Window - 1
    BY <1>2, ExitTaken DEF Exits!Skipped
  <2>2. rip' = (rip + Exits!Skipped) % Window /\ rip' \in 0 .. Window - 1 /\ cr' = cr
    BY <1>1, <1>3, <2>1, Advances
  <2>3. HandledWell
    BY <1>1, <1>3, <2>2, ExitTaken DEF HandledWell, Exits!Skipped
  <2>. QED  BY <1>1, <2>3, ExitTaken
<1>4. CASE core # "vmx"
  <2>. DEFINE n == IF exit.reason = "HLT" THEN exit.length ELSE 1
  <2>1. n \in 0 .. Window - 1 /\ n # 0
    BY <1>2, ExitTaken
  <2>. HIDE DEF n
  <2>2. rip' = (rip + n) % Window /\ rip' \in 0 .. Window - 1 /\ cr' = cr
    BY <1>1, <1>4, <2>1, Advances DEF n
  <2>3. Exits!HandledAsMeant(exit) => exit.reason = "HLT" /\ n = exit.length
    BY <1>4 DEF Exits!HandledAsMeant, ExitsInv, n
  <2>4. "HLT" \notin Exits!Events
    BY DEF Exits!Events
  <2>5. HandledWell
    BY <1>1, <2>2, <2>3, <2>4, ExitTaken DEF HandledWell
  <2>. QED  BY <1>1, <2>5, ExitTaken
<1>. QED  BY <1>3, <1>4

\* A nested page fault, which is not handled as the access it is for.
LEMMA PageFaultHandled ==
  ASSUME Exits!ExitsAssumption, ExitsInv, exit # NULL, exit.reason = "NPF",
         Exits!SvmNestedPageFault
  PROVE  HandledWell /\ lapicId' \in Exits!Word /\ answer' = "none" /\ UNCHANGED <<exitMsr, wrote>>
<1>1. Exits!Advance(1) /\ answer' = "none" /\ UNCHANGED <<exitMsr, wrote>>
  BY DEF Exits!SvmNestedPageFault
<1>2. rip' \in 0 .. Window - 1 /\ cr' = cr
  BY <1>1, LengthsFit, Advances
<1>3. gpr' \in [Gprs -> Exits!Register] /\ lapicId' \in Exits!Word
  <2>0. gpr[Exits!RAX] \in Exits!Register /\ lapicId \in Exits!Register
    BY ExitTaken, Halves
  <2>1. CASE exit.num = 0
    BY <2>1, ExitTaken DEF Exits!SvmNestedPageFault
  <2>2. CASE exit.num # 0 /\ exit.type = 1
    <3>1. lapicId' = Exits!Low(gpr[Exits!RAX]) /\ gpr' = gpr
      BY <2>2 DEF Exits!SvmNestedPageFault, Exits!ApicHandleMmioAccess
    <3>. QED  BY <2>0, <3>1, ExitTaken, Halves
  <2>3. CASE exit.num # 0 /\ exit.type # 1
    <3>1. /\ lapicId' = lapicId
          /\ gpr' = [gpr EXCEPT ![Exits!RAX] = Exits!High(@) * W + Exits!Low(lapicId)]
      BY <2>3 DEF Exits!SvmNestedPageFault, Exits!ApicHandleMmioAccess, Exits!ApicShadowRead
    <3>2. Exits!High(gpr[Exits!RAX]) * W + Exits!Low(lapicId) \in Exits!Register
      BY <2>0, Halves
    <3>. QED  BY <3>1, <3>2, ExitTaken
  <2>. QED  BY <2>1, <2>2, <2>3
<1>4. ~Exits!HandledAsMeant(exit)
  BY DEF Exits!HandledAsMeant
<1>5. HandledWell
  BY <1>2, <1>3, <1>4, ExitTaken DEF HandledWell
<1>. QED  BY <1>1, <1>3, <1>5

\* Every exit leaves the invariant, and what HandledWell says.
LEMMA EveryExitHandled ==
  ASSUME Exits!ExitsAssumption, ExitsInv, Exits!Handled
  PROVE  ExitsInv' /\ HandledWell
<1>1. exit # NULL /\ exit' = NULL /\ core' = core /\ exit \in Exits!Exits
  BY ExitTaken DEF Exits!Handled
<1>2. CASE exit.reason = "CPUID" /\ Exits!HandleCpuidExit
  BY <1>1, <1>2, CpuidHandled
<1>3. CASE exit.reason \in {"RDMSR", "WRMSR"} /\ Exits!HandleMsrExit
  BY <1>1, <1>3, MsrHandled
<1>4. CASE exit.reason = "CR_ACCESS" /\ Exits!HandleCrAccess
  BY <1>1, <1>4, CrHandled, OthersKept
<1>5. CASE exit.reason = "IO" /\ Exits!HandleIoExit
  BY <1>1, <1>5, IoHandled, OthersKept
<1>6. CASE /\ exit.reason \notin {"CPUID", "RDMSR", "WRMSR", "CR_ACCESS", "IO", "NPF"}
           /\ IF core = "vmx" THEN Exits!VmxResume ELSE Exits!SvmResume
  BY <1>1, <1>6, ResumeHandled, OthersKept
<1>7. CASE exit.reason = "NPF" /\ Exits!SvmNestedPageFault
  BY <1>1, <1>7, PageFaultHandled, OthersKept
<1>. QED  BY <1>2, <1>3, <1>4, <1>5, <1>6, <1>7 DEF Exits!Handled

LEMMA InitExits ==
  ASSUME Exits!ExitsAssumption, Exits!Init
  PROVE  ExitsInv
<1>1. 0 \in Exits!Register /\ 0 \in Exits!Word /\ 0 \in 0 .. Window - 1
  BY Halves, LengthsFit
<1>2. Exits!TypeOK
  BY <1>1 DEF Exits!Init, Exits!TypeOK, Exits!ExitsAssumption
<1>3. Exits!GuestKeptIn
  BY DEF Exits!Init, Exits!GuestKeptIn, Exits!ExitsAssumption
<1>. QED  BY <1>2, <1>3 DEF Exits!Init, ExitsInv

LEMMA NextExits ==
  ASSUME Exits!ExitsAssumption, ExitsInv, [Exits!Next]_Exits!vars
  PROVE  ExitsInv'
<1>1. CASE UNCHANGED Exits!vars
  BY <1>1 DEF Exits!vars, ExitsInv, Exits!TypeOK, Exits!GuestKeptIn, Exits!Takes
<1>2. ASSUME NEW file \in Files, NEW e \in Exits!Exits, Exits!GuestExit(file, e)
      PROVE  ExitsInv'
  <2>1. file \in [Gprs -> Exits!Register]
    BY DEF Exits!ExitsAssumption
  <2>2. /\ gpr' = file /\ exit' = e /\ answer' = "none" /\ Exits!Takes(e)
        /\ UNCHANGED <<core, rip, cr, exitMsr, lapicId, wrote>>
    BY <1>2 DEF Exits!GuestExit
  <2>3. Exits!TypeOK'
    BY <2>1, <2>2 DEF ExitsInv, Exits!TypeOK
  <2>4. Exits!GuestKeptIn'
    BY <2>2 DEF ExitsInv, Exits!GuestKeptIn
  <2>5. Exits!Takes(exit)'
    BY <2>2 DEF Exits!Takes
  <2>. QED  BY <2>2, <2>3, <2>4, <2>5 DEF ExitsInv
<1>. QED  BY <1>1, <1>2, EveryExitHandled DEF Exits!Next

LEMMA StepOfExits == [Next]_vars => [Exits!Next]_Exits!vars
<1>1. ExitStep => Exits!Next
  BY DEF ExitStep
<1>2. [Next]_vars => ExitStep \/ UNCHANGED exitVars
  BY DEF Next, vars, BootStep, Rest, ServiceStep, ShadowStep, ApicStep, SmmStep
<1>3. UNCHANGED exitVars => UNCHANGED Exits!vars
  BY DEF exitVars, Exits!vars
<1>. QED  BY <1>1, <1>2, <1>3

LEMMA ExitsInvAlways == Spec => []ExitsInv
<1>1. Exits!ExitsAssumption
  BY PartsAssumption DEF PartsAssumption
<1>2. Init => ExitsInv
  BY <1>1, InitExits DEF Init
<1>3. ExitsInv /\ [Next]_vars => ExitsInv'
  BY <1>1, StepOfExits, NextExits
<1>. QED  BY <1>2, <1>3, PTL DEF Spec

\* Whatever the upper halves of its registers hold, a guest finds neither VMX nor
\* a hypervisor in leaf 1 and changes no protected MSR, and what it wrote with
\* WRMSR to another stays there under VMX.
THEOREM KeptInAlways == Spec => []GuestKeptIn
<1>1. ExitsInv => GuestKeptIn
  BY DEF ExitsInv, GuestKeptIn
<1>. QED  BY <1>1, ExitsInvAlways, PTL

\* An exit that is handled as meant moves the guest on by exactly the instruction
\* and changes only the registers that the instruction writes.
THEOREM TransparentAlways == Spec => ExitTransparent
<1>1. Exits!ExitsAssumption
  BY PartsAssumption DEF PartsAssumption
<1>2. ExitsInv /\ [Next]_vars =>
        [Exits!Handled /\ Exits!HandledAsMeant(exit) =>
           /\ rip' = (rip + (IF exit.reason \in Exits!Events THEN 0 ELSE exit.length)) % Window
           /\ \A r \in Gprs \ Exits!Outputs(exit) : gpr'[r] = gpr[r]
           /\ cr' # cr => /\ exit.reason = "CR_ACCESS" /\ exit.type = 0
                          /\ cr' = [cr EXCEPT ![exit.num] = gpr[Exits!Numbered(exit.reg)]]
           /\ exitMsr' # exitMsr => exit.reason = "WRMSR"]_Exits!vars
  BY <1>1, EveryExitHandled DEF HandledWell
<1>. QED  BY <1>2, ExitsInvAlways, PTL DEF Spec, ExitTransparent, Exits!ExitTransparent

-------------------------------------------------------------------------------
(* Recursion over an interval                                              *)

\* A set that has zero, and each number whose predecessor it has, has them all.
LEMMA IntervalInduction ==
  ASSUME NEW n \in Nat, NEW p \in SUBSET (0 .. n), 0 \in p, \A k \in 1 .. n : k - 1 \in p => k \in p
  PROVE  p = 0 .. n
<1>. DEFINE missing == (0 .. n) \ p
<1>. SUFFICES ASSUME missing # {}
              PROVE  FALSE
  OBVIOUS
<1>1. missing \in SUBSET Nat
  OBVIOUS
<1>2. PICK k \in missing : \A l \in missing : k <= l
  BY <1>1, Least
<1>3. k \in 1 .. n /\ k - 1 \in 0 .. n
  BY <1>2
<1>4. k - 1 \in p
  BY <1>2, <1>3
<1>. QED  BY <1>2, <1>3, <1>4

\* f starts at base and goes on with one step after the other.
Iterates(f, n, S, base, step) ==
  f \in [0 .. n -> S] /\ f[0] = base /\ \A k \in 1 .. n : f[k] = step[k][f[k - 1]]

\* There is such a function.
LEMMA IntervalRecursion ==
  ASSUME NEW n \in Nat, NEW S, NEW base \in S, NEW step \in [1 .. n -> [S -> S]]
  PROVE  \E f : Iterates(f, n, S, base, step)
<1>. DEFINE Upto(k) == \E f \in [0 .. k -> S] :
                         f[0] = base /\ \A i \in 1 .. k : f[i] = step[i][f[i - 1]]
            p == {k \in 0 .. n : Upto(k)}
<1>1. Upto(0)
  <2>. DEFINE g == [i \in 0 .. 0 |-> base]
  <2>1. g \in [0 .. 0 -> S] /\ g[0] = base
    OBVIOUS
  <2>2. \A i \in 1 .. 0 : g[i] = step[i][g[i - 1]]
    OBVIOUS
  <2>. HIDE DEF g
  <2>. QED  BY <2>1, <2>2
<1>2. ASSUME NEW k \in 1 .. n, Upto(k - 1)
      PROVE  Upto(k)
  <2>1. PICK f \in [0 .. k - 1 -> S] :
          f[0] = base /\ \A i \in 1 .. k - 1 : f[i] = step[i][f[i - 1]]
    BY <1>2
  <2>. DEFINE e == step[k][f[k - 1]]
              g == [i \in 0 .. k |-> IF i < k THEN f[i] ELSE e]
  <2>2. e \in S
    OBVIOUS
  <2>. HIDE DEF e
  <2>3. g \in [0 .. k -> S]
    BY <2>2
  <2>4. g[0] = base
    BY <2>1
  <2>5. ASSUME NEW i \in 1 .. k
        PROVE  g[i] = step[i][g[i - 1]]
    <3>1. CASE i < k
      BY <2>1, <3>1
    <3>2. CASE i = k
      <4>1. g[k] = e /\ g[k - 1] = f[k - 1]
        BY <3>2
      <4>. QED  BY <3>2, <4>1 DEF e
    <3>. QED  BY <3>1, <3>2
  <2>. HIDE DEF g
  <2>. QED  BY <2>3, <2>4, <2>5
<1>. HIDE DEF Upto
<1>3. p = 0 .. n
  <2>1. 0 \in p
    BY <1>1
  <2>2. \A k \in 1 .. n : k - 1 \in p => k \in p
    BY <1>2
  <2>3. p \in SUBSET (0 .. n)
    OBVIOUS
  <2>. HIDE DEF p
  <2>. QED  BY <2>1, <2>2, <2>3, IntervalInduction
<1>4. Upto(n)
  BY <1>3
<1>. QED  BY <1>4 DEF Upto, Iterates

-------------------------------------------------------------------------------
(* The shadowed registers                                                  *)

AllRows == {Rows[i] : i \in DOMAIN Rows}
             \cup UNION {{Shadow!RangeRows(i)[1], Shadow!RangeRows(i)[2]} : i \in DOMAIN Ranges}

\* Rows of one register agree on whether it is read-only, and such a one is read
\* from the processor.
LEMMA RowsAgree ==
  ASSUME Shadow!MsrAssumption
  PROVE  /\ \A r \in AllRows : /\ r.index \in Shadow!Msrs
                               /\ r.readOnly \in BOOLEAN /\ r.passthrough \in BOOLEAN
                               /\ r.readOnly => r.reads
                               /\ r.reads \/ \E i \in DOMAIN Rows : r = Rows[i]
         /\ \A r, s \in AllRows : r.index = s.index => r.readOnly = s.readOnly
<1>1. /\ \A i \in DOMAIN Rows : Rows[i] \in Shadow!Row
      /\ \A i, j \in DOMAIN Rows : Rows[i].index = Rows[j].index => i = j
      /\ \A i \in DOMAIN Rows :
           /\ Rows[i].readOnly => Rows[i].reads
           /\ \A k \in DOMAIN Ranges : Rows[i].index \notin {Ranges[k][1], Ranges[k][2]}
  BY DEF Shadow!MsrAssumption
<1>. DEFINE range == UNION {{Shadow!RangeRows(i)[1], Shadow!RangeRows(i)[2]} : i \in DOMAIN Ranges}
<1>2. ASSUME NEW r \in range
      PROVE  /\ \E k \in DOMAIN Ranges : r.index \in {Ranges[k][1], Ranges[k][2]}
             /\ r.readOnly = FALSE /\ r.passthrough = TRUE /\ r.reads = TRUE
  <2>1. PICK k \in DOMAIN Ranges : r \in {Shadow!RangeRows(k)[1], Shadow!RangeRows(k)[2]}
    BY <1>2
  <2>. QED  BY <2>1 DEF Shadow!RangeRows
<1>3. ASSUME NEW r \in AllRows
      PROVE  r \in range \/ \E i \in DOMAIN Rows : r = Rows[i]
  BY DEF AllRows
<1>. HIDE DEF range
<1>4. ASSUME NEW r \in AllRows
      PROVE  /\ r.index \in Shadow!Msrs
             /\ r.readOnly \in BOOLEAN /\ r.passthrough \in BOOLEAN
             /\ r.readOnly => r.reads
             /\ r.reads \/ \E i \in DOMAIN Rows : r = Rows[i]
  <2>1. CASE r \in range
    BY <1>2, <2>1 DEF Shadow!Msrs
  <2>2. ASSUME NEW i \in DOMAIN Rows, r = Rows[i]
        PROVE  r.index \in Shadow!Msrs /\ r.readOnly \in BOOLEAN /\ r.passthrough \in BOOLEAN
               /\ (r.readOnly => r.reads)
    BY <1>1, <2>2 DEF Shadow!Row, Shadow!Msrs
  <2>. QED  BY <1>2, <1>3, <2>1, <2>2
<1>5. ASSUME NEW r \in AllRows, NEW s \in AllRows, r.index = s.index
      PROVE  r.readOnly = s.readOnly
  <2>1. CASE r \in range /\ s \in range
    BY <1>2, <2>1
  <2>2. CASE r \in range /\ \E i \in DOMAIN Rows : s = Rows[i]
    BY <1>1, <1>2, <1>5, <2>2
  <2>3. CASE s \in range /\ \E i \in DOMAIN Rows : r = Rows[i]
    BY <1>1, <1>2, <1>5, <2>3
  <2>4. CASE (\E i \in DOMAIN Rows : r = Rows[i]) /\ \E i \in DOMAIN Rows : s = Rows[i]
    BY <1>1, <1>5, <2>4
  <2>. QED  BY <1>3, <2>1, <2>2, <2>3, <2>4
<1>. QED  BY <1>4, <1>5

\* The list of rows for any number of memory ranges.
LEMMA RowsForFacts ==
  ASSUME Shadow!MsrAssumption, NEW n \in 0 .. Len(Ranges)
  PROVE  Shadow!RowsFor(n) \in Seq(AllRows)
<1>. DEFINE Lists == Seq(AllRows)
            step == [k \in 1 .. n |-> [q \in Lists |-> q \o Shadow!RangeRows(k)]]
            Is(f) == f = [k \in 0 .. n |-> IF k = 0 THEN Rows
                                           ELSE f[k - 1] \o Shadow!RangeRows(k)]
<1>1. n \in Nat /\ 1 .. n \subseteq DOMAIN Ranges /\ Rows \in Lists
  BY DEF Shadow!MsrAssumption, AllRows
<1>2. ASSUME NEW k \in 1 .. n
      PROVE  Shadow!RangeRows(k) \in Lists
  <2>1. Shadow!RangeRows(k)[1] \in AllRows /\ Shadow!RangeRows(k)[2] \in AllRows
    BY <1>1 DEF AllRows
  <2>2. Shadow!RangeRows(k) \in [1 .. 2 -> AllRows]
    BY <2>1 DEF Shadow!RangeRows
  <2>3. 2 \in Nat
    OBVIOUS
  <2>. HIDE DEF AllRows
  <2>. QED  BY <2>2, <2>3, SeqDef, Zenon
<1>3. step \in [1 .. n -> [Lists -> Lists]]
  BY <1>2
<1>. HIDE DEF Lists
<1>4. PICK f : Iterates(f, n, Lists, Rows, step)
  <2>1. n \in Nat /\ Rows \in Lists
    BY <1>1
  <2>. HIDE DEF step
  <2>. QED  BY <2>1, <1>3, IntervalRecursion
<1>5. ASSUME NEW k \in 1 .. n
      PROVE  f[k] = f[k - 1] \o Shadow!RangeRows(k)
  <2>1. f[k - 1] \in Lists
    BY <1>1, <1>4 DEF Iterates
  <2>. QED  BY <1>4, <2>1 DEF Iterates
<1>6. Is(f)
  BY <1>4, <1>5, SMTT(30) DEF Iterates
<1>. DEFINE g == CHOOSE h : Is(h)
<1>7. Is(g)
  BY <1>6
<1>8. Shadow!RowsFor(n) = g[n]
  BY DEF Shadow!RowsFor
<1>. HIDE DEF g
<1>9. g[0] = Rows /\ \A k \in 1 .. n : g[k] = g[k - 1] \o Shadow!RangeRows(k)
  <2>1. g[0] = Rows
    <3>1. 0 \in 0 .. n
      BY <1>1
    <3>. QED  BY <1>7, <3>1, Zenon
  <2>2. ASSUME NEW k \in 1 .. n
        PROVE  g[k] = g[k - 1] \o Shadow!RangeRows(k)
    <3>1. k \in 0 .. n /\ k # 0
      BY <1>1
    <3>. QED  BY <1>7, <3>1, Zenon
  <2>. QED  BY <2>1, <2>2
<1>10. {k \in 0 .. n : g[k] \in Lists} = 0 .. n
  <2>. DEFINE p == {k \in 0 .. n : g[k] \in Lists}
  <2>1. 0 \in p
    BY <1>1, <1>9
  <2>2. ASSUME NEW k \in 1 .. n, k - 1 \in p
        PROVE  k \in p
    <3>1. g[k - 1] \in Lists /\ Shadow!RangeRows(k) \in Lists /\ k \in 0 .. n
      BY <1>1, <1>2, <2>2
    <3>2. g[k] \in Lists
      BY <1>9, <3>1, ConcatProperties DEF Lists
    <3>. QED  BY <3>1, <3>2
  <2>3. p \in SUBSET (0 .. n)
    OBVIOUS
  <2>. HIDE DEF p
  <2>4. p = 0 .. n
    BY <1>1, <2>1, <2>2, <2>3, IntervalInduction
  <2>. QED  BY <2>4 DEF p
<1>. QED  BY <1>1, <1>8, <1>10 DEF Lists

Entries == {Shadow!Entry(r) : r \in AllRows}

\* The table made from a list of rows: one entry for each, as long as there is
\* room.
LEMMA AddedFacts ==
  ASSUME Shadow!MsrAssumption, NEW rows \in Seq(AllRows)
  PROVE  Shadow!Added(rows) \in Seq(Entries) /\ Len(Shadow!Added(rows)) <= MaxShadowMsrs
<1>. DEFINE Tables == {t \in Seq(Entries) : Len(t) <= MaxShadowMsrs}
            n == Len(rows)
            step == [k \in 1 .. n |-> [t \in Tables |-> Shadow!AddShadowMsr(t, rows[k])]]
            Is(f) == f = [k \in 0 .. n |-> IF k = 0 THEN <<>>
                                           ELSE Shadow!AddShadowMsr(f[k - 1], rows[k])]
<1>1. n \in Nat /\ <<>> \in Tables
  BY DEF Shadow!MsrAssumption
<1>2. ASSUME NEW k \in 1 .. n, NEW t \in Tables
      PROVE  Shadow!AddShadowMsr(t, rows[k]) \in Tables
  <2>1. rows[k] \in AllRows
    OBVIOUS
  <2>2. Shadow!Entry(rows[k]) \in Entries
    BY <2>1 DEF Entries
  <2>3. t \in Seq(Entries) /\ Len(t) <= MaxShadowMsrs /\ MaxShadowMsrs \in Nat
    BY DEF Shadow!MsrAssumption
  <2>. QED  BY <2>2, <2>3 DEF Shadow!AddShadowMsr
<1>3. step \in [1 .. n -> [Tables -> Tables]]
  BY <1>2
<1>. HIDE DEF Tables, n
<1>4. PICK f : Iterates(f, n, Tables, <<>>, step)
  <2>. HIDE DEF step
  <2>. QED  BY <1>1, <1>3, IntervalRecursion
<1>5. ASSUME NEW k \in 1 .. n
      PROVE  f[k] = Shadow!AddShadowMsr(f[k - 1], rows[k])
  <2>1. f[k - 1] \in Tables
    BY <1>1, <1>4 DEF Iterates
  <2>. QED  BY <1>4, <2>1 DEF Iterates
<1>6. Is(f)
  BY <1>4, <1>5 DEF Iterates
<1>. DEFINE g == CHOOSE h : Is(h)
<1>7. Is(g)
  BY <1>6
<1>8. Shadow!Added(rows) = g[n]
  BY DEF Shadow!Added, n
<1>. HIDE DEF g
<1>9. g[0] = <<>> /\ \A k \in 1 .. n : g[k] = Shadow!AddShadowMsr(g[k - 1], rows[k])
  <2>1. g[0] = <<>>
    <3>1. 0 \in 0 .. n
      BY <1>1
    <3>. QED  BY <1>7, <3>1, Zenon
  <2>2. ASSUME NEW k \in 1 .. n
        PROVE  g[k] = Shadow!AddShadowMsr(g[k - 1], rows[k])
    <3>1. k \in 0 .. n /\ k # 0
      BY <1>1
    <3>. QED  BY <1>7, <3>1, Zenon
  <2>. QED  BY <2>1, <2>2
<1>10. {k \in 0 .. n : g[k] \in Tables} = 0 .. n
  <2>. DEFINE p == {k \in 0 .. n : g[k] \in Tables}
  <2>1. 0 \in p
    BY <1>1, <1>9
  <2>2. ASSUME NEW k \in 1 .. n, k - 1 \in p
        PROVE  k \in p
    <3>1. g[k - 1] \in Tables /\ k \in 0 .. n
      BY <1>1, <2>2
    <3>2. g[k] \in Tables
      BY <1>2, <1>9, <3>1
    <3>. QED  BY <3>1, <3>2
  <2>3. p \in SUBSET (0 .. n)
    OBVIOUS
  <2>. HIDE DEF p
  <2>4. p = 0 .. n
    BY <1>1, <2>1, <2>2, <2>3, IntervalInduction
  <2>. QED  BY <2>4 DEF p
<1>. QED  BY <1>1, <1>8, <1>10 DEF Tables

LeastOf(s) == IF s = {} THEN 0 ELSE CHOOSE i \in s : \A j \in s : i <= j

\* The first entry of a register in table t, 0 without one.
First(t, m) == LeastOf(Shadow!Matching(t, m))

LEMMA FirstFacts ==
  ASSUME NEW T, NEW t \in Seq(T), NEW m
  PROVE  /\ First(t, m) = 0 <=> \A i \in DOMAIN t : t[i].Index # m
         /\ First(t, m) # 0 => First(t, m) \in DOMAIN t /\ t[First(t, m)].Index = m
<1>. DEFINE s == Shadow!Matching(t, m)
<1>1. s \in SUBSET Nat /\ s \subseteq DOMAIN t /\ 0 \notin s
      /\ \A i \in DOMAIN t : i \in s <=> t[i].Index = m
  BY DEF Shadow!Matching
<1>2. CASE s = {}
  BY <1>1, <1>2 DEF First, LeastOf
<1>3. CASE s # {}
  <2>. HIDE DEF s
  <2>1. PICK k \in s : \A l \in s : k <= l
    BY <1>1, <1>3, Least
  <2>2. First(t, m) = CHOOSE i \in s : \A j \in s : i <= j
    BY <1>3 DEF First, LeastOf, s
  <2>3. First(t, m) \in s
    BY <2>1, <2>2
  <2>. QED  BY <1>1, <2>3
<1>. QED  BY <1>2, <1>3

\* What a guest is shown of register m by table t and a processor with registers r.
Shown(t, r, m) == IF First(t, m) = 0 THEN r[m] ELSE t[First(t, m)].Value

Promises(t, r, written, first) ==
  /\ \A m \in Shadow!Msrs : written[m] # NULL => Shown(t, r, m) = written[m]
  /\ \A i \in DOMAIN t : t[i].IsReadOnly => Shown(t, r, t[i].Index) = first[t[i].Index]

ShadowEntry == [Index : Shadow!Msrs, Value : Values, IsReadOnly : BOOLEAN,
                PassthroughOnWrite : BOOLEAN]

\* The entries of a register agree on whether it is read-only: a write that one
\* of them takes cannot change what another one promises.
ShadowInv ==
  /\ gMsrShadowTable \in Seq(ShadowEntry) /\ Len(gMsrShadowTable) <= MaxShadowMsrs
  /\ msr \in [Shadow!Msrs -> Values]
  /\ guest \in [Shadow!Msrs -> Values \cup {NULL}]
  /\ \A i, j \in DOMAIN gMsrShadowTable :
       gMsrShadowTable[i].Index = gMsrShadowTable[j].Index =>
         gMsrShadowTable[i].IsReadOnly = gMsrShadowTable[j].IsReadOnly
  /\ Promises(gMsrShadowTable, msr, guest, initial)

LEMMA EntryIsTyped ==
  ASSUME Shadow!MsrAssumption, msr \in [Shadow!Msrs -> Values]
  PROVE  Entries \subseteq ShadowEntry
<1>. SUFFICES ASSUME NEW r \in AllRows
              PROVE  Shadow!Entry(r) \in ShadowEntry
  BY DEF Entries
<1>1. r.index \in Shadow!Msrs /\ r.readOnly \in BOOLEAN /\ r.passthrough \in BOOLEAN
  BY RowsAgree
<1>2. msr[r.index] \in Values /\ 0 \in Values
  BY <1>1 DEF Shadow!MsrAssumption
<1>. QED  BY <1>1, <1>2 DEF Shadow!Entry, ShadowEntry

\* The invariant is more than what a run checks.
LEMMA ShadowInvGives == ShadowInv => Shadow!TypeOK /\ Shadow!ShadowRegisters
<1>. SUFFICES ASSUME ShadowInv PROVE Shadow!TypeOK /\ Shadow!ShadowRegisters
  OBVIOUS
<1>1. \A m : Shadow!MsrShadowRead(m) = Shown(gMsrShadowTable, msr, m)
  BY DEF Shadow!MsrShadowRead, Shadow!FindShadowMsr, First, LeastOf, Shown
<1>2. Shadow!ShadowRegisters
  BY <1>1 DEF ShadowInv, Promises, Shadow!ShadowRegisters, Shadow!GuestReadsItsWrites,
              Shadow!ReadOnlyFixed
<1>3. \A i \in DOMAIN gMsrShadowTable : gMsrShadowTable[i] \in ShadowEntry
  BY DEF ShadowInv
<1>4. Shadow!TypeOK
  BY <1>3 DEF ShadowInv, ShadowEntry, Shadow!TypeOK
<1>. QED  BY <1>2, <1>4

LEMMA InitShadow ==
  ASSUME Shadow!MsrAssumption, Shadow!Init
  PROVE  ShadowInv
<1>1. gMsrShadowTable = <<>> /\ 0 \in Values /\ MaxShadowMsrs \in Nat
  BY DEF Shadow!MsrAssumption, Shadow!Init
<1>2. msr \in [Shadow!Msrs -> Values] /\ guest \in [Shadow!Msrs -> Values \cup {NULL}]
      /\ \A m \in Shadow!Msrs : guest[m] = NULL
  BY <1>1 DEF Shadow!Init
<1>. QED  BY <1>1, <1>2 DEF ShadowInv, Promises

\* A table is filled from the processor: what the guest wrote is either there
\* too or is no longer counted on.
LEMMA TableFilled ==
  ASSUME Shadow!MsrAssumption, ShadowInv, NEW n \in 0 .. Len(Ranges), Shadow!MsrShadowInit(n)
  PROVE  ShadowInv'
<1>. DEFINE table == Shadow!Added(Shadow!RowsFor(n))
<1>1. table \in Seq(Entries) /\ Len(table) <= MaxShadowMsrs
  BY RowsForFacts, AddedFacts
<1>2. /\ gMsrShadowTable' = table /\ msr' = msr
      /\ guest' = [m \in Shadow!Msrs |->
           IF msr[m] = guest[m] /\ \A i \in DOMAIN Rows : Rows[i].index = m => Rows[i].reads
           THEN guest[m] ELSE NULL]
      /\ initial' = [m \in Shadow!Msrs |->
           IF \E i \in DOMAIN table : table[i].Index = m /\ table[i].IsReadOnly
           THEN msr[m] ELSE NULL]
  BY DEF Shadow!MsrShadowInit
<1>. HIDE DEF table
<1>3. msr \in [Shadow!Msrs -> Values] /\ guest \in [Shadow!Msrs -> Values \cup {NULL}]
  BY DEF ShadowInv
<1>4. table \in Seq(ShadowEntry)
  <2>. HIDE DEF Entries, ShadowEntry
  <2>. QED  BY <1>1, <1>3, EntryIsTyped, SeqMonotonic
<1>5. ASSUME NEW i \in DOMAIN table
      PROVE  \E r \in AllRows :
               /\ table[i].Index = r.index /\ table[i].IsReadOnly = r.readOnly
               /\ table[i].Value = IF r.reads THEN msr[r.index] ELSE 0
  <2>1. table[i] \in Entries
    BY <1>1
  <2>2. PICK r \in AllRows : table[i] = Shadow!Entry(r)
    BY <2>1 DEF Entries
  <2>. QED  BY <2>2 DEF Shadow!Entry
<1>6. \A i, j \in DOMAIN table : table[i].Index = table[j].Index =>
        table[i].IsReadOnly = table[j].IsReadOnly
  BY <1>5, RowsAgree
<1>7. guest' \in [Shadow!Msrs -> Values \cup {NULL}]
  BY <1>2, <1>3
<1>8. ASSUME NEW m \in Shadow!Msrs, guest'[m] # NULL
      PROVE  Shown(table, msr, m) = guest'[m]
  <2>1. /\ guest'[m] = msr[m]
        /\ \A i \in DOMAIN Rows : Rows[i].index = m => Rows[i].reads
    BY <1>2, <1>8
  <2>2. CASE First(table, m) = 0
    BY <2>1, <2>2 DEF Shown
  <2>3. CASE First(table, m) # 0
    <3>1. First(table, m) \in DOMAIN table /\ table[First(table, m)].Index = m
      BY <1>1, <2>3, FirstFacts
    <3>2. PICK r \in AllRows :
            r.index = m /\ table[First(table, m)].Value = IF r.reads THEN msr[m] ELSE 0
      BY <1>5, <3>1
    <3>3. r.reads
      BY <2>1, <3>2, RowsAgree
    <3>. QED  BY <2>1, <2>3, <3>2, <3>3 DEF Shown
  <2>. QED  BY <2>2, <2>3
<1>9. ASSUME NEW i \in DOMAIN table, table[i].IsReadOnly
      PROVE  Shown(table, msr, table[i].Index) = initial'[table[i].Index]
  <2>. DEFINE m == table[i].Index
              f == First(table, m)
  <2>0. table[i] \in ShadowEntry
    BY <1>4
  <2>1. m \in Shadow!Msrs
    BY <2>0 DEF ShadowEntry
  <2>2. initial'[m] = msr[m]
    BY <1>2, <1>9, <2>1
  <2>3. f # 0
    BY <1>1, FirstFacts
  <2>4. f \in DOMAIN table /\ table[f].Index = m
    BY <1>1, <2>3, FirstFacts
  <2>5. table[f].IsReadOnly
    BY <1>6, <1>9, <2>4
  <2>6. table[f].Value = msr[m]
    BY <1>5, <2>4, <2>5, RowsAgree
  <2>. QED  BY <2>2, <2>3, <2>6 DEF Shown
<1>10. Promises(table, msr, guest', initial')
  BY <1>8, <1>9 DEF Promises
<1>. QED  BY <1>1, <1>2, <1>3, <1>4, <1>6, <1>7, <1>10 DEF ShadowInv

\* A change of entry i's value leaves every register's first entry where it was.
LEMMA SameFirst ==
  ASSUME NEW t \in Seq(ShadowEntry), NEW i \in DOMAIN t, NEW v \in Values
  PROVE  LET u == [t EXCEPT ![i].Value = v]
         IN  /\ u \in Seq(ShadowEntry) /\ Len(u) = Len(t) /\ DOMAIN u = DOMAIN t
             /\ \A j \in DOMAIN t : /\ u[j].Index = t[j].Index
                                    /\ u[j].IsReadOnly = t[j].IsReadOnly
                                    /\ u[j].Value = IF j = i THEN v ELSE t[j].Value
             /\ \A m : First(u, m) = First(t, m)
<1>. DEFINE e == [t[i] EXCEPT !.Value = v]
            u == [t EXCEPT ![i] = e]
<1>0. u = [t EXCEPT ![i].Value = v]
  OBVIOUS
<1>1. t[i] \in ShadowEntry
  OBVIOUS
<1>2. e \in ShadowEntry /\ e.Index = t[i].Index /\ e.IsReadOnly = t[i].IsReadOnly /\ e.Value = v
  <2>1. t[i] \in [Index : Shadow!Msrs, Value : Values, IsReadOnly : BOOLEAN,
                  PassthroughOnWrite : BOOLEAN]
    BY <1>1 DEF ShadowEntry
  <2>. HIDE DEF ShadowEntry
  <2>. QED  BY <2>1 DEF ShadowEntry
<1>. HIDE DEF e, ShadowEntry
<1>3. u \in Seq(ShadowEntry) /\ Len(u) = Len(t) /\ DOMAIN u = DOMAIN t
      /\ \A j \in DOMAIN t : u[j] = IF j = i THEN e ELSE t[j]
  BY <1>2
<1>. HIDE DEF u
<1>4. \A j \in DOMAIN t : /\ u[j].Index = t[j].Index /\ u[j].IsReadOnly = t[j].IsReadOnly
                          /\ u[j].Value = IF j = i THEN v ELSE t[j].Value
  BY <1>2, <1>3
<1>5. \A m : Shadow!Matching(u, m) = Shadow!Matching(t, m)
  BY <1>3, <1>4 DEF Shadow!Matching
<1>6. ASSUME NEW m
      PROVE  First(u, m) = First(t, m)
  <2>1. Shadow!Matching(u, m) = Shadow!Matching(t, m)
    BY <1>5
  <2>. QED  BY <2>1 DEF First
<1>. DEFINE w == [t EXCEPT ![i].Value = v]
<1>7. u = w
  BY <1>0
<1>. HIDE DEF w
<1>8. /\ w \in Seq(ShadowEntry) /\ Len(w) = Len(t) /\ DOMAIN w = DOMAIN t
      /\ \A j \in DOMAIN t : /\ w[j].Index = t[j].Index
                             /\ w[j].IsReadOnly = t[j].IsReadOnly
                             /\ w[j].Value = IF j = i THEN v ELSE t[j].Value
      /\ \A m : First(w, m) = First(t, m)
  BY <1>3, <1>4, <1>6, <1>7
<1>. QED  BY <1>8 DEF w

\* A write of the guest is refused, kept by the first entry of its register, or
\* goes to the processor.
LEMMA GuestWrites ==
  ASSUME Shadow!MsrAssumption, ShadowInv, NEW m \in Shadow!Msrs, NEW v \in Values,
         Shadow!MsrShadowWrite(m, v)
  PROVE  ShadowInv'
<1>. DEFINE t == gMsrShadowTable
            i == First(t, m)
<1>1. /\ t \in Seq(ShadowEntry) /\ Len(t) <= MaxShadowMsrs
      /\ msr \in [Shadow!Msrs -> Values]
      /\ guest \in [Shadow!Msrs -> Values \cup {NULL}]
      /\ \A j, k \in DOMAIN t : t[j].Index = t[k].Index => t[j].IsReadOnly = t[k].IsReadOnly
      /\ \A n \in Shadow!Msrs : guest[n] # NULL => Shown(t, msr, n) = guest[n]
      /\ \A j \in DOMAIN t : t[j].IsReadOnly => Shown(t, msr, t[j].Index) = initial[t[j].Index]
  BY DEF ShadowInv, Promises
<1>0. Shadow!FindShadowMsr(m) = i /\ initial' = initial
  BY DEF Shadow!FindShadowMsr, First, LeastOf, Shadow!MsrShadowWrite
<1>2. CASE i # 0 /\ t[i].IsReadOnly
  <2>1. UNCHANGED <<gMsrShadowTable, msr, guest, initial>>
    BY <1>0, <1>2 DEF Shadow!MsrShadowWrite
  <2>. QED  BY <2>1 DEF ShadowInv
<1>3. CASE i = 0
  <2>1. gMsrShadowTable' = t /\ msr' = [msr EXCEPT ![m] = v] /\ guest' = [guest EXCEPT ![m] = v]
    BY <1>0, <1>3 DEF Shadow!MsrShadowWrite
  <2>2. \A n : n # m => Shown(t, msr', n) = Shown(t, msr, n)
    <3>1. \A n : n # m => msr'[n] = msr[n]
      BY <1>1, <2>1
    <3>. QED  BY <3>1 DEF Shown
  <2>3. Shown(t, msr', m) = v
    BY <1>1, <1>3, <2>1 DEF Shown
  <2>4. \A n \in Shadow!Msrs : guest'[n] # NULL => Shown(t, msr', n) = guest'[n]
    BY <1>1, <2>1, <2>2, <2>3
  <2>5. \A j \in DOMAIN t : t[j].Index # m
    BY <1>1, <1>3, FirstFacts
  <2>6. Promises(t, msr', guest', initial)
    BY <1>1, <2>2, <2>4, <2>5 DEF Promises
  <2>7. msr' \in [Shadow!Msrs -> Values] /\ guest' \in [Shadow!Msrs -> Values \cup {NULL}]
    BY <1>1, <2>1
  <2>. QED  BY <1>0, <1>1, <2>1, <2>6, <2>7 DEF ShadowInv
<1>4. CASE i # 0 /\ ~t[i].IsReadOnly
  <2>. DEFINE u == [t EXCEPT ![i].Value = v]
  <2>1. /\ gMsrShadowTable' = u /\ guest' = [guest EXCEPT ![m] = v]
        /\ msr' \in {msr, [msr EXCEPT ![m] = v]}
    BY <1>0, <1>4 DEF Shadow!MsrShadowWrite, Shadow!StoresFor
  <2>2. i \in DOMAIN t /\ t[i].Index = m
    BY <1>1, <1>4, FirstFacts
  <2>3. /\ u \in Seq(ShadowEntry) /\ Len(u) = Len(t) /\ DOMAIN u = DOMAIN t
        /\ \A j \in DOMAIN t : /\ u[j].Index = t[j].Index
                               /\ u[j].IsReadOnly = t[j].IsReadOnly
                               /\ u[j].Value = IF j = i THEN v ELSE t[j].Value
        /\ \A n : First(u, n) = First(t, n)
    BY <1>1, <2>2, SameFirst
  <2>. HIDE DEF u
  <2>4. Shown(u, msr', m) = v
    BY <1>4, <2>2, <2>3 DEF Shown
  <2>5. ASSUME NEW n, n # m
        PROVE  Shown(u, msr', n) = Shown(t, msr, n)
    <3>1. msr'[n] = msr[n]
      <4>1. CASE msr' = msr
        BY <4>1
      <4>2. CASE msr' = [msr EXCEPT ![m] = v]
        BY <1>1, <2>5, <4>2
      <4>. QED  BY <2>1, <4>1, <4>2
    <3>2. First(t, n) # 0 => First(t, n) \in DOMAIN t /\ First(t, n) # i
      BY <1>1, <2>2, <2>5, FirstFacts
    <3>. QED  BY <2>3, <3>1, <3>2 DEF Shown
  <2>6. \A n \in Shadow!Msrs : guest'[n] # NULL => Shown(u, msr', n) = guest'[n]
    BY <1>1, <2>1, <2>4, <2>5
  <2>7. ASSUME NEW j \in DOMAIN u, u[j].IsReadOnly
        PROVE  Shown(u, msr', u[j].Index) = initial[u[j].Index]
    <3>1. j \in DOMAIN t /\ t[j].IsReadOnly /\ u[j].Index = t[j].Index
      BY <2>3, <2>7
    <3>2. t[j].Index # m
      BY <1>1, <1>4, <2>2, <3>1
    <3>. QED  BY <1>1, <2>5, <3>1, <3>2
  <2>8. Promises(u, msr', guest', initial)
    BY <2>6, <2>7 DEF Promises
  <2>9. msr' \in [Shadow!Msrs -> Values] /\ guest' \in [Shadow!Msrs -> Values \cup {NULL}]
    BY <1>1, <2>1
  <2>. QED  BY <1>0, <1>1, <2>1, <2>3, <2>8, <2>9 DEF ShadowInv
<1>. QED  BY <1>2, <1>3, <1>4

\* A register that changes on its own is seen only where it is not shadowed.
LEMMA ProcessorChanges ==
  ASSUME Shadow!MsrAssumption, ShadowInv, NEW m \in Shadow!Msrs, NEW v \in Values,
         Shadow!HardwareChanges(m, v)
  PROVE  ShadowInv'
<1>. DEFINE t == gMsrShadowTable
<1>1. /\ t \in Seq(ShadowEntry) /\ NULL \notin Values
      /\ msr \in [Shadow!Msrs -> Values]
      /\ guest \in [Shadow!Msrs -> Values \cup {NULL}]
      /\ \A n \in Shadow!Msrs : guest[n] # NULL => Shown(t, msr, n) = guest[n]
      /\ \A j \in DOMAIN t : t[j].IsReadOnly => Shown(t, msr, t[j].Index) = initial[t[j].Index]
  BY DEF Shadow!MsrAssumption, ShadowInv, Promises
<1>2. /\ msr' = [msr EXCEPT ![m] = v] /\ UNCHANGED <<gMsrShadowTable, initial>>
      /\ guest' = IF First(t, m) = 0 THEN [guest EXCEPT ![m] = NULL] ELSE guest
  BY DEF Shadow!HardwareChanges, Shadow!MsrIsPassThrough, Shadow!FindShadowMsr, First, LeastOf
<1>3. \A n : n # m \/ First(t, n) # 0 => Shown(t, msr', n) = Shown(t, msr, n)
  <2>1. \A n : n # m => msr'[n] = msr[n]
    BY <1>1, <1>2
  <2>. QED  BY <2>1 DEF Shown
<1>4. \A n \in Shadow!Msrs : guest'[n] # NULL =>
        guest[n] # NULL /\ guest'[n] = guest[n] /\ (n # m \/ First(t, n) # 0)
  BY <1>1, <1>2
<1>5. \A j \in DOMAIN t : First(t, t[j].Index) # 0
  BY <1>1, FirstFacts
<1>6. Promises(t, msr', guest', initial)
  BY <1>1, <1>3, <1>4, <1>5 DEF Promises
<1>7. msr' \in [Shadow!Msrs -> Values] /\ guest' \in [Shadow!Msrs -> Values \cup {NULL}]
  BY <1>1, <1>2
<1>. QED  BY <1>2, <1>6, <1>7 DEF ShadowInv

LEMMA NextShadow ==
  ASSUME Shadow!MsrAssumption, ShadowInv, [Shadow!Next]_Shadow!vars
  PROVE  ShadowInv'
<1>1. CASE UNCHANGED Shadow!vars
  BY <1>1 DEF Shadow!vars, ShadowInv
<1>. QED  BY <1>1, TableFilled, GuestWrites, ProcessorChanges DEF Shadow!Next

LEMMA StepOfShadow == [Next]_vars => [Shadow!Next]_Shadow!vars
<1>1. ShadowStep => Shadow!Next
  BY DEF ShadowStep
<1>2. [Next]_vars => ShadowStep \/ UNCHANGED msrVars
  BY DEF Next, vars, BootStep, Rest, ServiceStep, ExitStep, ApicStep, SmmStep
<1>3. UNCHANGED msrVars => UNCHANGED Shadow!vars
  BY DEF msrVars, Shadow!vars
<1>. QED  BY <1>1, <1>2, <1>3

LEMMA ShadowInvAlways == Spec => []ShadowInv
<1>1. Shadow!MsrAssumption
  BY PartsAssumption DEF PartsAssumption
<1>2. Init => ShadowInv
  BY <1>1, InitShadow DEF Init
<1>3. ShadowInv /\ [Next]_vars => ShadowInv'
  BY <1>1, StepOfShadow, NextShadow
<1>. QED  BY <1>2, <1>3, PTL DEF Spec

\* A guest reads back what it wrote and finds read-only registers fixed, also
\* when the table overflows, is filled again, or the processor changes them.
THEOREM ShadowAlways == Spec => []ShadowRegisters
<1>1. ShadowInv => ShadowRegisters
  BY ShadowInvGives DEF ShadowRegisters
<1>. QED  BY <1>1, ShadowInvAlways, PTL

-------------------------------------------------------------------------------

\* Every part of the platform keeps its types, whichever of them runs.
THEOREM PlatformTypes == Spec => []TypeOK
<1>1. BootInv => Boot!TypeOK
  BY DEF BootInv
<1>2. ExitsInv => Exits!TypeOK
  BY DEF ExitsInv
<1>3. ApicInv => Apic!TypeOK
  BY DEF ApicInv
<1>4. ShadowInv => Shadow!TypeOK
  BY ShadowInvGives
<1>5. SmmInv => Smm!TypeOK
  BY SmmInvGives
<1>6. ServicesInv => Services!TypeOK
  BY ServicesInvGives
<1>7. BootInv /\ ExitsInv /\ ApicInv /\ ShadowInv /\ SmmInv /\ ServicesInv => TypeOK
  BY <1>1, <1>2, <1>3, <1>4, <1>5, <1>6 DEF TypeOK
<1>8. Spec => []SmmInv
  BY SmmInvAlways
<1>. QED  BY <1>7, <1>8, BootInvAlways, ExitsInvAlways, ApicInvAlways, ShadowInvAlways,
             ServicesInvAlways, PTL

-------------------------------------------------------------------------------
(* The table of the processors                                             *)

\* The bytes of the table sum up modulo their width.
LEMMA Remainders ==
  ASSUME NEW b \in Nat \ {0}
  PROVE  /\ \A x \in Nat : x % b \in 0 .. b - 1
         /\ \A x \in 0 .. b - 1 : x % b = x
         /\ \A x, y \in Nat : ((x % b) + y) % b = (x + y) % b
<1>1. \A x \in Nat : x % b \in 0 .. b - 1 /\ x \div b \in Nat /\ x = (x % b) + (x \div b) * b
  BY SMT
<1>2. \A x \in 0 .. b - 1 : x % b = x
  <2>. SUFFICES ASSUME NEW x \in 0 .. b - 1
                PROVE  x % b = x
    OBVIOUS
  <2>1. (x + 0 * b) % b = x
    BY Division
  <2>. QED  BY <2>1
<1>3. ASSUME NEW x \in Nat, NEW y \in Nat
      PROVE  ((x % b) + y) % b = (x + y) % b
  <2>. DEFINE r == x % b
              q == x \div b
              z == r + y
              s == z % b
              p == z \div b
  <2>1. r \in Nat /\ q \in Nat /\ x = r + q * b
    BY <1>1
  <2>2. z \in Nat
    BY <2>1
  <2>3. s \in 0 .. b - 1 /\ p \in Nat /\ z = s + p * b
    BY <1>1, <2>2
  <2>4. x + y = s + (p + q) * b
    <3>1. x + y = z + q * b
      BY <2>1
    <3>. HIDE DEF z, s, p, q, r
    <3>2. q * b \in Nat /\ p * b \in Nat /\ (p + q) * b = p * b + q * b
      BY <2>1, <2>3, SMT
    <3>. QED  BY <2>3, <3>1, <3>2
  <2>5. (s + (p + q) * b) % b = s
    <3>1. p + q \in Nat
      BY <2>1, <2>3
    <3>. HIDE DEF s, p, q
    <3>. QED  BY <2>3, <3>1, Division
  <2>. QED  BY <2>4, <2>5
<1>. QED  BY <1>1, <1>2, <1>3

\* f has the sums of the first bytes, each cut to a byte.
Sums(f, s) ==
  /\ f[0] = 0
  /\ \A k \in 0 .. Len(s) : f[k] \in 0 .. ByteValues - 1
  /\ \A k \in 1 .. Len(s) : f[k] = (f[k - 1] + s[k]) % ByteValues
  /\ Boot!ByteSum(s) = f[Len(s)]

LEMMA SumsExist ==
  ASSUME Boot!BootAssumption, NEW s \in Seq(Nat)
  PROVE  \E f : Sums(f, s)
<1>. DEFINE Bytes == 0 .. ByteValues - 1
            n == Len(s)
            step == [k \in 1 .. n |-> [a \in Bytes |-> (a + s[k]) % ByteValues]]
            Is(f) == f = [k \in 0 .. n |-> IF k = 0 THEN 0 ELSE (f[k - 1] + s[k]) % ByteValues]
<1>1. n \in Nat /\ ByteValues \in Nat \ {0} /\ 0 \in Bytes
  BY DEF Boot!BootAssumption
<1>2. ASSUME NEW k \in 1 .. n, NEW a \in Bytes
      PROVE  (a + s[k]) % ByteValues \in Bytes
  <2>1. s[k] \in Nat /\ a \in Nat
    OBVIOUS
  <2>2. a + s[k] \in Nat
    BY <2>1
  <2>. QED  BY <1>1, <2>2, Remainders
<1>3. step \in [1 .. n -> [Bytes -> Bytes]]
  BY <1>2
<1>. HIDE DEF Bytes, n
<1>4. PICK f : Iterates(f, n, Bytes, 0, step)
  <2>. HIDE DEF step
  <2>. QED  BY <1>1, <1>3, IntervalRecursion
<1>5. ASSUME NEW k \in 1 .. n
      PROVE  f[k] = (f[k - 1] + s[k]) % ByteValues
  <2>1. f[k - 1] \in Bytes
    BY <1>1, <1>4 DEF Iterates
  <2>. QED  BY <1>4, <2>1 DEF Iterates
<1>6. Is(f)
  BY <1>4, <1>5 DEF Iterates
<1>. DEFINE g == CHOOSE h : Is(h)
<1>7. Is(g)
  BY <1>6
<1>8. Boot!ByteSum(s) = g[n]
  BY DEF Boot!ByteSum, n
<1>. HIDE DEF g
<1>9. g[0] = 0 /\ \A k \in 1 .. n : g[k] = (g[k - 1] + s[k]) % ByteValues
  <2>1. g[0] = 0
    <3>1. 0 \in 0 .. n
      BY <1>1
    <3>. QED  BY <1>7, <3>1, Zenon
  <2>2. ASSUME NEW k \in 1 .. n
        PROVE  g[k] = (g[k - 1] + s[k]) % ByteValues
    <3>1. k \in 0 .. n /\ k # 0
      BY <1>1
    <3>. QED  BY <1>7, <3>1, Zenon
  <2>. QED  BY <2>1, <2>2
<1>10. {k \in 0 .. n : g[k] \in Bytes} = 0 .. n
  <2>. DEFINE p == {k \in 0 .. n : g[k] \in Bytes}
  <2>1. 0 \in p
    BY <1>1, <1>9
  <2>2. ASSUME NEW k \in 1 .. n, k - 1 \in p
        PROVE  k \in p
    <3>1. g[k - 1] \in Bytes /\ k \in 0 .. n
      BY <1>1, <2>2
    <3>2. g[k] \in Bytes
      BY <1>2, <1>9, <3>1
    <3>. QED  BY <3>1, <3>2
  <2>3. p \in SUBSET (0 .. n)
    OBVIOUS
  <2>. HIDE DEF p
  <2>4. p = 0 .. n
    BY <1>1, <2>1, <2>2, <2>3, IntervalInduction
  <2>. QED  BY <2>4 DEF p
<1>11. \A k \in 0 .. n : g[k] \in Bytes
  BY <1>10
<1>. QED  BY <1>8, <1>9, <1>11 DEF Sums, Bytes, n

\* A checksum put where a zero was adds itself to the sum.
LEMMA SumOfChecked ==
  ASSUME Boot!BootAssumption, NEW s \in Seq(Nat), NEW t \in Seq(Nat), NEW c \in Nat,
         Len(t) = Len(s), 2 <= Len(s), s[2] = 0, t[2] = c,
         \A k \in 1 .. Len(s) : k # 2 => t[k] = s[k]
  PROVE  /\ Boot!ByteSum(s) \in 0 .. ByteValues - 1
         /\ Boot!ByteSum(t) = (Boot!ByteSum(s) + c) % ByteValues
<1>. DEFINE n == Len(s)
<1>1. PICK f : Sums(f, s)
  BY SumsExist
<1>2. PICK h : Sums(h, t)
  BY SumsExist
<1>3. ByteValues \in Nat \ {0} /\ n \in Nat
  BY DEF Boot!BootAssumption
<1>. DEFINE p == {k \in 0 .. n : h[k] = IF k < 2 THEN f[k] ELSE (f[k] + c) % ByteValues}
<1>4. 0 \in p
  BY <1>1, <1>2, <1>3 DEF Sums
<1>5. ASSUME NEW k \in 1 .. n, k - 1 \in p
      PROVE  k \in p
  <2>0. k \in 0 .. n /\ k \in Nat /\ k - 1 \in 0 .. n /\ s[k] \in Nat
    BY <1>3
  <2>1. /\ f[k] = (f[k - 1] + s[k]) % ByteValues /\ h[k] = (h[k - 1] + t[k]) % ByteValues
        /\ f[k - 1] \in 0 .. ByteValues - 1
    BY <1>1, <1>2, <2>0, Zenon DEF Sums
  <2>2. h[k - 1] = IF k - 1 < 2 THEN f[k - 1] ELSE (f[k - 1] + c) % ByteValues
    BY <1>5
  <2>. DEFINE F == f[k - 1]
              G == h[k - 1]
  <2>. HIDE DEF p
  <2>3. F \in Nat /\ F \in 0 .. ByteValues - 1
    BY <1>3, <2>1
  <2>4. CASE k = 1
    <3>1. k - 1 < 2 /\ k < 2 /\ t[k] = s[k]
      BY <2>4
    <3>2. h[k] = f[k]
      BY <2>1, <2>2, <3>1, Zenon
    <3>. QED  BY <2>0, <3>1, <3>2, Zenon DEF p
  <2>5. CASE k = 2
    <3>1. k - 1 < 2 /\ ~(k < 2) /\ s[k] = 0 /\ t[k] = c
      BY <2>5
    <3>2. F + 0 = F
      BY <2>3
    <3>3. F % ByteValues = F
      BY <1>3, <2>3, Remainders
    <3>4. f[k] = F /\ G = F
      BY <2>1, <2>2, <3>1, <3>2, <3>3, Zenon
    <3>5. h[k] = (F + c) % ByteValues
      BY <2>1, <3>1, <3>4, Zenon
    <3>. QED  BY <2>0, <3>1, <3>4, <3>5, Zenon DEF p
  <2>6. CASE k > 2
    <3>1. ~(k - 1 < 2) /\ ~(k < 2) /\ t[k] = s[k]
      BY <2>0, <2>6
    <3>2. G = (F + c) % ByteValues
      BY <2>2, <3>1, Zenon
    <3>3. F + c \in Nat /\ F + s[k] \in Nat /\ (F + c) + s[k] = (F + s[k]) + c
      <4>. DEFINE a == F
                  b == s[k]
      <4>1. a \in Nat /\ b \in Nat
        BY <2>0, <2>3
      <4>. HIDE DEF a, b
      <4>2. a + c \in Nat /\ a + b \in Nat /\ (a + c) + b = (a + b) + c
        BY <4>1
      <4>. QED  BY <4>2 DEF a, b
    <3>4. (((F + c) % ByteValues) + s[k]) % ByteValues = ((F + c) + s[k]) % ByteValues
      BY <1>3, <2>0, <3>3, Remainders
    <3>5. (((F + s[k]) % ByteValues) + c) % ByteValues = ((F + s[k]) + c) % ByteValues
      BY <1>3, <3>3, Remainders
    <3>6. h[k] = (f[k] + c) % ByteValues
      BY <2>1, <3>1, <3>2, <3>3, <3>4, <3>5, Zenon
    <3>. QED  BY <2>0, <3>1, <3>6, Zenon DEF p
  <2>. QED  BY <2>0, <2>4, <2>5, <2>6
<1>6. p = 0 .. n
  <2>1. p \in SUBSET (0 .. n)
    OBVIOUS
  <2>. HIDE DEF p
  <2>. QED  BY <1>3, <1>4, <1>5, <2>1, IntervalInduction
<1>7. n \in p /\ ~(n < 2)
  BY <1>3, <1>6
<1>. QED  BY <1>1, <1>2, <1>7 DEF Sums

\* Where the elements of two joined sequences are.
LEMMA Joined ==
  ASSUME NEW S, NEW s \in Seq(S), NEW t \in Seq(S)
  PROVE  /\ s \o t \in Seq(S) /\ Len(s \o t) = Len(s) + Len(t)
         /\ \A k \in 1 .. Len(s) : (s \o t)[k] = s[k]
         /\ \A k \in 1 .. Len(t) : (s \o t)[Len(s) + k] = t[k]
<1>1. /\ s \o t \in Seq(S) /\ Len(s \o t) = Len(s) + Len(t)
      /\ \A k \in 1 .. Len(s) + Len(t) :
           (s \o t)[k] = IF k <= Len(s) THEN s[k] ELSE t[k - Len(s)]
  BY ConcatProperties
<1>. DEFINE q == s \o t
            m == Len(s)
            n == Len(t)
<1>2. /\ q \in Seq(S) /\ Len(q) = m + n /\ m \in Nat /\ n \in Nat
      /\ \A k \in 1 .. m + n : q[k] = IF k <= m THEN s[k] ELSE t[k - m]
  BY <1>1
<1>. HIDE DEF q, m, n
<1>3. ASSUME NEW k \in 1 .. m
      PROVE  q[k] = s[k]
  <2>1. k \in 1 .. m + n /\ k <= m
    BY <1>2
  <2>. QED  BY <1>2, <2>1
<1>4. ASSUME NEW k \in 1 .. n
      PROVE  q[m + k] = t[k]
  <2>. DEFINE l == m + k
  <2>1. l \in 1 .. m + n /\ ~(l <= m) /\ l - m = k
    BY <1>2
  <2>. HIDE DEF l
  <2>2. q[l] = t[l - m]
    BY <1>2, <2>1
  <2>. QED  BY <2>1, <2>2 DEF l
<1>. QED  BY <1>2, <1>3, <1>4 DEF q, m, n

\* Where the parts of a table are.
LEMMA PartsOfTable ==
  ASSUME NEW h \in Seq(Nat), NEW p \in Seq(Nat), NEW t \in Seq(Nat)
  PROVE  Len(h) = 2 /\ Len(t) = 4 =>
           /\ h \o p \o t \in Seq(Nat) /\ Len(h \o p \o t) = Len(p) + 6
           /\ \A k \in 1 .. 2 : (h \o p \o t)[k] = h[k]
           /\ \A k \in 1 .. Len(p) : (h \o p \o t)[2 + k] = p[k]
           /\ \A k \in 1 .. 4 : (h \o p \o t)[Len(p) + 2 + k] = t[k]
<1>. DEFINE q == h \o p
            r == q \o t
            n == Len(p)
            m == Len(q)
<1>1. /\ q \in Seq(Nat) /\ m = Len(h) + n /\ n \in Nat
      /\ \A k \in 1 .. Len(h) : q[k] = h[k]
      /\ \A k \in 1 .. n : q[Len(h) + k] = p[k]
  <2>1. h \o p \in Seq(Nat) /\ Len(h \o p) = Len(h) + Len(p)
    BY Joined
  <2>2. \A k \in 1 .. Len(h) : (h \o p)[k] = h[k]
    BY Joined
  <2>3. \A k \in 1 .. Len(p) : (h \o p)[Len(h) + k] = p[k]
    BY Joined
  <2>4. Len(p) \in Nat
    OBVIOUS
  <2>. QED  BY <2>1, <2>2, <2>3, <2>4
<1>2. /\ r \in Seq(Nat) /\ Len(r) = m + Len(t)
      /\ \A k \in 1 .. m : r[k] = q[k]
      /\ \A k \in 1 .. Len(t) : r[m + k] = t[k]
  <2>1. q \in Seq(Nat)
    BY <1>1
  <2>. HIDE DEF q
  <2>2. q \o t \in Seq(Nat) /\ Len(q \o t) = Len(q) + Len(t)
    BY <2>1, Joined
  <2>3. \A k \in 1 .. Len(q) : (q \o t)[k] = q[k]
    BY <2>1, Joined
  <2>4. \A k \in 1 .. Len(t) : (q \o t)[Len(q) + k] = t[k]
    BY <2>1, Joined
  <2>. QED  BY <2>2, <2>3, <2>4
<1>. HAVE Len(h) = 2 /\ Len(t) = 4
<1>. HIDE DEF q, r, n, m
<1>3. m = 2 + n /\ Len(r) = n + 6
  BY <1>1, <1>2
<1>4. ASSUME NEW k \in 1 .. 2
      PROVE  r[k] = h[k]
  <2>1. k \in 1 .. m /\ k \in 1 .. Len(h)
    BY <1>1, <1>3
  <2>. QED  BY <1>1, <1>2, <2>1
<1>5. ASSUME NEW k \in 1 .. n
      PROVE  r[2 + k] = p[k]
  <2>. DEFINE l == 2 + k
  <2>1. l \in 1 .. m /\ l = Len(h) + k
    BY <1>1, <1>3
  <2>. HIDE DEF l
  <2>2. q[l] = p[k]
    BY <1>1, <2>1
  <2>3. r[l] = p[k]
    BY <1>2, <2>1, <2>2
  <2>. QED  BY <2>3 DEF l
<1>6. ASSUME NEW k \in 1 .. 4
      PROVE  r[n + 2 + k] = t[k]
  <2>1. n + 2 + k = m + k /\ k \in 1 .. Len(t)
    BY <1>1, <1>3
  <2>. QED  BY <1>2, <2>1
<1>. QED  BY <1>2, <1>3, <1>4, <1>5, <1>6 DEF r, q, n

\* The table for any number of processors: its length, and where the checksum and
\* the ids are.
LEMMA MadtFacts ==
  ASSUME Boot!BootAssumption, NEW n \in Nat, NEW c \in Nat
  PROVE  /\ Boot!MadtBytes(n, c) \in Seq(Nat) /\ Len(Boot!MadtBytes(n, c)) = 4 * n + 6
         /\ Boot!MadtBytes(n, c)[2] = c
         /\ \A k \in 1 .. 4 * n + 6 :
              k # 2 => Boot!MadtBytes(n, c)[k] = Boot!MadtBytes(n, 0)[k]
         /\ \A i \in 0 .. n - 1 : Boot!MadtBytes(n, c)[4 * i + 6] = Boot!UINT8(i)
         /\ Boot!MadtBytes(n, c)[4 * n + 5] = Boot!UINT8(n)
<1>. DEFINE P == Boot!ProcessorBytes(n)
            T == <<Boot!IoApic, Boot!UINT8(4), Boot!UINT8(n), 0>>
            H(d) == <<Boot!UINT8(2 + 4 * (n + 1)), d>>
<1>1. \A x \in Nat : Boot!UINT8(x) \in Nat
  <2>1. \A x \in Nat : Boot!UINT8(x) \in 0 .. ByteValues - 1 /\ ByteValues \in Nat
    BY Remainders DEF Boot!UINT8, Boot!BootAssumption
  <2>. QED  BY <2>1
<1>2. ASSUME NEW i \in 0 .. n - 1, NEW j \in 0 .. 3
      PROVE  /\ 4 * i + j + 1 \in 1 .. 4 * n
             /\ P[4 * i + j + 1] = <<Boot!LocalApic, Boot!UINT8(4), Boot!UINT8(i), Boot!UINT8(i)>>[1 + j]
  <2>1. (4 * i + j) \div 4 = i /\ (4 * i + j) % 4 = j /\ 4 * i + j + 1 \in 1 .. 4 * n
        /\ (4 * i + j + 1) - 1 = 4 * i + j
    OBVIOUS
  <2>. QED  BY <2>1 DEF Boot!ProcessorBytes
<1>3. P \in Seq(Nat) /\ Len(P) = 4 * n
  <2>1. ASSUME NEW k \in 1 .. 4 * n
        PROVE  P[k] \in Nat
    <3>. DEFINE i == (k - 1) \div 4
                j == (k - 1) % 4
    <3>1. i \in 0 .. n - 1 /\ j \in 0 .. 3 /\ k = 4 * i + j + 1
      OBVIOUS
    <3>. HIDE DEF i, j
    <3>2. P[k] = <<Boot!LocalApic, Boot!UINT8(4), Boot!UINT8(i), Boot!UINT8(i)>>[1 + j]
      BY <1>2, <3>1
    <3>3. Boot!LocalApic \in Nat /\ Boot!UINT8(4) \in Nat /\ Boot!UINT8(i) \in Nat
      BY <1>1, <3>1 DEF Boot!LocalApic
    <3>4. 1 + j = 1 \/ 1 + j = 2 \/ 1 + j = 3 \/ 1 + j = 4
      BY <3>1
    <3>. DEFINE four == <<Boot!LocalApic, Boot!UINT8(4), Boot!UINT8(i), Boot!UINT8(i)>>
    <3>5. four[1] \in Nat /\ four[2] \in Nat /\ four[3] \in Nat /\ four[4] \in Nat
      BY <3>3
    <3>. HIDE DEF P, four
    <3>. QED  BY <3>2, <3>4, <3>5 DEF four
  <2>2. DOMAIN P = 1 .. 4 * n /\ 4 * n \in Nat
    BY DEF Boot!ProcessorBytes
  <2>3. P = [k \in 1 .. 4 * n |-> P[k]]
    BY DEF Boot!ProcessorBytes
  <2>. HIDE DEF P
  <2>. QED  BY <2>1, <2>2, <2>3
<1>4. T \in Seq(Nat) /\ Len(T) = 4 /\ T[3] = Boot!UINT8(n)
  <2>1. Boot!UINT8(4) \in Nat /\ Boot!UINT8(n) \in Nat /\ Boot!IoApic \in Nat
    BY <1>1 DEF Boot!IoApic
  <2>. QED  BY <2>1
<1>5. ASSUME NEW d \in Nat
      PROVE  H(d) \in Seq(Nat) /\ Len(H(d)) = 2 /\ H(d)[2] = d
  <2>1. Boot!UINT8(2 + 4 * (n + 1)) \in Nat
    BY <1>1
  <2>. QED  BY <2>1
<1>6. H(c)[1] = H(0)[1]
  OBVIOUS
<1>7. \A d \in Nat : Boot!MadtBytes(n, d) = H(d) \o P \o T
  BY DEF Boot!MadtBytes
<1>8. \A i \in 0 .. n - 1 : P[4 * i + 4] = Boot!UINT8(i)
  <2>. SUFFICES ASSUME NEW i \in 0 .. n - 1
                PROVE  P[4 * i + 4] = Boot!UINT8(i)
    OBVIOUS
  <2>1. 4 * i + 3 + 1 = 4 * i + 4 /\ 3 \in 0 .. 3 /\ 1 + 3 = 4
    OBVIOUS
  <2>2. P[4 * i + 4] = <<Boot!LocalApic, Boot!UINT8(4), Boot!UINT8(i), Boot!UINT8(i)>>[4]
    BY <1>2, <2>1
  <2>. QED  BY <2>2
<1>. HIDE DEF P, T, H
<1>. DEFINE M(d) == H(d) \o P \o T
            m == 4 * n
<1>9. m \in Nat
  OBVIOUS
<1>. HIDE DEF m
<1>10. ASSUME NEW d \in Nat
       PROVE  /\ M(d) \in Seq(Nat) /\ Len(M(d)) = m + 6
              /\ \A k \in 1 .. 2 : M(d)[k] = H(d)[k]
              /\ \A k \in 1 .. m : M(d)[2 + k] = P[k]
              /\ \A k \in 1 .. 4 : M(d)[m + 2 + k] = T[k]
  <2>1. /\ H(d) \in Seq(Nat) /\ Len(H(d)) = 2 /\ P \in Seq(Nat) /\ Len(P) = m
        /\ T \in Seq(Nat) /\ Len(T) = 4
    BY <1>3, <1>4, <1>5 DEF m
  <2>2. /\ M(d) \in Seq(Nat) /\ Len(M(d)) = Len(P) + 6
        /\ \A k \in 1 .. 2 : M(d)[k] = H(d)[k]
        /\ \A k \in 1 .. Len(P) : M(d)[2 + k] = P[k]
        /\ \A k \in 1 .. 4 : M(d)[Len(P) + 2 + k] = T[k]
    BY <2>1, PartsOfTable
  <2>. HIDE DEF M
  <2>. QED  BY <2>1, <2>2
<1>. DEFINE A == M(c)
            Z == M(0)
<1>11. /\ A \in Seq(Nat) /\ Len(A) = m + 6
       /\ \A k \in 1 .. 2 : A[k] = H(c)[k]
       /\ \A k \in 1 .. m : A[2 + k] = P[k]
       /\ \A k \in 1 .. 4 : A[m + 2 + k] = T[k]
  BY <1>10
<1>12. /\ \A k \in 1 .. 2 : Z[k] = H(0)[k]
       /\ \A k \in 1 .. m : Z[2 + k] = P[k]
       /\ \A k \in 1 .. 4 : Z[m + 2 + k] = T[k]
  BY <1>10
<1>13. Boot!MadtBytes(n, c) = A /\ Boot!MadtBytes(n, 0) = Z
  BY <1>7
<1>. HIDE DEF A, Z, M
<1>14. A[2] = c
  <2>1. 2 \in 1 .. 2 /\ H(c)[2] = c
    BY <1>5
  <2>. QED  BY <1>11, <2>1
<1>15. ASSUME NEW k \in 1 .. m + 6, k # 2
       PROVE  A[k] = Z[k]
  <2>1. CASE k = 1
    BY <1>6, <1>11, <1>12, <2>1
  <2>2. CASE k \in 3 .. m + 2
    <3>. DEFINE j == k - 2
    <3>1. j \in 1 .. m /\ k = 2 + j
      BY <1>9, <2>2
    <3>. HIDE DEF j
    <3>. QED  BY <1>11, <1>12, <3>1
  <2>3. CASE k \in m + 3 .. m + 6
    <3>. DEFINE j == k - (m + 2)
    <3>1. j \in 1 .. 4 /\ k = m + 2 + j
      BY <1>9, <2>3
    <3>. HIDE DEF j
    <3>. QED  BY <1>11, <1>12, <3>1
  <2>. QED  BY <1>9, <1>15, <2>1, <2>2, <2>3
<1>16. ASSUME NEW i \in 0 .. n - 1
       PROVE  A[4 * i + 6] = Boot!UINT8(i)
  <2>. DEFINE k == 4 * i + 4
  <2>1. k \in 1 .. m /\ 4 * i + 6 = 2 + k
    BY DEF m
  <2>2. P[k] = Boot!UINT8(i)
    BY <1>8
  <2>. HIDE DEF k
  <2>. QED  BY <1>11, <2>1, <2>2
<1>17. A[4 * n + 5] = Boot!UINT8(n)
  <2>1. 4 * n + 5 = m + 2 + 3 /\ 3 \in 1 .. 4
    BY DEF m
  <2>. QED  BY <1>4, <1>11, <2>1
<1>. QED  BY <1>11, <1>13, <1>14, <1>15, <1>16, <1>17 DEF m

\* The table for a number of processors, with its checksum.
Published(n) == Boot!MadtBytes(n, Boot!AcpiCalcChecksum(Boot!MadtBytes(n, 0)))

\* The two tables as they are made.
TablesMade ==
  /\ madt \in {<<>>, Published(gCpuCount)}
  /\ 4 \in smbios.types => smbios.cores = Boot!UINT8(gCpuCount)

LEMMA ChecksumIsRight ==
  ASSUME Boot!BootAssumption, NEW n \in Nat
  PROVE  /\ Boot!AcpiCalcChecksum(Boot!MadtBytes(n, 0)) \in Nat
         /\ Boot!ByteSum(Published(n)) = 0
<1>. DEFINE B == ByteValues
            s == Boot!MadtBytes(n, 0)
            x == Boot!ByteSum(s)
            c == Boot!AcpiCalcChecksum(s)
            t == Boot!MadtBytes(n, c)
<1>1. B \in Nat \ {0} /\ 0 \in Nat
  BY DEF Boot!BootAssumption
<1>2. s \in Seq(Nat) /\ Len(s) = 4 * n + 6 /\ s[2] = 0
  BY <1>1, MadtFacts
<1>3. x \in 0 .. B - 1
  <2>1. 2 <= Len(s)
    BY <1>2
  <2>. HIDE DEF s
  <2>. QED  BY <1>1, <1>2, <2>1, SumOfChecked
<1>4. c = (B - x) % B
  BY DEF Boot!AcpiCalcChecksum
<1>5. c \in 0 .. B - 1 /\ (x + c) % B = 0
  <2>. HIDE DEF x, c
  <2>1. CASE x = 0
    <3>1. B - x = 0 + 1 * B
      BY <1>1, <2>1
    <3>2. (0 + 1 * B) % B = 0
      BY <1>1, Division
    <3>3. c = 0
      BY <1>4, <3>1, <3>2
    <3>4. 0 % B = 0
      BY <1>1, Remainders
    <3>. QED  BY <1>1, <2>1, <3>3, <3>4
  <2>2. CASE x # 0
    <3>1. B - x \in 0 .. B - 1
      BY <1>1, <1>3, <2>2
    <3>2. c = B - x
      BY <1>1, <1>4, <3>1, Remainders
    <3>3. x + c = 0 + 1 * B
      BY <1>1, <1>3, <3>2
    <3>4. (0 + 1 * B) % B = 0
      BY <1>1, Division
    <3>. QED  BY <3>1, <3>2, <3>3, <3>4
  <2>. QED  BY <2>1, <2>2
<1>6. c \in Nat
  BY <1>1, <1>5
<1>. HIDE DEF c
<1>7. /\ t \in Seq(Nat) /\ Len(t) = 4 * n + 6 /\ t[2] = c
      /\ \A k \in 1 .. 4 * n + 6 : k # 2 => t[k] = s[k]
  BY <1>6, MadtFacts
<1>. HIDE DEF s, t
<1>8. Boot!ByteSum(t) = (x + c) % B
  <2>1. 2 <= Len(s) /\ Len(t) = Len(s) /\ \A k \in 1 .. Len(s) : k # 2 => t[k] = s[k]
    BY <1>2, <1>7
  <2>. QED  BY <1>2, <1>6, <1>7, <2>1, SumOfChecked
<1>. QED  BY <1>5, <1>6, <1>8 DEF Published, c, s, t

\* Whatever was published and whatever was left out, the tables describe the
\* processors counted.
LEMMA TablesAreTrue ==
  ASSUME Boot!BootAssumption, gCpuCount \in Nat, TablesMade
  PROVE  Boot!TablesDescribe(gCpuCount)
<1>. DEFINE n == gCpuCount
            t == Published(n)
<1>1. /\ t \in Seq(Nat) /\ Len(t) = 4 * n + 6 /\ Boot!ByteSum(t) = 0
      /\ \A i \in 0 .. n - 1 : t[4 * i + 6] = Boot!UINT8(i)
      /\ t[4 * n + 5] = Boot!UINT8(n)
  BY ChecksumIsRight, MadtFacts DEF Published
<1>. SUFFICES ASSUME madt # <<>>
              PROVE  Boot!TablesDescribe(n)
  BY DEF Boot!TablesDescribe
<1>2. madt = t
  BY DEF TablesMade
<1>3. n < ByteValues => \A i \in 0 .. n : Boot!UINT8(i) = i
  <2>. SUFFICES ASSUME n < ByteValues, NEW i \in 0 .. n
                PROVE  Boot!UINT8(i) = i
    OBVIOUS
  <2>1. ByteValues \in Nat \ {0}
    BY DEF Boot!BootAssumption
  <2>2. i \in 0 .. ByteValues - 1
    BY <2>1
  <2>. QED  BY <2>1, <2>2, Remainders DEF Boot!UINT8
<1>. HIDE DEF t
<1>4. 4 \in smbios.types /\ n < ByteValues => smbios.cores = (Len(madt) - 6) \div 4
  <2>. SUFFICES ASSUME 4 \in smbios.types, n < ByteValues
                PROVE  smbios.cores = (Len(madt) - 6) \div 4
    OBVIOUS
  <2>1. smbios.cores = n
    BY <1>3 DEF TablesMade
  <2>2. Len(madt) - 6 = 4 * n /\ (4 * n) \div 4 = n
    BY <1>1, <1>2
  <2>. QED  BY <2>1, <2>2
<1>5. ASSUME n < ByteValues, NEW i \in 0 .. n - 1
      PROVE  madt[4 * i + 6] = i
  BY <1>1, <1>2, <1>3, <1>5
<1>6. ASSUME n < ByteValues
      PROVE  madt[Len(madt) - 1] = n
  <2>1. Len(madt) - 1 = 4 * n + 5
    BY <1>1, <1>2
  <2>2. n \in 0 .. n
    OBVIOUS
  <2>3. Boot!UINT8(n) = n
    BY <1>3, <1>6, <2>2, Zenon
  <2>. QED  BY <1>1, <1>2, <2>1, <2>3, Zenon
<1>7. n < ByteValues =>
        \A i, j \in 0 .. n - 1 : i # j => madt[4 * i + 6] # madt[4 * j + 6]
  BY <1>5, Zenon
<1>8. n < ByteValues => \A i \in 0 .. n - 1 : madt[4 * i + 6] # madt[Len(madt) - 1]
  <2>1. \A i \in 0 .. n - 1 : i # n
    OBVIOUS
  <2>. QED  BY <1>5, <1>6, <2>1, Zenon
<1>. QED  BY <1>1, <1>2, <1>4, <1>7, <1>8, Zenon DEF Boot!TablesDescribe

-------------------------------------------------------------------------------
(* The answers to CPUID                                                    *)

\* The overrides that say what they should: the virtualisation features are there,
\* and what comes from the processor is its own answer, for the leaves with
\* subleaves only where the fill names the subleaf.
SoundOverrides ==
  {o \in [Leaf : Int, Subleaf : Int,
          Answer : [from : {"processor", "firmware"}, leaf : Int, sub : Int,
                    flags : SUBSET {"VMX", "HV", "PDCM", "SVM"}]] :
     /\ o.Leaf = 1 => o.Answer.flags = {"VMX", "HV"}
     /\ o.Leaf = ExtBase + 1 => o.Answer.flags = {"SVM"}
     /\ o.Leaf \notin {1, ExtBase + 1} /\ o.Answer.from = "processor" /\
          (o.Subleaf = 0 => o.Leaf \notin Boot!Indexed \ Boot!HandledApart) =>
            o.Answer = Boot!Processor(o.Leaf, o.Subleaf)}

Overrides(t, l) == \E i \in DOMAIN t : t[i].Leaf = l /\ t[i].Subleaf = 0

\* The table of overrides, empty or filled.
OverridesMade ==
  /\ gCpuidOverrides \in Seq(SoundOverrides)
  /\ gCpuidOverrides # <<>> =>
       /\ Overrides(gCpuidOverrides, 1)
       /\ cpu.ext >= 1 => Overrides(gCpuidOverrides, ExtBase + 1)

LEMMA CpuFacts ==
  ASSUME Boot!BootAssumption, cpu \in Machines
  PROVE  /\ HvBase \in Nat /\ 36 < HvBase /\ ExtBase \in Nat /\ HvBase + 6 <= ExtBase
         /\ MaxOverrides \in Nat /\ MaxOverrides >= 29
         /\ cpu.std \in 0 .. HvBase - 1 /\ cpu.ext \in {-1} \cup Nat
         /\ cpu.caches \in Seq(0 .. 3) /\ cpu.levels \in Seq(Nat) /\ cpu.states \in Nat \ {0}
         /\ cpu.flags \in SUBSET {"VMX", "HV", "PDCM", "SVM"}
<1>1. cpu \in Boot!Cpu
  BY DEF Boot!BootAssumption
<1>2. HvBase + 6 <= ExtBase
  BY DEF Boot!BootAssumption, Boot!SpoofAssumption
<1>. QED  BY <1>1, <1>2 DEF Boot!BootAssumption, Boot!SpoofAssumption, Boot!Cpu

\* Which leaves carry flags.
LEMMA FlagsFacts ==
  ASSUME Boot!BootAssumption, cpu \in Machines
  PROVE  /\ Boot!FlagsOf(1) = {"VMX", "HV", "PDCM"}
         /\ Boot!FlagsOf(ExtBase + 1) = {"SVM"}
         /\ \A l \in Int \ {1, ExtBase + 1} : Boot!FlagsOf(l) = {}
<1>1. ExtBase + 1 # 1 /\ ExtBase + 1 \in Int
  BY CpuFacts
<1>. QED  BY <1>1 DEF Boot!FlagsOf

\* The processor's answer and the firmware's are sound for the leaves that carry no
\* flags.
LEMMA PlainIsSound ==
  ASSUME Boot!BootAssumption, cpu \in Machines, NEW l \in Int \ {1, ExtBase + 1}, NEW s \in Int
  PROVE  /\ Boot!Override(l, s, Boot!Processor(l, s)) \in SoundOverrides
         /\ Boot!Override(l, s, Boot!Answer("firmware", l, s, {})) \in SoundOverrides
         /\ l \notin Boot!HandledApart =>
              Boot!Override(l, 0, Boot!AsmCpuid(l)) \in SoundOverrides
<1>1. Boot!FlagsOf(l) = {}
  BY FlagsFacts
<1>. DEFINE a == Boot!Processor(l, s)
            c == Boot!AsmCpuid(l)
            b == Boot!Answer("firmware", l, s, {})
            T == [from : {"processor", "firmware"}, leaf : Int, sub : Int,
                  flags : SUBSET {"VMX", "HV", "PDCM", "SVM"}]
<1>2. a \in T
  <2>1. cpu.flags \cap Boot!FlagsOf(l) = {}
    BY <1>1
  <2>2. (IF l \in Boot!Indexed THEN s ELSE 0) \in Int
    OBVIOUS
  <2>. QED  BY <2>1, <2>2 DEF Boot!Processor, Boot!Answer
<1>3. b \in T /\ b.from = "firmware"
  BY DEF Boot!Answer
<1>6. c \in T /\ (l \notin Boot!Indexed => c = Boot!Processor(l, 0))
  <2>1. cpu.flags \cap Boot!FlagsOf(l) = {}
    BY <1>1
  <2>2. (IF l \in Boot!Indexed THEN -1 ELSE 0) \in Int
    OBVIOUS
  <2>. QED  BY <2>1, <2>2 DEF Boot!Processor, Boot!Answer, Boot!AsmCpuid, Boot!Stray
<1>. HIDE DEF a, b, c
<1>4. Boot!Override(l, s, a) \in SoundOverrides
  <2>1. [Leaf |-> l, Subleaf |-> s, Answer |-> a] \in [Leaf : Int, Subleaf : Int, Answer : T]
    BY <1>2
  <2>. HIDE DEF T
  <2>. QED  BY <2>1 DEF a, Boot!Override, SoundOverrides, T
<1>5. Boot!Override(l, s, b) \in SoundOverrides
  <2>1. [Leaf |-> l, Subleaf |-> s, Answer |-> b] \in [Leaf : Int, Subleaf : Int, Answer : T]
    BY <1>3
  <2>. HIDE DEF T
  <2>. QED  BY <1>3, <2>1 DEF Boot!Override, SoundOverrides, T
<1>7. ASSUME l \notin Boot!HandledApart
      PROVE  Boot!Override(l, 0, c) \in SoundOverrides
  <2>1. [Leaf |-> l, Subleaf |-> 0, Answer |-> c] \in [Leaf : Int, Subleaf : Int, Answer : T]
    BY <1>6
  <2>2. l \notin Boot!Indexed \ Boot!HandledApart => c = Boot!Processor(l, 0)
    BY <1>6, <1>7
  <2>. HIDE DEF T
  <2>. QED  BY <2>1, <2>2 DEF Boot!Override, SoundOverrides, T
<1>. QED  BY <1>4, <1>5, <1>7 DEF a, b, c

\* The same for the two leaves that carry them.
LEMMA FeaturesAreSound ==
  ASSUME Boot!BootAssumption, cpu \in Machines
  PROVE  /\ Boot!Override(1, 0, Boot!Answer("processor", 1, 0, Boot!Forced(Boot!AsmCpuid(1).flags)))
              \in SoundOverrides
         /\ Boot!Override(ExtBase + 1, 0,
                          [Boot!AsmCpuid(ExtBase + 1) EXCEPT !.flags = @ \cup {"SVM"}])
              \in SoundOverrides
<1>. DEFINE T == [from : {"processor", "firmware"}, leaf : Int, sub : Int,
                  flags : SUBSET {"VMX", "HV", "PDCM", "SVM"}]
            a == Boot!Answer("processor", 1, 0, Boot!Forced(Boot!AsmCpuid(1).flags))
            p == Boot!AsmCpuid(ExtBase + 1)
            b == [p EXCEPT !.flags = @ \cup {"SVM"}]
<1>1. /\ ExtBase \in Nat /\ ExtBase + 1 # 1
      /\ cpu.flags \in SUBSET {"VMX", "HV", "PDCM", "SVM"}
  BY CpuFacts
<1>2. a.flags = {"VMX", "HV"} /\ a \in T
  <2>1. Boot!AsmCpuid(1).flags = cpu.flags \cap {"VMX", "HV", "PDCM"}
    BY FlagsFacts DEF Boot!Processor, Boot!Answer, Boot!AsmCpuid
  <2>2. Boot!Forced(Boot!AsmCpuid(1).flags) = {"VMX", "HV"}
    BY <2>1 DEF Boot!Forced
  <2>. QED  BY <2>2 DEF Boot!Answer
<1>3. b.flags = {"SVM"} /\ b \in T
  <2>. DEFINE x == IF ExtBase + 1 \in Boot!Indexed THEN -1 ELSE 0
  <2>1. p = Boot!Answer("processor", ExtBase + 1, x, cpu.flags \cap {"SVM"})
    BY FlagsFacts DEF Boot!Processor, Boot!AsmCpuid, Boot!Stray
  <2>5. x \in Int
    OBVIOUS
  <2>. HIDE DEF x
  <2>2. p = [from |-> "processor", leaf |-> ExtBase + 1, sub |-> x, flags |-> cpu.flags \cap {"SVM"}]
    BY <2>1 DEF Boot!Answer
  <2>3. (cpu.flags \cap {"SVM"}) \cup {"SVM"} = {"SVM"}
    OBVIOUS
  <2>4. b = [from |-> "processor", leaf |-> ExtBase + 1, sub |-> x, flags |-> {"SVM"}]
    BY <2>2, <2>3
  <2>. QED  BY <1>1, <2>4, <2>5
<1>. HIDE DEF a, b
<1>4. Boot!Override(1, 0, a) \in SoundOverrides
  <2>1. [Leaf |-> 1, Subleaf |-> 0, Answer |-> a] \in [Leaf : Int, Subleaf : Int, Answer : T]
    BY <1>2
  <2>. HIDE DEF T
  <2>. QED  BY <1>1, <1>2, <2>1 DEF Boot!Override, SoundOverrides, T
<1>5. Boot!Override(ExtBase + 1, 0, b) \in SoundOverrides
  <2>1. [Leaf |-> ExtBase + 1, Subleaf |-> 0, Answer |-> b]
          \in [Leaf : Int, Subleaf : Int, Answer : T]
    BY <1>1, <1>3
  <2>. HIDE DEF T
  <2>. QED  BY <1>1, <1>3, <2>1 DEF Boot!Override, SoundOverrides, T
<1>. QED  BY <1>4, <1>5 DEF a, b

-------------------------------------------------------------------------------

\* A function over an interval is a sequence of its values.
LEMMA FunctionIsSequence ==
  ASSUME NEW S, NEW n \in Nat, NEW f \in [1 .. n -> S]
  PROVE  f \in Seq(S) /\ Len(f) = n
OBVIOUS

\* The blocks of the table that have at most so many entries each.
LEMMA SmallBlocks ==
  ASSUME Boot!BootAssumption, cpu \in Machines
  PROVE  /\ Boot!PopulateLeaf04 \in Seq(SoundOverrides) /\ Len(Boot!PopulateLeaf04) <= 5
         /\ Boot!PopulateLeaf07 \in Seq(SoundOverrides) /\ Len(Boot!PopulateLeaf07) <= 1
         /\ Boot!PopulateLeaf0B \in Seq(SoundOverrides) /\ Len(Boot!PopulateLeaf0B) <= 4
         /\ Boot!PopulateLeaf0D \in Seq(SoundOverrides) /\ Len(Boot!PopulateLeaf0D) <= 10
         /\ Boot!PopulateHypervisorLeaves \in Seq(SoundOverrides)
         /\ Len(Boot!PopulateHypervisorLeaves) <= 6
<1>1. HvBase \in Nat /\ 36 < HvBase /\ ExtBase \in Nat /\ HvBase + 6 <= ExtBase
  BY CpuFacts
<1>2. /\ {4, 7, 11, 13} \subseteq Int \ {1, ExtBase + 1}
      /\ \A i \in 1 .. 6 : HvBase + i - 1 \in Int \ {1, ExtBase + 1}
  BY <1>1
<1>3. Boot!PopulateLeaf04 \in Seq(SoundOverrides) /\ Len(Boot!PopulateLeaf04) <= 5
  <2>. DEFINE p == {n \in 0 .. 5 : n = 5 \/ Boot!CacheType(n) = 0}
              m == IF Boot!LastCache = 3 THEN 4 ELSE Boot!LastCache
              made(s) == Boot!Override(4, s, IF Boot!CacheType(s) \in {0, 3}
                                              THEN Boot!Answer("firmware", 4, s, {})
                                              ELSE Boot!Processor(4, s))
  <2>1. p \in SUBSET Nat /\ p # {}
    <3>1. 5 \in p
      OBVIOUS
    <3>. QED  BY <3>1
  <2>2. PICK k \in p : \A l \in p : k <= l
    <3>. HIDE DEF p
    <3>. QED  BY <2>1, Least
  <2>3. /\ k \in 0 .. 5 /\ (k = 5 \/ Boot!CacheType(k) = 0)
        /\ \A s \in 0 .. k - 1 : Boot!CacheType(s) # 0
    <3>1. ASSUME NEW s \in 0 .. k - 1, Boot!CacheType(s) = 0
          PROVE  FALSE
      <4>1. s \in p /\ ~(k <= s)
        BY <2>2, <3>1
      <4>. QED  BY <2>2, <4>1
    <3>. QED  BY <2>2, <3>1
  <2>4. Boot!LastCache \in 0 .. 5
    <3>. DEFINE Q(n) == /\ n = 5 \/ Boot!CacheType(n) = 0
                        /\ \A s \in 0 .. n - 1 : Boot!CacheType(s) # 0
    <3>1. \E n \in 0 .. 5 : Q(n)
      BY <2>3
    <3>2. Boot!LastCache = CHOOSE n \in 0 .. 5 : Q(n)
      BY DEF Boot!LastCache
    <3>. HIDE DEF Q
    <3>. QED  BY <3>1, <3>2
  <2>5. m \in 0 .. 5
    BY <2>4
  <2>6. ASSUME NEW s \in Int
        PROVE  made(s) \in SoundOverrides
    <3>1. 4 \in Int \ {1, ExtBase + 1}
      BY <1>2
    <3>. QED  BY <3>1, PlainIsSound
  <2>. HIDE DEF made, m
  <2>7. [i \in 1 .. m |-> made(i - 1)] \in [1 .. m -> SoundOverrides] /\ m \in Nat
    BY <2>5, <2>6
  <2>8. Boot!PopulateLeaf04 = [i \in 1 .. m |-> made(i - 1)]
    BY DEF Boot!PopulateLeaf04, m, made
  <2>9. Boot!PopulateLeaf04 \in Seq(SoundOverrides) /\ Len(Boot!PopulateLeaf04) = m
    BY <2>7, <2>8, FunctionIsSequence
  <2>. QED  BY <2>5, <2>9
<1>4. Boot!PopulateLeaf07 \in Seq(SoundOverrides) /\ Len(Boot!PopulateLeaf07) <= 1
  <2>. DEFINE o == Boot!Override(7, 0, Boot!Processor(7, 0))
  <2>1. o \in SoundOverrides
    BY <1>2, PlainIsSound
  <2>. HIDE DEF o
  <2>2. <<o>> \in Seq(SoundOverrides) /\ Len(<<o>>) = 1
    BY <2>1
  <2>. QED  BY <2>2 DEF o, Boot!PopulateLeaf07
<1>5. Boot!PopulateLeaf0B \in Seq(SoundOverrides) /\ Len(Boot!PopulateLeaf0B) <= 4
  <2>. DEFINE m == IF Len(cpu.levels) < 4 THEN Len(cpu.levels) + 1 ELSE 4
              f == [i \in 1 .. m |-> Boot!Override(11, i - 1, Boot!Processor(11, i - 1))]
  <2>1. m \in 0 .. 4
    <3>1. Len(cpu.levels) \in Nat
      BY CpuFacts
    <3>. QED  BY <3>1
  <2>. HIDE DEF m
  <2>2. ASSUME NEW i \in 1 .. m
        PROVE  Boot!Override(11, i - 1, Boot!Processor(11, i - 1)) \in SoundOverrides
    <3>1. 11 \in Int \ {1, ExtBase + 1} /\ i - 1 \in Int
      BY <1>2, <2>1
    <3>. QED  BY <3>1, PlainIsSound
  <2>3. f \in [1 .. m -> SoundOverrides] /\ m \in Nat
    BY <2>1, <2>2
  <2>4. Boot!PopulateLeaf0B = f
    BY DEF Boot!PopulateLeaf0B, m
  <2>. HIDE DEF f
  <2>. QED  BY <2>1, <2>3, <2>4, FunctionIsSequence
<1>6. Boot!PopulateLeaf0D \in Seq(SoundOverrides) /\ Len(Boot!PopulateLeaf0D) <= 10
  <2>. DEFINE m == IF cpu.states < 10 THEN cpu.states ELSE 10
              f == [i \in 1 .. m |-> Boot!Override(13, i - 1, Boot!Processor(13, i - 1))]
  <2>1. m \in 0 .. 10
    <3>1. cpu.states \in Nat
      BY CpuFacts
    <3>. QED  BY <3>1
  <2>. HIDE DEF m
  <2>2. ASSUME NEW i \in 1 .. m
        PROVE  Boot!Override(13, i - 1, Boot!Processor(13, i - 1)) \in SoundOverrides
    <3>1. 13 \in Int \ {1, ExtBase + 1} /\ i - 1 \in Int
      BY <1>2, <2>1
    <3>. QED  BY <3>1, PlainIsSound
  <2>3. f \in [1 .. m -> SoundOverrides] /\ m \in Nat
    BY <2>1, <2>2
  <2>4. Boot!PopulateLeaf0D = f
    BY DEF Boot!PopulateLeaf0D, m
  <2>. HIDE DEF f
  <2>. QED  BY <2>1, <2>3, <2>4, FunctionIsSequence
<1>7. Boot!PopulateHypervisorLeaves \in Seq(SoundOverrides) /\ Len(Boot!PopulateHypervisorLeaves) <= 6
  <2>. DEFINE f == [i \in 1 .. 6 |->
                      Boot!Override(HvBase + i - 1, 0, Boot!Answer("firmware", HvBase + i - 1, 0, {}))]
  <2>1. ASSUME NEW i \in 1 .. 6
        PROVE  Boot!Override(HvBase + i - 1, 0, Boot!Answer("firmware", HvBase + i - 1, 0, {}))
                 \in SoundOverrides
    BY <1>2, PlainIsSound
  <2>2. f \in [1 .. 6 -> SoundOverrides] /\ 6 \in Nat
    BY <2>1
  <2>3. Boot!PopulateHypervisorLeaves = f
    BY DEF Boot!PopulateHypervisorLeaves
  <2>. HIDE DEF f
  <2>4. f \in Seq(SoundOverrides) /\ Len(f) = 6
    BY <2>2, FunctionIsSequence
  <2>. QED  BY <2>3, <2>4
<1>. QED  BY <1>3, <1>4, <1>5, <1>6, <1>7

LEMMA ExtendedBlock ==
  ASSUME Boot!BootAssumption, cpu \in Machines
  PROVE  /\ Boot!PopulateExtendedLeaves \in Seq(SoundOverrides)
         /\ Len(Boot!PopulateExtendedLeaves) = cpu.ext + 1
         /\ cpu.ext >= 1 => /\ Boot!PopulateExtendedLeaves[2].Leaf = ExtBase + 1
                            /\ Boot!PopulateExtendedLeaves[2].Subleaf = 0
<1>. DEFINE n == cpu.ext + 1
            made(i) == LET l == ExtBase + i - 1
                            a == Boot!AsmCpuid(l)
                        IN  Boot!Override(l, 0, IF i = 2 THEN [a EXCEPT !.flags = @ \cup {"SVM"}]
                                                ELSE a)
            f == [i \in 1 .. n |-> made(i)]
<1>1. n \in Nat /\ ExtBase \in Nat /\ 36 < ExtBase
  BY CpuFacts
<1>2. ExtBase + 2 - 1 = ExtBase + 1
  BY <1>1
<1>3. made(2) = Boot!Override(ExtBase + 1, 0,
                               [Boot!AsmCpuid(ExtBase + 1) EXCEPT !.flags = @ \cup {"SVM"}])
  BY <1>2, Zenon
<1>4. ASSUME NEW i \in 1 .. n
      PROVE  made(i) \in SoundOverrides
  <2>1. CASE i = 2
    BY <1>3, <2>1, FeaturesAreSound, Zenon
  <2>2. CASE i # 2
    <3>. DEFINE l == ExtBase + i - 1
    <3>1. l \in Int \ {1, ExtBase + 1} /\ l \notin Boot!HandledApart /\ 0 \in Int
      BY <1>1, <2>2 DEF Boot!HandledApart
    <3>2. made(i) = Boot!Override(l, 0, Boot!AsmCpuid(l))
      BY <2>2, Zenon
    <3>. HIDE DEF l, made
    <3>. QED  BY <3>1, <3>2, PlainIsSound
  <2>. QED  BY <2>1, <2>2
<1>5. Boot!PopulateExtendedLeaves = f
  BY DEF Boot!PopulateExtendedLeaves
<1>6. made(2).Leaf = ExtBase + 1 /\ made(2).Subleaf = 0
  BY <1>3, Zenon DEF Boot!Override
<1>. HIDE DEF made, n
<1>7. f \in [1 .. n -> SoundOverrides]
  BY <1>4
<1>8. ASSUME cpu.ext >= 1
      PROVE  f[2] = made(2)
  <2>1. 2 \in 1 .. n
    <3>1. cpu.ext \in Int
      BY CpuFacts
    <3>. QED  BY <1>8, <3>1 DEF n
  <2>. QED  BY <2>1
<1>. HIDE DEF f
<1>9. f \in Seq(SoundOverrides) /\ Len(f) = n
  BY <1>1, <1>7, FunctionIsSequence
<1>. QED  BY <1>5, <1>6, <1>8, <1>9, Zenon DEF n

LEMMA OtherBlock ==
  ASSUME Boot!BootAssumption, cpu \in Machines
  PROVE  Boot!PopulateOtherLeaves \in Seq(SoundOverrides)
<1>. DEFINE Lists == Seq(SoundOverrides)
            n == cpu.std
            Grown(l, q) == IF l < 2 THEN <<>>
                          ELSE IF l \in Boot!HandledApart THEN q
                          ELSE Append(q, Boot!Override(l, 0, Boot!AsmCpuid(l)))
            step == [l \in 1 .. n |-> [q \in Lists |-> Grown(l, q)]]
            Is(f) == f = [l \in 0 .. n |->
                            IF l < 2 THEN <<>>
                            ELSE IF l \in Boot!HandledApart THEN f[l - 1]
                            ELSE Append(f[l - 1], Boot!Override(l, 0, Boot!AsmCpuid(l)))]
<1>1. n \in Nat /\ n < HvBase /\ HvBase < ExtBase /\ HvBase \in Nat /\ ExtBase \in Nat
      /\ <<>> \in Lists
  BY CpuFacts
<1>2. ASSUME NEW l \in 1 .. n, NEW q \in Lists
      PROVE  Grown(l, q) \in Lists
  <2>1. CASE l < 2
    BY <2>1
  <2>2. CASE ~(l < 2)
    <3>1. l \in Int \ {1, ExtBase + 1} /\ 0 \in Int
      BY <1>1, <2>2
    <3>2. l \notin Boot!HandledApart =>
            Boot!Override(l, 0, Boot!AsmCpuid(l)) \in SoundOverrides
      BY <3>1, PlainIsSound
    <3>. QED  BY <2>2, <3>2
  <2>. QED  BY <2>1, <2>2
<1>. HIDE DEF Lists
<1>3. step \in [1 .. n -> [Lists -> Lists]]
  <2>. HIDE DEF Grown
  <2>. QED  BY <1>2
<1>. HIDE DEF n
<1>4. PICK f : Iterates(f, n, Lists, <<>>, step)
  <2>. HIDE DEF step
  <2>. QED  BY <1>1, <1>3, IntervalRecursion
<1>5. ASSUME NEW l \in 1 .. n
      PROVE  f[l] = Grown(l, f[l - 1])
  <2>1. f[l - 1] \in Lists
    BY <1>1, <1>4 DEF Iterates
  <2>. HIDE DEF Grown
  <2>. QED  BY <1>4, <2>1 DEF Iterates
<1>6. Is(f)
  <2>1. ASSUME NEW l \in 0 .. n
        PROVE  f[l] = IF l < 2 THEN <<>>
                      ELSE IF l \in Boot!HandledApart THEN f[l - 1]
                      ELSE Append(f[l - 1], Boot!Override(l, 0, Boot!AsmCpuid(l)))
    <3>1. CASE l = 0
      BY <1>4, <3>1 DEF Iterates
    <3>2. CASE l \in 1 .. n
      BY <1>5, <3>2, Zenon
    <3>. QED  BY <1>1, <3>1, <3>2
  <2>2. f \in [0 .. n -> Lists]
    BY <1>4 DEF Iterates
  <2>. QED  BY <2>1, <2>2, Zenon
<1>. DEFINE g == CHOOSE h : Is(h)
<1>7. Is(g)
  BY <1>6
<1>8. Boot!PopulateOtherLeaves = g[n]
  BY DEF Boot!PopulateOtherLeaves, n
<1>. HIDE DEF g
<1>9. g[0] = <<>>
  <2>1. 0 \in 0 .. n /\ 0 < 2
    BY <1>1
  <2>. QED  BY <1>7, <2>1, Zenon
<1>10. ASSUME NEW l \in 1 .. n
       PROVE  g[l] = Grown(l, g[l - 1])
  <2>1. l \in 0 .. n
    BY <1>1
  <2>. QED  BY <1>7, <2>1, Zenon
<1>11. {l \in 0 .. n : g[l] \in Lists} = 0 .. n
  <2>. DEFINE p == {l \in 0 .. n : g[l] \in Lists}
  <2>1. 0 \in p
    BY <1>1, <1>9
  <2>2. ASSUME NEW l \in 1 .. n, l - 1 \in p
        PROVE  l \in p
    <3>1. g[l - 1] \in Lists /\ l \in 0 .. n
      BY <1>1, <2>2
    <3>. HIDE DEF Grown
    <3>2. g[l] \in Lists
      BY <1>2, <1>10, <3>1
    <3>. QED  BY <3>1, <3>2
  <2>3. p \in SUBSET (0 .. n)
    OBVIOUS
  <2>. HIDE DEF p
  <2>4. p = 0 .. n
    BY <1>1, <2>1, <2>2, <2>3, IntervalInduction
  <2>. QED  BY <2>4 DEF p
<1>. QED  BY <1>1, <1>8, <1>11 DEF Lists

-------------------------------------------------------------------------------

\* A beginning of the table: leaf 1 and at most m entries.
Beginning(s, m) ==
  /\ s \in Seq(SoundOverrides) /\ Len(s) \in 1 .. m
  /\ s[1].Leaf = 1 /\ s[1].Subleaf = 0

LEMMA BeginningGrows ==
  ASSUME NEW s, NEW t \in Seq(SoundOverrides), NEW m \in Nat, NEW n \in Nat,
         Beginning(s, m), Len(t) <= n
  PROVE  Beginning(s \o t, m + n)
<1>1. s \in Seq(SoundOverrides) /\ Len(s) \in 1 .. m
  BY DEF Beginning
<1>2. s \o t \in Seq(SoundOverrides) /\ Len(s \o t) = Len(s) + Len(t)
  BY <1>1, Joined
<1>3. (s \o t)[1] = s[1]
  <2>1. \A k \in 1 .. Len(s) : (s \o t)[k] = s[k]
    BY <1>1, Joined
  <2>2. 1 \in 1 .. Len(s)
    BY <1>1
  <2>. QED  BY <2>1, <2>2, Zenon
<1>4. Len(s) + Len(t) \in 1 .. m + n
  <2>1. Len(t) \in Nat
    OBVIOUS
  <2>. QED  BY <1>1, <2>1
<1>. QED  BY <1>2, <1>3, <1>4, Zenon DEF Beginning

\* What comes before the extended leaves.
LEMMA Fixed ==
  ASSUME Boot!BootAssumption, cpu \in Machines
  PROVE  Beginning(Boot!PopulateLeaf01 \o Boot!PopulateLeaf04 \o Boot!PopulateLeaf07
                     \o Boot!PopulateLeaf0B \o Boot!PopulateLeaf0D
                     \o Boot!PopulateHypervisorLeaves, 27)
<1>. DEFINE o == Boot!Override(1, 0, Boot!Answer("processor", 1, 0,
                                              Boot!Forced(Boot!AsmCpuid(1).flags)))
<1>1. Beginning(Boot!PopulateLeaf01, 1)
  <2>1. o \in SoundOverrides
    BY FeaturesAreSound
  <2>2. o.Leaf = 1 /\ o.Subleaf = 0
    BY DEF Boot!Override
  <2>3. Boot!PopulateLeaf01 = <<o>>
    BY DEF Boot!PopulateLeaf01
  <2>. HIDE DEF o
  <2>4. <<o>> \in Seq(SoundOverrides) /\ Len(<<o>>) = 1 /\ <<o>>[1] = o /\ 1 \in 1 .. 1
    BY <2>1
  <2>. QED  BY <2>2, <2>3, <2>4, Zenon DEF Beginning
<1>. HIDE DEF o
<1>. DEFINE a == Boot!PopulateLeaf01 \o Boot!PopulateLeaf04
            b == a \o Boot!PopulateLeaf07
            c == b \o Boot!PopulateLeaf0B
            d == c \o Boot!PopulateLeaf0D
            e == d \o Boot!PopulateHypervisorLeaves
<1>2. Beginning(a, 6)
  <2>1. 1 + 5 = 6 /\ 1 \in Nat /\ 5 \in Nat
    OBVIOUS
  <2>2. Beginning(a, 1 + 5)
    BY <1>1, <2>1, SmallBlocks, BeginningGrows
  <2>. QED  BY <2>1, <2>2
<1>. HIDE DEF a
<1>3. Beginning(b, 7)
  <2>1. 6 + 1 = 7 /\ 6 \in Nat /\ 1 \in Nat
    OBVIOUS
  <2>2. Beginning(b, 6 + 1)
    BY <1>2, <2>1, SmallBlocks, BeginningGrows
  <2>. QED  BY <2>1, <2>2
<1>. HIDE DEF b
<1>4. Beginning(c, 11)
  <2>1. 7 + 4 = 11 /\ 7 \in Nat /\ 4 \in Nat
    OBVIOUS
  <2>2. Beginning(c, 7 + 4)
    BY <1>3, <2>1, SmallBlocks, BeginningGrows
  <2>. QED  BY <2>1, <2>2
<1>. HIDE DEF c
<1>5. Beginning(d, 21)
  <2>1. 11 + 10 = 21 /\ 11 \in Nat /\ 10 \in Nat
    OBVIOUS
  <2>2. Beginning(d, 11 + 10)
    BY <1>4, <2>1, SmallBlocks, BeginningGrows
  <2>. QED  BY <2>1, <2>2
<1>. HIDE DEF d
<1>6. Beginning(e, 27)
  <2>1. 21 + 6 = 27 /\ 21 \in Nat /\ 6 \in Nat
    OBVIOUS
  <2>2. Beginning(e, 21 + 6)
    BY <1>5, <2>1, SmallBlocks, BeginningGrows
  <2>. QED  BY <2>1, <2>2
<1>. QED  BY <1>6, Zenon DEF a, b, c, d, e

\* The filled table, cut or not, has the two leaves that carry features.
LEMMA TableIsFilled ==
  ASSUME Boot!BootAssumption, cpu \in Machines, NEW t,
         t = Boot!AddOverrides(Boot!PopulateLeaf01 \o Boot!PopulateLeaf04 \o Boot!PopulateLeaf07
                                 \o Boot!PopulateLeaf0B \o Boot!PopulateLeaf0D
                                 \o Boot!PopulateHypervisorLeaves
                                 \o Boot!PopulateExtendedLeaves \o Boot!PopulateOtherLeaves)
  PROVE  /\ t \in Seq(SoundOverrides) /\ Overrides(t, 1)
         /\ cpu.ext >= 1 => Overrides(t, ExtBase + 1)
<1>. DEFINE p == Boot!PopulateLeaf01 \o Boot!PopulateLeaf04 \o Boot!PopulateLeaf07
                   \o Boot!PopulateLeaf0B \o Boot!PopulateLeaf0D \o Boot!PopulateHypervisorLeaves
            e == Boot!PopulateExtendedLeaves
            o == Boot!PopulateOtherLeaves
            q == p \o e
            all == q \o o
            m == IF Len(all) < MaxOverrides THEN Len(all) ELSE MaxOverrides
<1>1. p \in Seq(SoundOverrides) /\ Len(p) \in 1 .. 27 /\ p[1].Leaf = 1 /\ p[1].Subleaf = 0
  BY Fixed DEF Beginning
<1>2. /\ e \in Seq(SoundOverrides) /\ Len(e) = cpu.ext + 1
      /\ cpu.ext >= 1 => e[2].Leaf = ExtBase + 1 /\ e[2].Subleaf = 0
  BY ExtendedBlock
<1>3. o \in Seq(SoundOverrides)
  BY OtherBlock
<1>4. t = SubSeq(all, 1, m)
  BY Zenon DEF Boot!AddOverrides
<1>. HIDE DEF p, e, o
<1>5. /\ q \in Seq(SoundOverrides) /\ Len(q) = Len(p) + Len(e)
      /\ \A k \in 1 .. Len(p) : q[k] = p[k]
      /\ \A k \in 1 .. Len(e) : q[Len(p) + k] = e[k]
  <2>1. p \o e \in Seq(SoundOverrides) /\ Len(p \o e) = Len(p) + Len(e)
    BY <1>1, <1>2, Joined
  <2>2. \A k \in 1 .. Len(p) : (p \o e)[k] = p[k]
    BY <1>1, <1>2, Joined
  <2>3. \A k \in 1 .. Len(e) : (p \o e)[Len(p) + k] = e[k]
    <3>1. e \in Seq(SoundOverrides) /\ p \in Seq(SoundOverrides)
      BY <1>1, <1>2
    <3>. QED  BY <3>1, Joined
  <2>. QED  BY <2>1, <2>2, <2>3
<1>. HIDE DEF q
<1>6. /\ all \in Seq(SoundOverrides) /\ Len(all) = Len(q) + Len(o)
      /\ \A k \in 1 .. Len(q) : all[k] = q[k]
  <2>1. q \o o \in Seq(SoundOverrides) /\ Len(q \o o) = Len(q) + Len(o)
    BY <1>3, <1>5, Joined
  <2>2. \A k \in 1 .. Len(q) : (q \o o)[k] = q[k]
    <3>1. q \in Seq(SoundOverrides)
      BY <1>5
    <3>. QED  BY <1>3, <3>1, Joined
  <2>. QED  BY <2>1, <2>2
<1>. HIDE DEF all
<1>7. Len(e) \in Nat /\ Len(o) \in Nat /\ MaxOverrides \in Nat /\ MaxOverrides >= 29
  BY <1>2, <1>3, CpuFacts
<1>8. m \in 0 .. Len(all) /\ (m = Len(all) \/ m >= 29) /\ 1 <= m /\ m \in Nat
  BY <1>1, <1>5, <1>6, <1>7
<1>. HIDE DEF m
<1>9. t \in Seq(SoundOverrides) /\ Len(t) = m /\ \A k \in 1 .. m : t[k] = all[k]
  BY <1>4, <1>6, <1>8
<1>10. Overrides(t, 1)
  <2>1. 1 \in DOMAIN t /\ t[1] = all[1]
    BY <1>8, <1>9
  <2>2. 1 \in 1 .. Len(p) /\ 1 \in 1 .. Len(q)
    BY <1>1, <1>5, <1>7
  <2>3. t[1] = p[1]
    BY <1>5, <1>6, <2>1, <2>2, Zenon
  <2>. QED  BY <1>1, <2>1, <2>3, Zenon DEF Overrides
<1>11. ASSUME cpu.ext >= 1
       PROVE  Overrides(t, ExtBase + 1)
  <2>. DEFINE k == Len(p) + 2
  <2>1. 2 \in 1 .. Len(e) /\ k \in 1 .. Len(q) /\ k <= Len(all) /\ k <= 29 /\ k \in Nat
    <3>1. Len(e) >= 2
      <4>1. cpu.ext \in Int
        BY CpuFacts
      <4>. QED  BY <1>2, <1>11, <4>1
    <3>2. Len(p) \in 1 .. 27 /\ Len(q) = Len(p) + Len(e) /\ Len(all) = Len(q) + Len(o)
      BY <1>1, <1>5, <1>6
    <3>. DEFINE x == Len(p)
                y == Len(e)
                z == Len(o)
    <3>3. x \in 1 .. 27 /\ y \in Nat /\ z \in Nat /\ y >= 2
      BY <1>7, <3>1, <3>2
    <3>. HIDE DEF x, y, z
    <3>4. 2 \in 1 .. y /\ x + 2 \in 1 .. x + y /\ x + 2 <= (x + y) + z /\ x + 2 <= 29
          /\ x + 2 \in Nat
      BY <3>3
    <3>. QED  BY <3>2, <3>4 DEF x, y, z
  <2>2. q[k] = e[2]
    BY <1>5, <2>1, Zenon
  <2>. HIDE DEF k
  <2>3. k \in 1 .. m
    BY <1>8, <2>1
  <2>4. k \in DOMAIN t
    BY <1>9, <2>3
  <2>5. t[k] = e[2]
    BY <1>6, <1>9, <2>1, <2>2, <2>3, Zenon
  <2>. QED  BY <1>2, <1>11, <2>4, <2>5, Zenon DEF Overrides
<1>. QED  BY <1>9, <1>10, <1>11

\* The first match in the table says what the guest may see.
LEMMA AnswersAreSound ==
  ASSUME Boot!BootAssumption, cpu \in Machines, OverridesMade
  PROVE  Boot!GuestProcessor
<1>. SUFFICES ASSUME gCpuidOverrides # <<>>
              PROVE  Boot!GuestProcessor
  BY DEF Boot!GuestProcessor
<1>. DEFINE T == gCpuidOverrides
            Hits(l, s) == {i \in DOMAIN T : T[i].Leaf = l /\ T[i].Subleaf = s}
<1>1. T \in Seq(SoundOverrides) /\ DOMAIN T \in SUBSET Nat
  BY DEF OverridesMade
<1>2. ASSUME NEW l, NEW s, Hits(l, s) # {}
      PROVE  \E o \in SoundOverrides :
               o.Leaf = l /\ o.Subleaf = s /\ Boot!BemiHandleCpuid(l, s) = o.Answer
  <2>. DEFINE h == Hits(l, s)
              Earliest(i) == \A j \in h : i <= j
  <2>1. h \in SUBSET Nat /\ h # {}
    BY <1>1, <1>2
  <2>. HIDE DEF h
  <2>2. \E i \in h : Earliest(i)
    BY <2>1, Least
  <2>. HIDE DEF Earliest
  <2>3. PICK i \in h : i = CHOOSE j \in h : Earliest(j)
    BY <2>2
  <2>4. T[i] \in SoundOverrides /\ T[i].Leaf = l /\ T[i].Subleaf = s
    BY <1>1 DEF h
  <2>5. Boot!BemiHandleCpuid(l, s) = T[i].Answer
    BY <1>2, <2>3, Zenon DEF Boot!BemiHandleCpuid, Boot!CpuidSpoofHandler, h, Earliest
  <2>. QED  BY <2>4, <2>5
<1>3. ASSUME NEW l, NEW s, Hits(l, s) = {}
      PROVE  LET a == Boot!BemiHandleCpuid(l, s)
             IN  a.from = "processor" => a = Boot!Processor(l, s)
  <2>1. Boot!BemiHandleCpuid(l, s) = IF Boot!Blank(l) THEN Boot!Answer("zero", l, s, {})
                                    ELSE Boot!Processor(l, s)
    BY <1>3, Zenon DEF Boot!BemiHandleCpuid, Boot!CpuidSpoofHandler
  <2>2. Boot!Answer("zero", l, s, {}).from = "zero"
    BY DEF Boot!Answer
  <2>. QED  BY <2>1, <2>2
<1>. HIDE DEF T
<1>4. ASSUME NEW l, NEW s, s = 0, Overrides(T, l)
      PROVE  \E o \in SoundOverrides :
               o.Leaf = l /\ Boot!BemiHandleCpuid(l, s) = o.Answer
  <2>1. Hits(l, s) # {}
    BY <1>4 DEF Overrides
  <2>. HIDE DEF Hits
  <2>. QED  BY <1>2, <2>1
<1>. HIDE DEF Hits
<1>5. Boot!BemiHandleCpuid(1, 0).flags = {"VMX", "HV"}
  <2>1. Overrides(T, 1)
    BY DEF OverridesMade, T
  <2>2. PICK o \in SoundOverrides : o.Leaf = 1 /\ Boot!BemiHandleCpuid(1, 0) = o.Answer
    BY <1>4, <2>1
  <2>. QED  BY <2>2 DEF SoundOverrides
<1>6. ASSUME cpu.ext >= 1
      PROVE  Boot!BemiHandleCpuid(ExtBase + 1, 0).flags = {"SVM"}
  <2>1. Overrides(T, ExtBase + 1)
    BY <1>6 DEF OverridesMade, T
  <2>2. PICK o \in SoundOverrides :
          o.Leaf = ExtBase + 1 /\ Boot!BemiHandleCpuid(ExtBase + 1, 0) = o.Answer
    BY <1>4, <2>1
  <2>. QED  BY <2>2 DEF SoundOverrides
<1>7. ASSUME NEW l, l \notin {1, ExtBase + 1}, NEW s,
             Boot!BemiHandleCpuid(l, s).from = "processor",
             s = 0 => l \notin Boot!Indexed \ Boot!HandledApart
      PROVE  Boot!BemiHandleCpuid(l, s) = Boot!Processor(l, s)
  <2>1. CASE Hits(l, s) # {}
    <3>1. PICK o \in SoundOverrides :
            o.Leaf = l /\ o.Subleaf = s /\ Boot!BemiHandleCpuid(l, s) = o.Answer
      BY <1>2, <2>1
    <3>. QED  BY <1>7, <3>1 DEF SoundOverrides
  <2>2. CASE Hits(l, s) = {}
    BY <1>3, <1>7, <2>2
  <2>. QED  BY <2>1, <2>2
<1>. QED  BY <1>5, <1>6, <1>7, Zenon DEF Boot!GuestProcessor

-------------------------------------------------------------------------------
(* What is published                                                       *)

\* What is published: the overrides follow the processor, the tables the processors
\* counted.
TablesInv ==
  /\ cpu \in Machines /\ gCpuCount \in Nat
  /\ OverridesMade /\ TablesMade
  /\ pc = "topology" => madt = <<>> /\ smbios.types = {}

LEMMA TablesInvGives ==
  ASSUME Boot!BootAssumption, TablesInv
  PROVE  Boot!GuestProcessor /\ Boot!TablesAgree
BY AnswersAreSound, TablesAreTrue DEF TablesInv, Boot!TablesAgree

\* Only the processor matters to the overrides.
LEMMA OverridesStay ==
  ASSUME OverridesMade, UNCHANGED <<cpu, gCpuidOverrides>>
  PROVE  OverridesMade'
<1>1. SoundOverrides' = SoundOverrides
  BY DEF SoundOverrides, Boot!Processor, Boot!Indexed, Boot!HandledApart
<1>2. \A l : Overrides(gCpuidOverrides, l) => Overrides(gCpuidOverrides, l)'
  BY DEF Overrides
<1>. QED  BY <1>1, <1>2 DEF OverridesMade, Overrides

LEMMA InitTables ==
  ASSUME Boot!Init
  PROVE  TablesInv
<1>1. cpu \in Machines /\ gCpuCount = 0 /\ gCpuidOverrides = <<>>
      /\ madt = <<>> /\ smbios = [types |-> {}, cores |-> 0]
  BY DEF Boot!Init, Boot!PowerOn, Boot!TablesReset
<1>2. OverridesMade
  BY <1>1 DEF OverridesMade
<1>. QED  BY <1>1, <1>2 DEF TablesInv, TablesMade

\* The steps that make the tables, and a reset.
LEMMA TableSteps ==
  ASSUME Boot!BootAssumption, TablesInv,
         \/ Boot!Topology \/ Boot!SpoofCpuid \/ Boot!InstallAcpi \/ Boot!InstallSmbios
         \/ Boot!Reboot
  PROVE  TablesInv'
<1>. USE DEF TablesInv
<1>1. CASE Boot!Topology
  <2>1. /\ pc = "topology" /\ pc' = "mode" /\ gCpuCount' = Boot!DetectedCpus
        /\ UNCHANGED <<cpu, gCpuidOverrides, madt, smbios>>
    BY <1>1 DEF Boot!Topology, Boot!PostDetectTopology, Boot!tableVars
  <2>2. gCpuCount' \in Nat
    BY <2>1, Detected
  <2>3. OverridesMade'
    BY <2>1, OverridesStay
  <2>4. TablesMade'
    BY <2>1 DEF TablesMade
  <2>. QED  BY <2>1, <2>2, <2>3, <2>4
<1>2. CASE Boot!SpoofCpuid
  <2>1. /\ pc' = "acpi" /\ Boot!CpuidSpoofInit
        /\ UNCHANGED <<cpu, gCpuCount, madt, smbios>>
    BY <1>2 DEF Boot!SpoofCpuid, Boot!tableVars, Boot!coreVars
  <2>2. /\ gCpuidOverrides' \in Seq(SoundOverrides) /\ Overrides(gCpuidOverrides', 1)
        /\ cpu.ext >= 1 => Overrides(gCpuidOverrides', ExtBase + 1)
    BY <2>1, TableIsFilled DEF Boot!CpuidSpoofInit
  <2>3. SoundOverrides' = SoundOverrides
    BY <2>1 DEF SoundOverrides, Boot!Processor, Boot!Indexed, Boot!HandledApart
  <2>4. OverridesMade'
    BY <2>1, <2>2, <2>3 DEF OverridesMade, Overrides
  <2>5. TablesMade'
    BY <2>1 DEF TablesMade, Published, Boot!MadtBytes, Boot!ProcessorBytes, Boot!AcpiCalcChecksum
  <2>. QED  BY <2>1, <2>4, <2>5
<1>3. CASE Boot!InstallAcpi
  <2>1. /\ pc' = "smbios" /\ Boot!AcpiInitTables(gCpuCount)
        /\ UNCHANGED <<cpu, gCpuidOverrides, gCpuCount>>
    BY <1>3 DEF Boot!InstallAcpi, Boot!coreVars
  <2>2. madt' \in {madt, Published(gCpuCount)} /\ smbios' = smbios
    BY <2>1 DEF Boot!AcpiInitTables, Boot!tableVars, Published
  <2>3. OverridesMade'
    BY <2>1, OverridesStay
  <2>4. TablesMade'
    BY <2>1, <2>2 DEF TablesMade
  <2>. QED  BY <2>1, <2>3, <2>4
<1>4. CASE Boot!InstallSmbios
  <2>1. /\ pc' = "hypervisor" /\ Boot!SmbiosInitTables(gCpuCount)
        /\ UNCHANGED <<cpu, gCpuidOverrides, gCpuCount>>
    BY <1>4 DEF Boot!InstallSmbios, Boot!coreVars
  <2>2. madt' = madt /\ (4 \in smbios'.types => smbios'.cores = Boot!UINT8(gCpuCount))
    BY <2>1 DEF Boot!SmbiosInitTables
  <2>3. OverridesMade'
    BY <2>1, OverridesStay
  <2>4. TablesMade'
    BY <2>1, <2>2 DEF TablesMade
  <2>. QED  BY <2>1, <2>3, <2>4
<1>5. CASE Boot!Reboot
  <2>1. /\ cpu' = cpu /\ gCpuCount' = 0 /\ gCpuidOverrides' = <<>>
        /\ madt' = <<>> /\ smbios' = [types |-> {}, cores |-> 0]
    BY <1>5 DEF Boot!Reboot
  <2>2. OverridesMade'
    BY <2>1 DEF OverridesMade
  <2>. QED  BY <2>1, <2>2 DEF TablesMade
<1>. QED  BY <1>1, <1>2, <1>3, <1>4, <1>5

\* Everything else leaves the tables alone.
LEMMA NextTables ==
  ASSUME Boot!BootAssumption, TablesInv, [Boot!Next]_Boot!vars
  PROVE  TablesInv'
<1>1. CASE /\ UNCHANGED <<cpu, gCpuidOverrides, gCpuCount, madt, smbios>>
           /\ pc' # "topology" \/ pc' = pc
  <2>1. OverridesMade'
    BY <1>1, OverridesStay DEF TablesInv
  <2>2. TablesMade'
    BY <1>1 DEF TablesInv, TablesMade
  <2>. QED  BY <1>1, <2>1, <2>2 DEF TablesInv
<1>2. CASE Boot!ReadBootMode \/ Boot!SkipHypervisor \/ Boot!StartHypervisor
           \/ Boot!HypervisorTraps \/ Boot!AllocateTestPages \/ Boot!InstallProtocol
  <2>1. /\ UNCHANGED <<cpu, gCpuidOverrides, gCpuCount, madt, smbios>>
        /\ pc' # "topology"
    BY <1>2 DEF Boot!ReadBootMode, Boot!SkipHypervisor, Boot!StartHypervisor,
                Boot!HypervisorTraps, Boot!AllocateTestPages, Boot!InstallProtocol,
                Boot!tableVars, Boot!coreVars
  <2>. QED  BY <1>1, <2>1
<1>3. CASE Boot!CreateTestVcpu \/ Boot!RunTestVcpu \/ Boot!TestGuestExits
  <2>1. /\ UNCHANGED <<cpu, gCpuidOverrides, gCpuCount, madt, smbios>>
        /\ pc' # "topology"
    BY <1>3 DEF Boot!CreateTestVcpu, Boot!CreateFailed, Boot!RunTestVcpu,
                Boot!TestGuestExits, Boot!tableVars, Boot!coreVars
  <2>. QED  BY <1>1, <2>1
<1>4. ASSUME NEW m \in Boot!Byte, Boot!BemiSetBootMode(m)
      PROVE  TablesInv'
  <2>1. UNCHANGED <<pc, cpu, gCpuidOverrides, gCpuCount, madt, smbios>>
    BY <1>4 DEF Boot!BemiSetBootMode, Boot!tableVars
  <2>. QED  BY <1>1, <2>1
<1>5. ASSUME NEW n \in 0 .. 1, Boot!InitHypervisorAgain(n)
      PROVE  TablesInv'
  <2>1. /\ UNCHANGED <<cpu, gCpuidOverrides, gCpuCount, madt, smbios>>
        /\ pc' = pc \/ pc' = "trapped"
    BY <1>5 DEF Boot!InitHypervisorAgain, Boot!tableVars
  <2>. QED  BY <1>1, <2>1
<1>6. ASSUME NEW v \in Boot!Byte \cup {WIDE, NULL}, Boot!SystemWritesVariable(v)
      PROVE  TablesInv'
  <2>1. UNCHANGED <<pc, cpu, gCpuidOverrides, gCpuCount, madt, smbios>>
    BY <1>6 DEF Boot!SystemWritesVariable, Boot!tableVars
  <2>. QED  BY <1>1, <2>1
<1>7. CASE UNCHANGED Boot!vars
  <2>1. UNCHANGED <<pc, cpu, gCpuidOverrides, gCpuCount, madt, smbios>>
    BY <1>7 DEF Boot!vars, Boot!tableVars, Boot!coreVars
  <2>. QED  BY <1>1, <2>1
<1>. QED
  BY <1>2, <1>3, <1>4, <1>5, <1>6, <1>7, TableSteps DEF Boot!Next, Boot!BootStep

LEMMA TablesInvAlways == Spec => []TablesInv
<1>1. Boot!BootAssumption
  BY PartsAssumption DEF PartsAssumption
<1>2. Init => TablesInv
  BY InitTables DEF Init
<1>3. TablesInv /\ [Next]_vars => TablesInv'
  BY <1>1, StepOfBoot, NextTables
<1>. QED  BY <1>2, <1>3, PTL DEF Spec

\* However short the table of overrides is cut, CPUID shows a caller that asks for
\* subleaf 0 the virtualisation features of both vendors and a hypervisor; and
\* whatever else it answers from the processor is the processor's answer for that
\* leaf and subleaf, but for subleaf 0 of the leaves with subleaves that the fill
\* reads without naming one (cpuidspoof.c).
THEOREM AnswersAlways == Spec => []GuestProcessor
<1>1. TablesInv => GuestProcessor
  BY PartsAssumption, TablesInvGives DEF PartsAssumption, GuestProcessor
<1>. QED  BY <1>1, TablesInvAlways, PTL

\* The MADT and the SMBIOS structure, where they are published, agree with each
\* other on the processors POST counted, the MADT with distinct ids and a right
\* checksum, for every number that fits a byte (AcpiTables.c, SmbiosTables.c).
THEOREM TablesAlways == Spec => []TablesAgree
<1>1. TablesInv => TablesAgree
  BY PartsAssumption, TablesInvGives DEF PartsAssumption, TablesAgree
<1>. QED  BY <1>1, TablesInvAlways, PTL

===============================================================================
