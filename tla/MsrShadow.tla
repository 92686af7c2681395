------------------------------- MODULE MsrShadow -------------------------------
(***************************************************************************)
(* The table of shadowed model specific registers,                         *)
(* hwcompat/msr/msrshadow.c.  A guest reads a shadowed register from the    *)
(* table; its writes go to the table and, where the row says so, on to the *)
(* processor.  Registers that are not in the table are the processor's.     *)
(*                                                                         *)
(* The processor changes registers on its own as well (the time stamp      *)
(* counter counts, machine checks are logged, firmware writes).            *)
(***************************************************************************)
EXTENDS Integers, Sequences

CONSTANTS
  Rows,           \* the rows MsrShadowInit adds before the memory ranges, in order
  Ranges,         \* sequence of the variable-range MTRRs, two registers each
  Others,         \* registers that are never shadowed
  Values,
  MaxShadowMsrs,  \* MAX_SHADOW_MSRS
  NONE

Row == [index : STRING, reads : BOOLEAN, readOnly : BOOLEAN, passthrough : BOOLEAN]

\* The pair of rows of one memory range.
RangeRows(i) ==
  [k \in 1 .. 2 |-> [index |-> Ranges[i][k], reads |-> TRUE, readOnly |-> FALSE,
                     passthrough |-> TRUE]]

Msrs == {Rows[i].index : i \in DOMAIN Rows} \cup Others
          \cup UNION {{Ranges[i][1], Ranges[i][2]} : i \in DOMAIN Ranges}

MsrAssumption ==
  /\ Rows \in Seq(Row) /\ Ranges \in Seq(STRING \X STRING)
  /\ 0 \in Values /\ NONE \notin Values /\ MaxShadowMsrs \in Nat
  /\ \A i, j \in DOMAIN Rows : Rows[i].index = Rows[j].index => i = j
  /\ \A i \in DOMAIN Rows :
       /\ Rows[i].readOnly => Rows[i].reads
       /\ \A k \in DOMAIN Ranges : Rows[i].index \notin {Ranges[k][1], Ranges[k][2]}

VARIABLES
  gMsrShadowTable,  \* the first gMsrShadowCount entries
  msr,              \* the processor's registers
  guest,            \* what the guest last wrote and nothing has replaced, or NONE
  initial           \* the values of read-only registers the guest was first shown

vars == <<gMsrShadowTable, msr, guest, initial>>

-------------------------------------------------------------------------------

Init ==
  /\ gMsrShadowTable = <<>>
  /\ msr \in [Msrs -> {0}]
  /\ guest = [m \in Msrs |-> NONE] /\ initial = [m \in Msrs |-> NONE]

Entry(r) ==
  [Index |-> r.index, Value |-> IF r.reads THEN msr[r.index] ELSE 0,
   IsReadOnly |-> r.readOnly, PassthroughOnWrite |-> r.passthrough]

\* A full table drops the row without a word.
AddShadowMsr(table, r) ==
  IF Len(table) < MaxShadowMsrs THEN Append(table, Entry(r)) ELSE table

\* The table after the first n of the rows were added to it.
Added(rows) ==
  LET after[n \in 0 .. Len(rows)] ==
        IF n = 0 THEN <<>> ELSE AddShadowMsr(after[n - 1], rows[n])
  IN  after[Len(rows)]

\* The ranges the processor reports in MTRR_CAP, the first ten at most.
RowsFor(mtrrCount) ==
  LET taken[n \in 0 .. mtrrCount] == IF n = 0 THEN Rows ELSE taken[n - 1] \o RangeRows(n)
  IN  taken[mtrrCount]

Matching(table, m) == {i \in DOMAIN table : table[i].Index = m}

\* The first entry of the register; 0 when it is not shadowed.
FindShadowMsr(m) ==
  IF Matching(gMsrShadowTable, m) = {} THEN 0
  ELSE CHOOSE i \in Matching(gMsrShadowTable, m) :
         \A j \in Matching(gMsrShadowTable, m) : i <= j

MsrShadowRead(m) ==
  IF FindShadowMsr(m) = 0 THEN msr[m] ELSE gMsrShadowTable[FindShadowMsr(m)].Value

MsrIsPassThrough(m) == FindShadowMsr(m) = 0

\* A second call (a resume, or the protocol's caller) starts the table afresh:
\* what the guest wrote to a register the rows do not read back is gone.
MsrShadowInit(mtrrCount) ==
  LET table == Added(RowsFor(mtrrCount))
      kept  == {m \in Msrs : /\ msr[m] = guest[m]
                            /\ \A i \in DOMAIN Rows : Rows[i].index = m => Rows[i].reads}
  IN  /\ gMsrShadowTable' = table
      /\ guest' = [m \in Msrs |-> IF m \in kept THEN guest[m] ELSE NONE]
      /\ initial' = [m \in Msrs |->
           IF \E i \in DOMAIN table : table[i].Index = m /\ table[i].IsReadOnly
           THEN msr[m] ELSE NONE]
      /\ UNCHANGED msr

\* Mutant of StoresFor: a register that is passed through is not kept.
StoresForNot(i) == ~gMsrShadowTable[i].PassthroughOnWrite

\* A write that is not refused is kept in the table.
StoresFor(i) == ~gMsrShadowTable[i].IsReadOnly

MsrShadowWrite(m, v) ==
  LET i == FindShadowMsr(m)
  IN  /\ IF i = 0
         THEN msr' = [msr EXCEPT ![m] = v] /\ UNCHANGED gMsrShadowTable
         ELSE IF gMsrShadowTable[i].IsReadOnly
              THEN UNCHANGED <<gMsrShadowTable, msr>>    \* EFI_ACCESS_DENIED
              ELSE /\ gMsrShadowTable' = IF StoresFor(i)
                        THEN [gMsrShadowTable EXCEPT ![i].Value = v]
                        ELSE gMsrShadowTable
                   /\ msr' = IF gMsrShadowTable[i].PassthroughOnWrite
                             THEN [msr EXCEPT ![m] = v] ELSE msr
      /\ guest' = IF i # 0 /\ gMsrShadowTable[i].IsReadOnly
                  THEN guest ELSE [guest EXCEPT ![m] = v]
      /\ UNCHANGED initial

\* The processor, or firmware beside the guest, changes a register.  What the
\* guest wrote to a register of its own is then no longer there.
HardwareChanges(m, v) ==
  /\ msr' = [msr EXCEPT ![m] = v]
  /\ guest' = IF MsrIsPassThrough(m) THEN [guest EXCEPT ![m] = NONE] ELSE guest
  /\ UNCHANGED <<gMsrShadowTable, initial>>

Next ==
  \/ \E n \in 0 .. Len(Ranges) : MsrShadowInit(n)
  \/ \E m \in Msrs, v \in Values : MsrShadowWrite(m, v)
  \/ \E m \in Msrs, v \in Values : HardwareChanges(m, v)

Spec == Init /\ [][Next]_vars

-------------------------------------------------------------------------------

\* The table is no longer than its array and holds rows of the firmware's list.
TypeOK ==
  /\ Len(gMsrShadowTable) <= MaxShadowMsrs
  /\ \A i \in DOMAIN gMsrShadowTable :
       gMsrShadowTable[i].Index \in Msrs /\ gMsrShadowTable[i].Value \in Values
  /\ msr \in [Msrs -> Values]

\* A guest reads back what it wrote last, whether the register is shadowed, is
\* the processor's or was dropped from a full table, and whatever the processor
\* did to a shadowed one meanwhile; a second MsrShadowInit does not lose it
\* where it had been passed through and the processor still has it.
GuestReadsItsWrites ==
  \A m \in Msrs : guest[m] # NONE => MsrShadowRead(m) = guest[m]

\* A read-only register shows the guest one value until the next MsrShadowInit,
\* although the guest writes it and the processor changes it.
ReadOnlyFixed ==
  \A i \in DOMAIN gMsrShadowTable :
    gMsrShadowTable[i].IsReadOnly =>
      MsrShadowRead(gMsrShadowTable[i].Index) = initial[gMsrShadowTable[i].Index]

\* Both halves of what the shadow promises a guest: its own values, and fixed
\* read-only ones.
ShadowRegisters == GuestReadsItsWrites /\ ReadOnlyFixed

===============================================================================
