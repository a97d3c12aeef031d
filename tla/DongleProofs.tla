---------------------------- MODULE DongleProofs ----------------------------
(***************************************************************************)
(* Proofs about Dongle, for every number of threads, flash, image and      *)
(* block size.                                                             *)
(***************************************************************************)
EXTENDS Dongle, TLAPS

(* TypeOK by parts: the dongle, the open device, the calls, the cache. *)
DeviceType ==
  /\ version \in DOMAIN BlockSize /\ plugged \in BOOLEAN /\ mode \in Modes
  /\ tuned \in Frequencies \cup {0} /\ bias \in {0, 1}
FlashType == flash \in [Flash -> Cell] /\ cursor \in Nat
LinkType == holder \in Caller \cup {NoCaller} /\ lost \in BOOLEAN
CallType ==
  /\ menu \in Menus /\ pc \in [Caller -> Steps]
  /\ op \in [Caller -> AllCalls \cup {"none"}]
  /\ image \in [Caller -> Images \cup {NoImage}]
  /\ value \in [Caller -> Frequencies \cup {0, 1}]
  /\ result \in [Caller -> Modes \cup {"none", "cached"}]
  /\ at \in [Caller -> Nat]
FileType == file \in [Caller -> Seq(Cell)]
CacheType ==
  /\ sFrequency \in Frequencies \cup {0} /\ expiry \in Nat /\ now \in Nat
  /\ doubt \in BOOLEAN /\ disturbed \in BOOLEAN

(* What a call carries fits the call, and its step too. *)
CallFits ==
  \A c \in Caller :
    /\ pc[c] = "idle" => value[c] = 0 /\ op[c] = "none"
    /\ op[c] \in FrequencyCalls => value[c] \in Frequencies \cup {0}
    /\ op[c] = "BiasTEnable" => value[c] \in {0, 1}
    /\ op[c] \in {"Write", "Verify"} => image[c] \in Images
    /\ pc[c] \in {"open", "query"} => op[c] \in Tuning \cup FlashCalls \cup Queries
    /\ pc[c] \in {"range", "address", "block"} => op[c] \in FlashCalls
    /\ pc[c] = "reopen" => op[c] \in Tuning \cup FlashCalls \cup Resets \cup {"Erase"}

Inv1 == /\ DeviceType /\ FlashType /\ LinkType /\ CallType /\ FileType /\ CacheType
        /\ CallFits /\ HandleReleased

LEMMA Constants ==
  /\ NoCaller \notin Caller
  /\ \A m \in Menus : \A c \in Caller : m[c] \subseteq AllCalls
  /\ Frequencies \subseteq Nat /\ CachePeriod \in Nat /\ TickMod \in Nat \ {0}
BY DongleAssumption

LEMMA Sizes == ASSUME version \in DOMAIN BlockSize PROVE Size \in Nat /\ Size > 1
BY DongleAssumption DEF Size

LEMMA Addresses ==
  /\ First \in Nat /\ Last \in Nat
  /\ \A a \in Flash : a \in Nat /\ Offset(a) = Offset(First) + (a - First)
  /\ \A a \in Nat : Offset(a) \in Nat
<1>1. First \in Nat /\ Last \in Nat /\ Page \in Nat \ {0} BY DongleAssumption
<1>2. \A a \in Flash : a \in Nat BY <1>1 DEF Flash
<1>3. \A a \in Flash : Offset(a) = Offset(First) + (a - First)
  BY DongleAssumption DEF Flash, Offset
<1>4. \A a \in Nat : Offset(a) \in Nat BY <1>1 DEF Offset
<1> QED BY <1>1, <1>2, <1>3, <1>4

-----------------------------------------------------------------------------
(* Which call is open, and what the open device does. *)

USE DEF linkVars

(* A step that ends its session gives the dongle up; any other that leaves *)
(* the link alone stays in it.                                             *)
LEMMA Closing ==
  ASSUME Inv1, NEW c \in Caller, Close(c), pc' \in [Caller -> Steps],
         \A d \in Caller \ {c} : pc'[d] = pc[d]
  PROVE  LinkType' /\ HandleReleased'
<1>1. holder' \in {holder, NoCaller} /\ holder' # c /\ lost' \in BOOLEAN
  BY Constants DEF Inv1, Close, LinkType
<1> QED BY <1>1, Constants DEF Inv1, HandleReleased, LinkType

LEMMA Staying ==
  ASSUME Inv1, NEW c \in Caller, UNCHANGED linkVars,
         pc' \in [Caller -> Steps], pc[c] \in InSession => pc'[c] \in InSession,
         \A d \in Caller \ {c} : pc'[d] = pc[d]
  PROVE  LinkType' /\ HandleReleased'
BY DEF Inv1, HandleReleased, LinkType

LEMMA LinkNext ==
  ASSUME Inv1, [Next]_vars, CallType'
  PROVE  LinkType' /\ HandleReleased'
<1> USE DEF Goto, Answer, Finish
<1>0. pc \in [Caller -> Steps] /\ pc' \in [Caller -> Steps] BY DEF Inv1, CallType
<1>1. ASSUME NEW c \in Caller, Call(c) PROVE LinkType' /\ HandleReleased'
  <2>1. pc[c] = "idle" /\ UNCHANGED linkVars BY <1>1 DEF Call
  <2>2. \A d \in Caller \ {c} : pc'[d] = pc[d] BY <1>0, <1>1 DEF Call
  <2> QED BY <1>0, <2>1, <2>2, Staying DEF InSession
<1>2. ASSUME NEW c \in Caller, Open(c) PROVE LinkType' /\ HandleReleased'
  <2>0. \A d \in Caller \ {c} : pc'[d] = pc[d] BY <1>0, <1>2 DEF Open
  <2>1. CASE ~CanOpen
    <3>1. pc[c] \in {"open", "reopen"} /\ UNCHANGED linkVars
      BY <1>0, <1>2, <2>1 DEF Open
    <3> QED BY <1>0, <2>0, <3>1, Staying DEF InSession
  <2>2. CASE CanOpen
    <3>1. pc'[c] = (IF pc[c] = "open" THEN "query" ELSE OwnStep(c)) /\ OpenFor(c)
      BY <1>0, <1>2, <2>2 DEF Open
    <3>2. pc[c] = "reopen" => op[c] \in Tuning \cup FlashCalls \cup Resets \cup {"Erase"}
      BY DEF Inv1, CallFits
    <3>3. pc[c] = "reopen" => OwnStep(c) \in InSession
      BY <3>2 DEF OwnStep, InSession
    <3>4. pc'[c] \in InSession BY <1>2, <3>1, <3>3 DEF Open, InSession
    <3> QED BY <3>1, <3>4 DEF OpenFor, LinkType, HandleReleased
  <2> QED BY <2>1, <2>2
<1>3. ASSUME NEW c \in Caller, Query(c) \/ Command(c) \/ Reset(c) \/ LastBlock(c) \/ BlockRefused(c)
      PROVE LinkType' /\ HandleReleased'
  <2>1. Close(c)
    BY <1>3 DEF Query, Command, AppSetFreq, AppGetParam, AppSetParam, BlErase, Reset, LastBlock,
       BlockRefused
  <2>2. \A d \in Caller \ {c} : pc'[d] = pc[d]
    BY <1>0, <1>3 DEF Query, Command, AppSetFreq, AppGetParam, AppSetParam, BlErase, Reset, LastBlock,
       BlockRefused
  <2> QED BY <1>0, <2>1, <2>2, Closing
<1>5. ASSUME NEW c \in Caller, Range(c) \/ Address(c) \/ WriteStep(c) \/ ReadStep(c)
      PROVE LinkType' /\ HandleReleased'
  <2>1. \A d \in Caller \ {c} : pc'[d] = pc[d]
    BY <1>0, <1>5 DEF Range, Address, SavePadded, AddrStart, WriteStep, ReadStep, VerifyBlock,
       SaveBlock, InfoBlock, Advance
  <2>2. \/ UNCHANGED linkVars /\ pc'[c] \in {"address", "block"}
        \/ Close(c)
    BY <1>0, <1>5 DEF Range, Address, SavePadded, AddrStart, WriteStep, ReadStep, VerifyBlock,
       SaveBlock, InfoBlock, Advance
  <2>3. CASE UNCHANGED linkVars /\ pc'[c] \in {"address", "block"}
    BY <1>0, <2>1, <2>3, Staying DEF InSession
  <2>4. CASE Close(c) BY <1>0, <2>1, <2>4, Closing
  <2> QED BY <2>2, <2>3, <2>4
<1>6. ASSUME NEW c \in Caller, StoreFrequency(c) \/ Return(c) PROVE LinkType' /\ HandleReleased'
  <2>1. pc[c] \in {"return", "stamp"} /\ UNCHANGED linkVars
    BY <1>6 DEF StoreFrequency, Return
  <2>2. \A d \in Caller \ {c} : pc'[d] = pc[d] BY <1>0, <1>6 DEF StoreFrequency, Return
  <2> QED BY <1>0, <2>1, <2>2, Staying DEF InSession
<1>7. CASE Unplug \/ Plug \/ Lose \/ Tick
  <2>1. UNCHANGED pc /\ holder' \in {holder, NoCaller} /\ lost' \in BOOLEAN
    BY <1>7 DEF Unplug, Plug, Lose, Tick, callVars, Inv1, LinkType
  <2> QED BY <2>1, Constants DEF Inv1, LinkType, HandleReleased
<1>8. CASE UNCHANGED vars
  BY <1>8 DEF vars, callVars, Inv1, LinkType, HandleReleased
<1> QED BY <1>1, <1>2, <1>3, <1>5, <1>6, <1>7, <1>8 DEF Next, Step

-----------------------------------------------------------------------------
(* The calls. *)

LEMMA CallNext ==
  ASSUME Inv1, [Next]_vars
  PROVE  CallType' /\ CallFits'
<1> USE Constants
    DEF Inv1, CallType, CallFits, Goto, Answer, Finish, Modes, Steps, InSession
<1> DEFINE P == CallType' /\ CallFits'
<1>1. ASSUME NEW c \in Caller, Call(c) PROVE P
  <2>1. PICK o \in menu[c] :
          /\ op' = [op EXCEPT ![c] = o]
          /\ \/ o \in {"Write", "Verify"} /\ \E i \in Images : image' = [image EXCEPT ![c] = i]
             \/ o \notin {"Write", "Verify"} /\ UNCHANGED image
          /\ \/ o = "SetFrequency" /\ \E f \in Frequencies : value' = [value EXCEPT ![c] = f]
             \/ o = "BiasTEnable" /\ \E b \in {0, 1} : value' = [value EXCEPT ![c] = b]
             \/ o \notin {"SetFrequency", "BiasTEnable"} /\ UNCHANGED value
          /\ IF o = "GetFrequency" /\ GetFrequencyCached THEN Answer(c, "cached")
             ELSE Goto(c, IF o \in Resets \cup {"Erase"} THEN "reopen" ELSE "open")
    BY <1>1 DEF Call
  <2>2. o \in AllCalls BY <2>1
  <2>3. UNCHANGED <<menu, at>> /\ pc[c] = "idle" /\ value[c] = 0 BY <1>1 DEF Call
  <2>4. pc' \in [Caller -> Steps] /\ result' \in [Caller -> Modes \cup {"none", "cached"}] BY <2>1
  <2>5. image' \in [Caller -> Images \cup {NoImage}] BY <2>1
  <2>6. value' \in [Caller -> Frequencies \cup {0, 1}] BY <2>1
  <2>7. CallType' BY <2>1, <2>2, <2>3, <2>4, <2>5, <2>6
  <2>8. \A d \in Caller \ {c} : /\ pc'[d] = pc[d] /\ op'[d] = op[d]
                                /\ value'[d] = value[d] /\ image'[d] = image[d]
    BY <2>1
  <2>9. op'[c] = o /\ pc'[c] \in {"return", "open", "reopen"} BY <2>1
  <2>10. pc'[c] = "open" => o \in Tuning \cup FlashCalls \cup Queries
    BY <2>1, <2>2 DEF AllCalls
  <2>11. pc'[c] = "reopen" => o \in Resets \cup {"Erase"} BY <2>1
  <2>12. o \in FrequencyCalls => value'[c] \in Frequencies \cup {0}
    BY <2>1, <2>3 DEF FrequencyCalls
  <2>13. o = "BiasTEnable" => value'[c] \in {0, 1} BY <2>1
  <2>14. o \in {"Write", "Verify"} => image'[c] \in Images BY <2>1
  <2>15. CallFits' BY <2>8, <2>9, <2>10, <2>11, <2>12, <2>13, <2>14
  <2> QED BY <2>7, <2>15
<1>2. ASSUME NEW c \in Caller, Open(c) PROVE P
  <2>1. UNCHANGED <<menu, op, image, value, at>> BY <1>2 DEF Open
  <2>2. \/ pc' = [pc EXCEPT ![c] = IF pc[c] = "open" THEN "query" ELSE OwnStep(c)] /\ UNCHANGED result
        \/ pc' = [pc EXCEPT ![c] = "return"] /\ result' = [result EXCEPT ![c] = "none"]
    BY <1>2 DEF Open
  <2>3. pc[c] = "reopen" => OwnStep(c) \in {"range", "reset", "command"}
    BY DEF OwnStep
  <2>4. pc[c] \in {"open", "reopen"} BY <1>2 DEF Open
  <2>5. CallType' BY <2>1, <2>2, <2>3, <2>4
  <2>6. \A d \in Caller \ {c} : pc'[d] = pc[d] BY <2>2
  <2>7. pc'[c] \in {"query", "range", "reset", "command", "return"} BY <2>2, <2>3, <2>4
  <2>8. pc'[c] = "query" => pc[c] = "open" BY <2>2, <2>3, <2>4
  <2>9. pc'[c] = "range" => op[c] \in FlashCalls BY <2>2, <2>4 DEF OwnStep
  <2>10. CallFits' BY <2>1, <2>6, <2>7, <2>8, <2>9
  <2> QED BY <2>5, <2>10
<1>3. ASSUME NEW c \in Caller, Query(c) PROVE P
  <2>1. UNCHANGED <<menu, op, image, value, at>> /\ pc[c] = "query" BY <1>3 DEF Query
  <2>2. \/ pc' = [pc EXCEPT ![c] = "reopen"] /\ UNCHANGED result /\ op[c] \notin Queries
        \/ pc' = [pc EXCEPT ![c] = "return"] /\ \E r \in Modes \cup {"none"} : result' = [result EXCEPT ![c] = r]
    BY <1>3 DEF Query, DeviceType
  <2> QED BY <2>1, <2>2
<1>4. ASSUME NEW c \in Caller, Command(c) PROVE P
  <2>1. UNCHANGED <<menu, op, image, at>> /\ pc' = [pc EXCEPT ![c] = "return"]
    BY <1>4 DEF Command, AppSetFreq, AppGetParam, AppSetParam, BlErase
  <2>2. \E r \in Modes \cup {"none"} : result' = [result EXCEPT ![c] = r] BY <1>4 DEF Command,
                                        AppSetFreq, AppGetParam, AppSetParam, BlErase, Refusal
  <2>3. \/ op[c] = "GetFrequency" /\ value' = [value EXCEPT ![c] = tuned]
        \/ UNCHANGED value
    BY <1>4 DEF Command, AppSetFreq, AppGetParam, AppSetParam, BlErase
  <2>4. tuned \in Frequencies \cup {0} BY DEF DeviceType
  <2> QED BY <2>1, <2>2, <2>3, <2>4
<1>5. ASSUME NEW c \in Caller, Reset(c) \/ LastBlock(c) \/ BlockRefused(c) \/ Range(c) PROVE P
  <2>1. UNCHANGED <<menu, op, image, value, at>>
    BY <1>5 DEF Reset, LastBlock, BlockRefused, Range
  <2>2. \/ pc' = [pc EXCEPT ![c] = "address"] /\ UNCHANGED result
        \/ pc' = [pc EXCEPT ![c] = "return"] /\ \E r \in Modes \cup {"none"} : result' = [result EXCEPT ![c] = r]
    BY <1>5 DEF Reset, LastBlock, BlockRefused, Range, Refusal
  <2>3. CallType' BY <2>1, <2>2
  <2>4. pc'[c] = "address" => pc[c] = "range"
    BY <1>5 DEF Reset, LastBlock, BlockRefused, Range
  <2>5. \A d \in Caller \ {c} : pc'[d] = pc[d] BY <2>2
  <2>6. pc'[c] \in {"address", "return"} BY <2>2
  <2>7. CallFits' BY <2>1, <2>4, <2>5, <2>6
  <2> QED BY <2>3, <2>7
<1>6. ASSUME NEW c \in Caller, Address(c) \/ WriteStep(c) \/ ReadStep(c) PROVE P
  <2>1. UNCHANGED <<menu, op, image, value>> BY <1>6 DEF Address, SavePadded, AddrStart,
            WriteStep, ReadStep, VerifyBlock, SaveBlock, InfoBlock
  <2>2. \/ pc' = [pc EXCEPT ![c] = "block"] /\ UNCHANGED result
        \/ pc' = [pc EXCEPT ![c] = "return"] /\ \E r \in Modes \cup {"none"} : result' = [result EXCEPT ![c] = r]
    BY <1>6 DEF Address, SavePadded, AddrStart, WriteStep, ReadStep, VerifyBlock, SaveBlock,
       InfoBlock, Advance, Refusal
  <2>3. version \in DOMAIN BlockSize BY DEF DeviceType
  <2>4. First \in Nat /\ Size \in Nat BY <2>3, Sizes, Addresses
  <2>5. UNCHANGED at \/ \E n \in Nat : at' = [at EXCEPT ![c] = n]
    BY <1>6, <2>4 DEF Address, SavePadded, AddrStart, WriteStep, ReadStep, VerifyBlock,
       SaveBlock, InfoBlock, Advance
  <2>6. CallType' BY <2>1, <2>2, <2>5
  <2>7. pc[c] \in {"address", "block"} BY <1>6 DEF Address, SavePadded, AddrStart, WriteStep,
                                        ReadStep, VerifyBlock, SaveBlock, InfoBlock
  <2>8. \A d \in Caller \ {c} : pc'[d] = pc[d] BY <2>2
  <2>9. pc'[c] \in {"block", "return"} BY <2>2
  <2>10. CallFits' BY <2>1, <2>7, <2>8, <2>9
  <2> QED BY <2>6, <2>10
<1>7. ASSUME NEW c \in Caller, StoreFrequency(c) \/ Return(c) PROVE P
  <2>1. First \in Nat BY Addresses
  <2>2. CASE StoreFrequency(c) BY <2>2 DEF StoreFrequency
  <2>3. CASE Return(c) BY <2>1, <2>3 DEF Return
  <2> QED BY <1>7, <2>2, <2>3
<1>8. CASE Unplug \/ Plug \/ Lose \/ Tick
  BY <1>8 DEF Unplug, Plug, Lose, Tick, callVars
<1>9. CASE UNCHANGED vars BY <1>9 DEF vars, callVars
<1> QED BY <1>1, <1>2, <1>3, <1>4, <1>5, <1>6, <1>7, <1>8, <1>9 DEF Next, Step

-----------------------------------------------------------------------------
(* The dongle and its flash. *)

LEMMA DeviceNext ==
  ASSUME Inv1, [Next]_vars
  PROVE  DeviceType'
<1> USE DEF Inv1, DeviceType, deviceVars, Modes
<1>1. ASSUME NEW c \in Caller, Command(c) PROVE DeviceType'
  <2>1. UNCHANGED <<version, plugged, mode>> BY <1>1 DEF Command, AppSetFreq, AppGetParam,
            AppSetParam, BlErase
  <2>2. \/ UNCHANGED <<tuned, bias>>
        \/ op[c] = "SetFrequency" /\ tuned' = value[c] /\ UNCHANGED bias
        \/ op[c] = "BiasTEnable" /\ bias' = value[c] /\ UNCHANGED tuned
    BY <1>1 DEF Command, AppSetFreq, AppGetParam, AppSetParam, BlErase
  <2> QED BY <2>1, <2>2 DEF CallFits, FrequencyCalls
<1>2. ASSUME NEW c \in Caller, Reset(c) PROVE DeviceType' BY <1>2 DEF Reset
<1>3. ASSUME NEW c \in Caller,
             Call(c) \/ Open(c) \/ Query(c) \/ Range(c) \/ LastBlock(c) \/ BlockRefused(c)
               \/ StoreFrequency(c) \/ Return(c)
      PROVE DeviceType'
  BY <1>3 DEF Call, Open, Query, Range, LastBlock, BlockRefused, StoreFrequency, Return
<1>4. ASSUME NEW c \in Caller, Address(c) \/ WriteStep(c) \/ ReadStep(c) PROVE DeviceType'
  BY <1>4 DEF Address, SavePadded, AddrStart, WriteStep, ReadStep, VerifyBlock, SaveBlock, InfoBlock
<1>5. CASE Unplug \/ Plug \/ Lose \/ Tick BY <1>5 DEF Unplug, Plug, Lose, Tick
<1>6. CASE UNCHANGED vars BY <1>6 DEF vars
<1> QED BY <1>1, <1>2, <1>3, <1>4, <1>5, <1>6 DEF Next, Step

LEMMA Bytes ==
  ASSUME Inv1, NEW c \in Caller, op[c] \in {"Write", "Verify"}, MoreBlocks(c)
  PROVE  \A k \in 1 .. Size : /\ BlockOf(image[c], at[c])[k] = <<image[c].name, Offset(at[c]) + k - 1>>
                              /\ BlockOf(image[c], at[c])[k] \in Cell
<1>1. image[c] \in Images /\ at[c] \in Nat BY DEF Inv1, CallFits, CallType
<1>2. image[c].size \in Nat BY <1>1, DongleAssumption
<1>3. Size \in Nat BY Sizes DEF Inv1, DeviceType
<1>4. Offset(at[c]) \in Nat BY <1>1, Addresses
<1>5. Offset(at[c]) + Size - 1 < image[c].size BY DEF MoreBlocks
<1> SUFFICES ASSUME NEW k \in 1 .. Size
             PROVE  <<image[c].name, Offset(at[c]) + k - 1>> \in Cell
  BY DEF BlockOf
<1>6. Offset(at[c]) + k - 1 \in 0 .. image[c].size - 1
  BY ONLY <1>2, <1>3, <1>4, <1>5, k \in 1 .. Size
<1>7. <<image[c].name, Offset(at[c]) + k - 1>> \in Byte(image[c]) BY <1>6 DEF Byte
<1> QED BY <1>1, <1>7 DEF Cell

LEMMA BlockReadCells == ASSUME Inv1 PROVE BlockRead \in Seq(Cell) /\ Len(BlockRead) = Size
<1>1. Size \in Nat BY Sizes DEF Inv1, DeviceType
<1>2. \A a : FlashAt(a) \in Cell BY DEF FlashAt, Inv1, FlashType, Cell
<1>3. BlockRead \in [1 .. Size -> Cell] BY <1>2 DEF BlockRead
<1> QED BY <1>1, <1>3

LEMMA FlashNext ==
  ASSUME Inv1, [Next]_vars
  PROVE  FlashType'
<1> USE DEF Inv1, FlashType, deviceVars
<1>0. Size \in Nat BY Sizes DEF DeviceType
<1>1. ASSUME NEW c \in Caller, Command(c) PROVE FlashType'
  <2>1. UNCHANGED cursor BY <1>1 DEF Command, AppSetFreq, AppGetParam, AppSetParam, BlErase
  <2>2. UNCHANGED flash \/ flash' = [a \in Flash |-> Blank] BY <1>1 DEF Command, AppSetFreq,
                                        AppGetParam, AppSetParam, BlErase
  <2>3. Blank \in Cell BY DEF Cell
  <2> QED BY <2>1, <2>2, <2>3
<1>2. ASSUME NEW c \in Caller,
             Call(c) \/ Open(c) \/ Query(c) \/ Reset(c) \/ Range(c) \/ LastBlock(c) \/ BlockRefused(c)
               \/ StoreFrequency(c) \/ Return(c)
      PROVE FlashType'
  BY <1>2 DEF Call, Open, Query, Reset, Range, LastBlock, BlockRefused, StoreFrequency, Return
<1>3. ASSUME NEW c \in Caller, Address(c) PROVE FlashType'
  BY <1>3, Addresses DEF Address, SavePadded, AddrStart
<1>4. ASSUME NEW c \in Caller, ReadStep(c) PROVE FlashType'
  BY <1>4, <1>0 DEF ReadStep, VerifyBlock, SaveBlock, InfoBlock
<1>5. ASSUME NEW c \in Caller, WriteStep(c) PROVE FlashType'
  <2>1. WriteBlock(BlockOf(image[c],
  at[c])) /\ op[c] = "Write" /\ MoreBlocks(c) BY <1>5 DEF WriteStep
  <2>2. cursor' \in Nat BY <1>0, <2>1 DEF WriteBlock
  <2>3. Spoilt \in Cell BY DEF Cell
  <2>4. \A a \in Flash : a \in cursor .. cursor + Size - 1 => a - cursor + 1 \in 1 .. Size
    BY <1>0, Addresses
  <2>5. \A k \in 1 .. Size : BlockOf(image[c], at[c])[k] \in Cell BY <2>1, Bytes
  <2>6. flash' \in [Flash -> Cell] BY <2>1, <2>3, <2>4, <2>5 DEF WriteBlock
  <2> QED BY <2>2, <2>6
<1>6. CASE Unplug \/ Plug \/ Lose \/ Tick BY <1>6 DEF Unplug, Plug, Lose, Tick
<1>7. CASE UNCHANGED vars BY <1>7 DEF vars
<1> QED BY <1>1, <1>2, <1>3, <1>4, <1>5, <1>6, <1>7 DEF Next, Step

LEMMA PaddingCells == Padding \in Seq(Cell) /\ Len(Padding) = Offset(First)
<1>1. Offset(First) \in Nat BY Addresses
<1>2. Padding \in [1 .. Offset(First) -> Cell] BY DEF Padding, Cell
<1> QED BY <1>1, <1>2

LEMMA FileNext ==
  ASSUME Inv1, [Next]_vars
  PROVE  FileType'
<1> USE DEF Inv1, FileType, callVars
<1>1. ASSUME NEW c \in Caller, Address(c) PROVE FileType'
  <2>1. UNCHANGED file \/ file' = [file EXCEPT ![c] = IF op[c] = "Save" THEN Padding ELSE @]
    BY <1>1 DEF Address, SavePadded, AddrStart
  <2> QED BY <2>1, PaddingCells
<1>2. ASSUME NEW c \in Caller, ReadStep(c) PROVE FileType'
  <2>1. UNCHANGED file \/ file' = [file EXCEPT ![c] = @ \o BlockRead] BY <1>2 DEF ReadStep,
                                        VerifyBlock, SaveBlock, InfoBlock
  <2>2. \A f \in Seq(Cell) : f \o BlockRead \in Seq(Cell) BY BlockReadCells
  <2> QED BY <2>1, <2>2
<1>3. ASSUME NEW c \in Caller, Return(c) PROVE FileType'
  <2>1. file' = [file EXCEPT ![c] = <<>>] BY <1>3 DEF Return
  <2> QED BY <2>1
<1>4. ASSUME NEW c \in Caller,
             Call(c) \/ Open(c) \/ Query(c) \/ Command(c) \/ Reset(c) \/ Range(c) \/ LastBlock(c)
               \/ BlockRefused(c) \/ WriteStep(c) \/ StoreFrequency(c)
      PROVE FileType'
  <2>1. UNCHANGED file
    BY <1>4 DEF Call, Open, Query, Command, AppSetFreq, AppGetParam, AppSetParam, BlErase, Reset,
       Range, LastBlock, BlockRefused, WriteStep, StoreFrequency
  <2> QED BY <2>1
<1>5. CASE Unplug \/ Plug \/ Lose \/ Tick BY <1>5 DEF Unplug, Plug, Lose, Tick
<1>6. CASE UNCHANGED vars BY <1>6 DEF vars
<1> QED BY <1>1, <1>2, <1>3, <1>4, <1>5, <1>6 DEF Next, Step

-----------------------------------------------------------------------------
(* The cache. *)

LEMMA CacheTypeNext ==
  ASSUME Inv1, [Next]_vars
  PROVE  CacheType'
<1> USE Constants DEF Inv1, CacheType, cacheVars
<1>1. ASSUME NEW c \in Caller, Call(c) PROVE CacheType'
  <2>1. UNCHANGED <<expiry, now>> /\ (UNCHANGED sFrequency \/ sFrequency' \in Frequencies)
    BY <1>1 DEF Call
  <2>2. doubt' \in BOOLEAN
    <3>1. UNCHANGED doubt \/ doubt' = TRUE BY <1>1 DEF Call
    <3> QED BY <3>1
  <2>3. disturbed' \in BOOLEAN
    <3>1. UNCHANGED disturbed \/ disturbed' = (\E d \in Caller : op[d] \in FrequencyCalls)
      BY <1>1, Zenon DEF Call
    <3> QED BY <3>1
  <2> QED BY <2>1, <2>2, <2>3
<1>2. ASSUME NEW c \in Caller, Return(c) PROVE CacheType'
  <2>1. UNCHANGED <<sFrequency, now, disturbed>> BY <1>2 DEF Return
  <2>2. expiry' \in Nat
    <3>1. (now + CachePeriod) % TickMod \in Nat BY DEF CacheType
    <3> QED BY <1>2, <3>1 DEF Return
  <2>3. doubt' \in BOOLEAN
    <3>1. UNCHANGED doubt \/ doubt' = disturbed BY <1>2 DEF Return
    <3> QED BY <3>1
  <2> QED BY <2>1, <2>2, <2>3
<1>8. ASSUME NEW c \in Caller, StoreFrequency(c) PROVE CacheType'
  <2>1. UNCHANGED <<expiry, now, disturbed>> BY <1>8 DEF StoreFrequency
  <2>2. sFrequency' \in Frequencies \cup {0}
    BY <1>8 DEF StoreFrequency, CallFits, FrequencyCalls
  <2>3. doubt' \in BOOLEAN
    <3>1. doubt' = (result[c] # "app" \/ disturbed) BY <1>8 DEF StoreFrequency
    <3> QED BY <3>1, Zenon
  <2> QED BY <2>1, <2>2, <2>3
<1>3. ASSUME NEW c \in Caller,
             Open(c) \/ Query(c) \/ Command(c) \/ Range(c) \/ Address(c) \/ LastBlock(c)
               \/ WriteStep(c) \/ ReadStep(c) \/ BlockRefused(c)
      PROVE CacheType'
  BY <1>3 DEF Open, Query, Command, AppSetFreq, AppGetParam, AppSetParam, BlErase, Range,
     Address, SavePadded, AddrStart, LastBlock, WriteStep, ReadStep, VerifyBlock, SaveBlock,
     InfoBlock, BlockRefused
<1>4. ASSUME NEW c \in Caller, Reset(c) PROVE CacheType' BY <1>4 DEF Reset
<1>5. CASE Unplug \/ Plug \/ Lose BY <1>5 DEF Unplug, Plug, Lose
<1>6. CASE Tick
  <2>1. UNCHANGED <<sFrequency, expiry, doubt, disturbed>> BY <1>6 DEF Tick
  <2>2. (now + 1) % TickMod \in Nat BY DEF CacheType
  <2>3. now' \in Nat BY <1>6, <2>2 DEF Tick
  <2> QED BY <2>1, <2>3
<1>7. CASE UNCHANGED vars BY <1>7 DEF vars
<1> QED BY <1>1, <1>2, <1>3, <1>4, <1>5, <1>6, <1>7, <1>8 DEF Next, Step

LEMMA Inv1Init == Init => Inv1
<1> SUFFICES ASSUME Init PROVE Inv1 OBVIOUS
<1> USE Addresses, Constants DEF Init
<1>1. DeviceType BY DEF DeviceType, Modes
<1>2. FlashType BY DEF FlashType, Cell
<1>3. LinkType /\ HandleReleased BY DEF LinkType, HandleReleased, InSession
<1>4. CallType /\ CallFits
  BY DEF CallType, CallFits, Steps, Modes, FrequencyCalls
<1>5. FileType BY DEF FileType
<1>6. CacheType
  <2>1. sFrequency = 0 /\ expiry = 0 /\ now = 1 OBVIOUS
  <2>2. doubt = TRUE /\ disturbed = FALSE OBVIOUS
  <2>3. doubt \in BOOLEAN /\ disturbed \in BOOLEAN BY ONLY <2>2
  <2> QED BY <2>1, <2>3 DEF CacheType
<1> QED BY <1>1, <1>2, <1>3, <1>4, <1>5, <1>6 DEF Inv1

LEMMA Inv1Next == Inv1 /\ [Next]_vars => Inv1'
BY DeviceNext, FlashNext, CallNext, LinkNext, FileNext, CacheTypeNext DEF Inv1

LEMMA Inv1Holds == Spec => []Inv1
BY Inv1Init, Inv1Next, PTL DEF Spec

(* The types: the flash never holds a byte from past the end of an image,  *)
(* whatever its size, the flash's and the block's.                         *)
THEOREM TypeCorrect == Spec => []TypeOK
<1>1. Inv1 => TypeOK
  BY DEF Inv1, TypeOK, DeviceType, FlashType, LinkType, CallType, FileType, CacheType
<1> QED BY <1>1, Inv1Holds, PTL

(* No way out of a session leaves the dongle claimed. *)
THEOREM SessionsEnd == Spec => []HandleReleased
<1>1. Inv1 => HandleReleased BY DEF Inv1
<1> QED BY <1>1, Inv1Holds, PTL

-----------------------------------------------------------------------------
(* s_frequency.  While nothing disturbed the calls about the frequency     *)
(* there is at most one, and what it carries is what it will leave.        *)
Alone ==
  ~disturbed =>
    /\ \A c, d \in Caller : op[c] \in FrequencyCalls /\ op[d] \in FrequencyCalls => c = d
    /\ \A c \in Caller : op[c] = "SetFrequency" => sFrequency = value[c]
    /\ \A c \in Caller : op[c] \in FrequencyCalls /\ pc[c] = "return" /\ result[c] = "app"
                           => tuned = value[c]
SettingDoubted == \A c \in Caller : op[c] = "SetFrequency" => doubt

CacheInv == Inv1 /\ Alone /\ SettingDoubted /\ CacheHonest

LEMMA CacheQuiet ==
  ASSUME CacheInv, UNCHANGED <<op, value, tuned, sFrequency, doubt, disturbed>>,
         \A c \in Caller : op[c] \in FrequencyCalls /\ pc'[c] = "return" /\ result'[c] = "app"
                             => pc[c] = "return" /\ result[c] = "app"
  PROVE  Alone' /\ SettingDoubted' /\ CacheHonest'
BY DEF CacheInv, Alone, SettingDoubted, CacheHonest

LEMMA CacheNext ==
  ASSUME CacheInv, [Next]_vars
  PROVE  Alone' /\ SettingDoubted' /\ CacheHonest'
<1> DEFINE P == Alone' /\ SettingDoubted' /\ CacheHonest'
<1> USE DEF Goto, Answer, Finish, cacheVars, deviceVars
<1>0. /\ pc \in [Caller -> Steps] /\ op \in [Caller -> AllCalls \cup {"none"}]
      /\ result \in [Caller -> Modes \cup {"none", "cached"}]
      /\ value \in [Caller -> Frequencies \cup {0, 1}]
      /\ doubt \in BOOLEAN /\ disturbed \in BOOLEAN
  BY DEF CacheInv, Inv1, CallType, CacheType
<1>1. ASSUME NEW c \in Caller, Call(c) PROVE P
  <2>1. PICK o \in menu[c] :
          /\ op' = [op EXCEPT ![c] = o]
          /\ \/ /\ o = "SetFrequency" /\ doubt' = TRUE
                /\ \E f \in Frequencies : value' = [value EXCEPT ![c] = f] /\ sFrequency' = f
             \/ /\ o # "SetFrequency" /\ UNCHANGED <<sFrequency, doubt>>
                /\ \A d \in Caller \ {c} : value'[d] = value[d]
          /\ disturbed' = IF o \in FrequencyCalls THEN \E d \in Caller : op[d] \in FrequencyCalls ELSE disturbed
    BY <1>0, <1>1 DEF Call
  <2>2. UNCHANGED tuned /\ pc[c] = "idle" /\ op[c] = "none"
    BY <1>1 DEF Call, CacheInv, Inv1, CallFits
  <2>3. \A d \in Caller \ {c} : pc'[d] = pc[d] /\ result'[d] = result[d] /\ op'[d] = op[d]
    BY <1>0, <1>1, <2>1 DEF Call
  <2>4. ~(pc'[c] = "return" /\ result'[c] = "app") BY <1>0, <1>1 DEF Call
  <2>5. op'[c] = o BY <1>0, <2>1
  <2>6. CacheHonest'
    <3>1. CASE o = "SetFrequency" BY <2>1, <3>1 DEF CacheHonest
    <3>2. CASE o # "SetFrequency" BY <2>1, <2>2, <3>2 DEF CacheHonest, CacheInv
    <3> QED BY <3>1, <3>2
  <2>7. SettingDoubted'
    <3>1. CASE o = "SetFrequency" BY <2>1, <3>1 DEF SettingDoubted
    <3>2. CASE o # "SetFrequency"
      BY <2>1, <2>3, <2>5, <3>2 DEF SettingDoubted, CacheInv
    <3> QED BY <3>1, <3>2
  <2>8. Alone'
    <3> SUFFICES ASSUME ~disturbed'
                 PROVE /\ \A a, d \in Caller : op'[a] \in FrequencyCalls /\ op'[d] \in FrequencyCalls => a = d
                       /\ \A a \in Caller : op'[a] = "SetFrequency" => sFrequency' = value'[a]
                       /\ \A a \in Caller : op'[a] \in FrequencyCalls /\ pc'[a] = "return" /\ result'[a] = "app"
                            => tuned' = value'[a]
      BY DEF Alone
    <3>1. CASE o \in FrequencyCalls
      <4>1. \A d \in Caller : op[d] \notin FrequencyCalls BY <2>1, <3>1
      <4>2. \A d \in Caller \ {c} : op'[d] \notin FrequencyCalls BY <2>3, <4>1
      <4>3. o = "SetFrequency" => sFrequency' = value'[c] BY <1>0, <2>1
      <4> QED BY <2>4, <2>5, <4>2, <4>3 DEF FrequencyCalls
    <3>2. CASE o \notin FrequencyCalls
      <4>1. ~disturbed BY <2>1, <3>2
      <4>2. UNCHANGED sFrequency /\ \A d \in Caller \ {c} : value'[d] = value[d]
        BY <2>1, <3>2 DEF FrequencyCalls
      <4>3. op'[c] \notin FrequencyCalls BY <2>5, <3>2
      <4> QED BY <2>2, <2>3, <4>1, <4>2, <4>3 DEF Alone, CacheInv, FrequencyCalls
    <3> QED BY <3>1, <3>2
  <2> QED BY <2>6, <2>7, <2>8
<1>2. ASSUME NEW c \in Caller, Open(c) \/ Query(c) PROVE P
  <2>1. UNCHANGED <<op, value, tuned, sFrequency, doubt, disturbed>> BY <1>2 DEF Open, Query
  <2>2. \A d \in Caller \ {c} : pc'[d] = pc[d] /\ result'[d] = result[d]
    BY <1>0, <1>2 DEF Open, Query
  <2>3. op[c] \in FrequencyCalls => ~(pc'[c] = "return" /\ result'[c] = "app")
    <3>1. CASE Open(c) /\ op[c] \in FrequencyCalls
      <4>1. OwnStep(c) = "command"
        BY <3>1 DEF OwnStep, FrequencyCalls, FlashCalls, Resets, Tuning
      <4>2. pc'[c] \in {"query", "command"} \/ result'[c] = "none"
        BY <1>0, <3>1, <4>1 DEF Open
      <4> QED BY <4>2
    <3>2. CASE Query(c) /\ op[c] \in FrequencyCalls
      <4>1. op[c] \notin Queries BY <3>2 DEF FrequencyCalls, Queries
      <4>2. pc'[c] \in {"reopen", "query"} \/ result'[c] = "none"
        BY <1>0, <3>2, <4>1 DEF Query
      <4> QED BY <4>2
    <3> QED BY <1>2, <3>1, <3>2
  <2> QED BY <2>1, <2>2, <2>3, CacheQuiet
<1>3. ASSUME NEW c \in Caller,
             Range(c) \/ Address(c) \/ LastBlock(c) \/ WriteStep(c) \/ ReadStep(c) \/ BlockRefused(c)
      PROVE P
  <2>1. UNCHANGED <<op, value, tuned, sFrequency, doubt, disturbed>>
    BY <1>3 DEF Range, Address, SavePadded, AddrStart, LastBlock, WriteStep, ReadStep,
       VerifyBlock, SaveBlock, InfoBlock, BlockRefused
  <2>2. \A d \in Caller \ {c} : pc'[d] = pc[d] /\ result'[d] = result[d]
    BY <1>0, <1>3 DEF Range, Address, SavePadded, AddrStart, LastBlock, WriteStep, ReadStep,
       VerifyBlock, SaveBlock, InfoBlock, BlockRefused, Advance
  <2>3. pc[c] \in {"range", "address", "block"}
    BY <1>3 DEF Range, Address, SavePadded, AddrStart, LastBlock, WriteStep, ReadStep,
       VerifyBlock, SaveBlock, InfoBlock, BlockRefused
  <2>4. op[c] \in FlashCalls BY <2>3 DEF CacheInv, Inv1, CallFits
  <2>5. op[c] \notin FrequencyCalls BY <2>4 DEF FlashCalls, FrequencyCalls
  <2> QED BY <2>1, <2>2, <2>5, CacheQuiet
<1>4. ASSUME NEW c \in Caller, Command(c) PROVE P
  <2>1. /\ pc[c] = "command" /\ pc' = [pc EXCEPT ![c] = "return"]
        /\ UNCHANGED <<op, sFrequency, doubt, disturbed>>
    BY <1>4 DEF Command, AppSetFreq, AppGetParam, AppSetParam, BlErase
  <2>2. \A d \in Caller \ {c} : pc'[d] = pc[d] /\ result'[d] = result[d] /\ value'[d] = value[d]
    BY <1>0, <1>4 DEF Command, AppSetFreq, AppGetParam, AppSetParam, BlErase
  <2>3. CASE op[c] \in FrequencyCalls /\ result'[c] = "app"
    <3>1. tuned' = value'[c] /\ (op[c] = "SetFrequency" => value'[c] = value[c])
      BY <1>0, <1>4, <2>3 DEF Command, AppSetFreq, AppGetParam, AppSetParam, BlErase, Refusal,
         FrequencyCalls, Tuning
    <3>2. op[c] = "GetFrequency" => UNCHANGED tuned
      BY <1>0, <1>4, <2>3 DEF Command, AppSetFreq, AppGetParam, AppSetParam, BlErase
    <3>3. CacheHonest'
      BY <2>1, <2>3, <3>2 DEF CacheInv, CacheHonest, SettingDoubted, FrequencyCalls
    <3>4. SettingDoubted' BY <2>1 DEF CacheInv, SettingDoubted
    <3>5. Alone' BY <2>1, <2>2, <2>3, <3>1 DEF CacheInv, Alone, FrequencyCalls
    <3> QED BY <3>3, <3>4, <3>5
  <2>4. CASE ~(op[c] \in FrequencyCalls /\ result'[c] = "app")
    <3>1. UNCHANGED <<value, tuned>>
      BY <1>0, <1>4, <2>4 DEF Command, AppSetFreq, AppGetParam, AppSetParam, BlErase, FrequencyCalls
    <3> QED BY <2>1, <2>2, <2>4, <3>1, CacheQuiet
  <2> QED BY <2>3, <2>4
<1>5. ASSUME NEW c \in Caller, Reset(c) PROVE P
  <2>1. pc[c] = "reset" /\ UNCHANGED <<op, value, sFrequency>> BY <1>5 DEF Reset
  <2>2. \/ UNCHANGED <<tuned, doubt, disturbed>>
        \/ doubt' = TRUE /\ disturbed' = TRUE
    BY <1>5 DEF Reset
  <2>3. /\ \A d \in Caller \ {c} : pc'[d] = pc[d] /\ result'[d] = result[d]
        /\ result'[c] = "none"
    BY <1>0, <1>5 DEF Reset
  <2>4. CASE UNCHANGED <<tuned, doubt, disturbed>>
    BY <2>1, <2>3, <2>4, CacheQuiet
  <2>5. CASE doubt' = TRUE /\ disturbed' = TRUE
    BY <2>5 DEF Alone, SettingDoubted, CacheHonest
  <2> QED BY <2>2, <2>4, <2>5
<1>6. ASSUME NEW c \in Caller, StoreFrequency(c) PROVE P
  <2>1. /\ op[c] = "GetFrequency" /\ pc[c] = "return" /\ pc'[c] = "stamp"
        /\ sFrequency' = value[c] /\ UNCHANGED <<tuned, disturbed, op, value>>
        /\ ~doubt' => result[c] = "app" /\ ~disturbed
    BY <1>0, <1>6 DEF StoreFrequency
  <2>2. \A d \in Caller \ {c} : pc'[d] = pc[d] /\ result'[d] = result[d]
    BY <1>0, <1>6 DEF StoreFrequency
  <2>3. ~disturbed => \A d \in Caller \ {c} : op[d] \notin FrequencyCalls
    BY <2>1 DEF CacheInv, Alone, FrequencyCalls
  <2>4. CacheHonest' BY <2>1 DEF CacheInv, Alone, CacheHonest, FrequencyCalls
  <2>5. SettingDoubted' BY <2>1, <2>3 DEF SettingDoubted, FrequencyCalls
  <2>6. Alone' BY <2>1, <2>3 DEF Alone, FrequencyCalls
  <2> QED BY <2>4, <2>5, <2>6
<1>10. ASSUME NEW c \in Caller, Return(c) PROVE P
  <2>1. /\ op'[c] = "none" /\ UNCHANGED <<tuned, disturbed, sFrequency>>
        /\ \A d \in Caller \ {c} : /\ pc'[d] = pc[d] /\ result'[d] = result[d]
                                   /\ op'[d] = op[d] /\ value'[d] = value[d]
    BY <1>0, <1>10 DEF Return
  <2>2. Alone' BY <2>1 DEF CacheInv, Alone, FrequencyCalls
  <2>3. CASE pc[c] = "return" /\ op[c] = "SetFrequency" /\ result[c] = "app"
    <3>1. doubt' = disturbed BY <1>10, <2>3 DEF Return
    <3>2. ~disturbed => \A d \in Caller \ {c} : op[d] \notin FrequencyCalls
      BY <2>3 DEF CacheInv, Alone, FrequencyCalls
    <3>3. CacheHonest'
      BY <2>1, <2>3, <3>1 DEF CacheInv, Alone, CacheHonest, FrequencyCalls
    <3>4. SettingDoubted' BY <1>0, <2>1, <3>1, <3>2 DEF SettingDoubted, FrequencyCalls
    <3> QED BY <2>2, <3>3, <3>4
  <2>4. CASE ~(pc[c] = "return" /\ op[c] = "SetFrequency" /\ result[c] = "app")
    <3>1. UNCHANGED doubt BY <1>10, <2>4 DEF Return
    <3>2. CacheHonest' BY <2>1, <3>1 DEF CacheInv, CacheHonest
    <3>3. SettingDoubted' BY <2>1, <3>1 DEF CacheInv, SettingDoubted
    <3> QED BY <2>2, <3>2, <3>3
  <2> QED BY <2>3, <2>4
<1>7. CASE Unplug
  BY <1>7 DEF Unplug, Alone, SettingDoubted, CacheHonest
<1>8. CASE Plug \/ Lose \/ Tick
  BY <1>8, CacheQuiet DEF Plug, Lose, Tick, callVars
<1>9. CASE UNCHANGED vars
  BY <1>9, CacheQuiet DEF vars, callVars
<1> QED BY <1>1, <1>2, <1>3, <1>4, <1>5, <1>6, <1>7, <1>8, <1>9, <1>10 DEF Next, Step

LEMMA CacheInit == Init => Alone /\ SettingDoubted /\ CacheHonest
BY DEF Init, Alone, SettingDoubted, CacheHonest, FrequencyCalls

(* The library's idea of the frequency is the dongle's, for any threads.   *)
THEOREM CacheTrue == Spec => []CacheHonest
<1>1. Init => CacheInv BY Inv1Init, CacheInit DEF CacheInv
<1>2. CacheInv /\ [Next]_vars => CacheInv'
  <2> SUFFICES ASSUME CacheInv, [Next]_vars PROVE CacheInv' OBVIOUS
  <2>1. Inv1' BY Inv1Next DEF CacheInv
  <2> QED BY <2>1, CacheNext DEF CacheInv
<1>3. CacheInv => CacheHonest BY DEF CacheInv
<1> QED BY <1>1, <1>2, <1>3, PTL DEF Spec

-----------------------------------------------------------------------------
(* The loops over the flash.  A caller in a loop whose handle reaches the  *)
(* dongle has had it to itself since the loop began; what its earlier      *)
(* rounds wrote, compared or saved is still so.                            *)
Passed(c) == {a \in Flash : a < at[c]}

LoopAt(c) ==
  /\ \E k \in Nat : at[c] = First + (k * Size)
  /\ op[c] \in {"Write", "Verify", "Save"} => cursor = at[c]
  /\ op[c] = "Write" =>
       \A a \in Passed(c) : flash[a] \in {<<image[c].name, Offset(a)>>, Spoilt}
  /\ op[c] = "Verify" => \A a \in Passed(c) : flash[a] = <<image[c].name, Offset(a)>>
  /\ op[c] = "Save" => /\ Len(file[c]) = Offset(First) + (at[c] - First)
                       /\ \A a \in Passed(c) : file[c][Offset(a) + 1] = flash[a]

LoopInv == Inv1 /\ \A c \in Caller : pc[c] = "block" /\ holder = c => LoopAt(c)

(* A step that leaves the flash and the loops alone. *)
LEMMA LoopQuiet ==
  ASSUME LoopInv, UNCHANGED <<version, flash, cursor>>, NEW d \in Caller, pc'[d] = "block",
         pc[d] = "block", holder = d, op'[d] = op[d], image'[d] = image[d], at'[d] = at[d], file'[d] = file[d]
  PROVE  LoopAt(d)'
BY DEF LoopInv, LoopAt, Passed, Size, Offset

LEMMA AddressLoop ==
  ASSUME LoopInv, Inv1', NEW c \in Caller, Address(c), pc'[c] = "block"
  PROVE  LoopAt(c)'
<1>0. /\ pc \in [Caller -> Steps] /\ at \in [Caller -> Nat] /\ file \in [Caller -> Seq(Cell)]
      /\ First \in Nat /\ Size \in Nat
  BY Addresses, Sizes DEF LoopInv, Inv1, CallType, FileType, DeviceType
<1>1. /\ UNCHANGED <<version, flash, op, image>> /\ at'[c] = First /\ cursor' = AddrStart(c)
      /\ op[c] = "Save" => file'[c] = Padding
  BY <1>0 DEF Address, SavePadded, Goto, Answer, Finish
<1>2. 0 \in Nat /\ at'[c] = First + (0 * Size) BY <1>0, <1>1
<1>3. \E k \in Nat : at'[c] = First + (k * Size) BY <1>2
<1>4. Size' = Size /\ op'[c] = op[c] BY <1>1 DEF Size
<1>5. Passed(c)' = {} BY <1>1, Addresses DEF Passed, Flash
<1>6. op[c] \in {"Write", "Verify", "Save"} => cursor' = at'[c] BY <1>1 DEF AddrStart
<1>7. op[c] = "Save" => Len(file'[c]) = Offset(First) + (at'[c] - First)
  <2>1. op[c] = "Save" => Len(file'[c]) = Offset(First) BY <1>1, PaddingCells
  <2>2. at'[c] - First = 0 /\ Offset(First) \in Nat BY <1>0, <1>1, Addresses
  <2> QED BY ONLY <2>1, <2>2
<1> QED BY <1>1, <1>3, <1>4, <1>5, <1>6, <1>7 DEF LoopAt, Offset

(* The addresses of one round. *)
LEMMA Round ==
  ASSUME LoopInv, NEW c \in Caller, pc[c] = "block", holder = c,
         op[c] \in {"Write", "Verify", "Save"},
         at' = [at EXCEPT ![c] = @ + Size], UNCHANGED version
  PROVE  /\ at'[c] = at[c] + Size /\ at[c] \in Nat /\ Size \in Nat /\ cursor = at[c]
         /\ \E k \in Nat : at'[c] = First + (k * Size')
         /\ \A a \in Flash : a < at'[c] => a \in Passed(c) \/ a \in cursor .. cursor + Size - 1
         /\ \A a \in Passed(c) : a \notin cursor .. cursor + Size - 1
         /\ \A a \in Flash : a \in cursor .. cursor + Size - 1 =>
              /\ (a - cursor) + 1 \in 1 .. Size
              /\ Offset(at[c]) + (((a - cursor) + 1) - 1) = Offset(a)
              /\ cursor + ((a - cursor) + 1) - 1 = a
<1>0. /\ at \in [Caller -> Nat] /\ First \in Nat /\ Size \in Nat /\ Last \in Nat
  BY Addresses, Sizes DEF LoopInv, Inv1, CallType, DeviceType
<1>1. at'[c] = at[c] + Size /\ at[c] \in Nat /\ cursor = at[c] /\ Size' = Size
  BY <1>0 DEF LoopInv, LoopAt, Size
<1>2. PICK k \in Nat : at[c] = First + (k * Size) BY DEF LoopInv, LoopAt
<1>3. k + 1 \in Nat /\ at'[c] = First + ((k + 1) * Size) BY ONLY <1>0, <1>1, <1>2
<1>4. \E j \in Nat : at'[c] = First + (j * Size') BY <1>1, <1>3
<1>5. at[c] >= First BY ONLY <1>0, <1>1, <1>2
<1>6. \A a \in Flash : a \in Nat /\ First <= a /\ a <= Last BY <1>0 DEF Flash
<1>7. \A a \in Flash : a < at'[c] => a \in Passed(c) \/ a \in cursor .. cursor + Size - 1
  BY <1>0, <1>1, <1>6 DEF Passed
<1>8. \A a \in Passed(c) : a \notin cursor .. cursor + Size - 1
  BY <1>0, <1>1, <1>6 DEF Passed
<1>9. ASSUME NEW a \in Flash, a \in cursor .. cursor + Size - 1
      PROVE  /\ (a - cursor) + 1 \in 1 .. Size
             /\ Offset(at[c]) + (((a - cursor) + 1) - 1) = Offset(a)
             /\ cursor + ((a - cursor) + 1) - 1 = a
  <2>1. at[c] \in Flash BY <1>0, <1>1, <1>5, <1>6, <1>9 DEF Flash
  <2>2. Offset(at[c]) = Offset(First) + (at[c] - First) /\ Offset(a) = Offset(First) + (a - First)
    BY <2>1, Addresses
  <2>3. Offset(First) \in Nat BY <1>0, Addresses
  <2> HIDE DEF Offset, Size
  <2> QED BY ONLY <1>0, <1>1, <1>6, <1>9, <2>2, <2>3
<1> QED BY <1>0, <1>1, <1>4, <1>7, <1>8, <1>9

LEMMA WriteLoop ==
  ASSUME LoopInv, NEW c \in Caller, WriteStep(c), pc'[c] = "block"
  PROVE  LoopAt(c)'
<1>0. /\ UNCHANGED <<version, op, image>> /\ pc[c] = "block" /\ holder = c
      /\ op[c] = "Write" /\ MoreBlocks(c)
      /\ at' = [at EXCEPT ![c] = @ + Size] /\ cursor' = cursor + Size
      /\ flash' = [a \in Flash |-> IF a \notin cursor .. cursor + Size - 1 THEN flash[a]
                    ELSE IF flash[a] = Blank THEN BlockOf(image[c], at[c])[a - cursor + 1] ELSE Spoilt]
  BY DEF WriteStep, WriteBlock, Advance, Accepts
<1>1. /\ at'[c] = at[c] + Size /\ cursor = at[c] /\ \E k \in Nat : at'[c] = First + (k * Size')
      /\ \A a \in Flash : a < at'[c] => a \in Passed(c) \/ a \in cursor .. cursor + Size - 1
      /\ \A a \in Passed(c) : a \notin cursor .. cursor + Size - 1
      /\ \A a \in Flash : a \in cursor .. cursor + Size - 1 =>
           /\ (a - cursor) + 1 \in 1 .. Size
           /\ Offset(at[c]) + (((a - cursor) + 1) - 1) = Offset(a)
  BY <1>0, Round
<1>2. \A k \in 1 .. Size : BlockOf(image[c], at[c])[k] = <<image[c].name, Offset(at[c]) + k - 1>>
  BY <1>0, Bytes DEF LoopInv
<1>3. ASSUME NEW a \in Flash, a < at'[c]
      PROVE  flash'[a] \in {<<image[c].name, Offset(a)>>, Spoilt}
  <2>1. CASE a \in Passed(c)
    <3>1. flash'[a] = flash[a] BY <1>0, <1>1, <2>1
    <3>2. flash[a] \in {<<image[c].name, Offset(a)>>, Spoilt}
      BY <1>0, <2>1 DEF LoopInv, LoopAt
    <3> QED BY <3>1, <3>2
  <2>2. CASE a \in cursor .. cursor + Size - 1
    <3>1. flash'[a] = Spoilt \/ flash'[a] = BlockOf(image[c], at[c])[a - cursor + 1]
      BY <1>0, <2>2
    <3>2. a - cursor + 1 \in 1 .. Size /\ Offset(at[c]) + (a - cursor + 1) - 1 = Offset(a)
      BY <1>1, <2>2
    <3> QED BY <1>2, <3>1, <3>2
  <2> QED BY <1>1, <1>3, <2>1, <2>2
<1>4. cursor' = at'[c] /\ op'[c] = "Write" /\ image'[c] = image[c] BY <1>0, <1>1
<1> QED BY <1>1, <1>3, <1>4 DEF LoopAt, Passed, Offset

LEMMA VerifyLoop ==
  ASSUME LoopInv, NEW c \in Caller, ReadStep(c), op[c] = "Verify", pc'[c] = "block"
  PROVE  LoopAt(c)'
<1> DEFINE B == BlockOf(image[c], at[c])
<1>0. /\ UNCHANGED <<version, op, image, flash>> /\ pc[c] = "block" /\ holder = c /\ BlockRead = B
      /\ MoreBlocks(c) /\ at' = [at EXCEPT ![c] = @ + Size] /\ cursor' = cursor + Size
  <2>1. pc \in [Caller -> Steps] BY DEF LoopInv, Inv1, CallType
  <2> QED BY <2>1 DEF ReadStep, VerifyBlock, SaveBlock, InfoBlock, Advance, Finish, Answer,
                      BlocksDone, Accepts
<1>1. /\ at'[c] = at[c] + Size /\ cursor = at[c] /\ \E k \in Nat : at'[c] = First + (k * Size')
      /\ \A a \in Flash : a < at'[c] => a \in Passed(c) \/ a \in cursor .. cursor + Size - 1
      /\ \A a \in Flash : a \in cursor .. cursor + Size - 1 =>
           /\ (a - cursor) + 1 \in 1 .. Size
           /\ Offset(at[c]) + (((a - cursor) + 1) - 1) = Offset(a)
           /\ cursor + ((a - cursor) + 1) - 1 = a
  BY <1>0, Round
<1>2. \A k \in 1 .. Size : B[k] = <<image[c].name, Offset(at[c]) + k - 1>>
  BY <1>0, Bytes DEF LoopInv
<1>3. ASSUME NEW a \in Flash, a < at'[c]
      PROVE  flash[a] = <<image[c].name, Offset(a)>>
  <2>1. CASE a \in Passed(c) BY <1>0, <2>1 DEF LoopInv, LoopAt
  <2>2. CASE a \in cursor .. cursor + Size - 1
    <3> DEFINE k == (a - cursor) + 1
    <3>1. k \in 1 .. Size /\ cursor + k - 1 = a /\ Offset(at[c]) + (k - 1) = Offset(a)
      BY <1>1, <2>2
    <3> HIDE DEF k
    <3>2. BlockRead[k] = flash[a] BY <3>1 DEF BlockRead, FlashAt
    <3>3. B[k] = <<image[c].name, Offset(at[c]) + k - 1>> BY <1>2, <3>1
    <3> QED BY <1>0, <3>1, <3>2, <3>3
  <2> QED BY <1>1, <1>3, <2>1, <2>2
<1>4. cursor' = at'[c] /\ op'[c] = "Verify" /\ image'[c] = image[c] BY <1>0, <1>1
<1> QED BY <1>0, <1>1, <1>3, <1>4 DEF LoopAt, Passed, Offset

LEMMA SaveLoop ==
  ASSUME LoopInv, NEW c \in Caller, ReadStep(c), op[c] = "Save", pc'[c] = "block"
  PROVE  LoopAt(c)'
<1>0. /\ UNCHANGED <<version, op, image, flash>> /\ pc[c] = "block" /\ holder = c
      /\ at' = [at EXCEPT ![c] = @ + Size] /\ cursor' = cursor + Size
      /\ file' = [file EXCEPT ![c] = @ \o BlockRead]
  <2>1. pc \in [Caller -> Steps] BY DEF LoopInv, Inv1, CallType
  <2> QED BY <2>1 DEF ReadStep, VerifyBlock, SaveBlock, InfoBlock, Advance, Finish, Answer, Accepts
<1>1. /\ at'[c] = at[c] + Size /\ cursor = at[c] /\ \E k \in Nat : at'[c] = First + (k * Size')
      /\ at[c] \in Nat /\ Size \in Nat
      /\ \A a \in Flash : a < at'[c] => a \in Passed(c) \/ a \in cursor .. cursor + Size - 1
      /\ \A a \in Flash : a \in cursor .. cursor + Size - 1 =>
           /\ (a - cursor) + 1 \in 1 .. Size
           /\ Offset(at[c]) + (((a - cursor) + 1) - 1) = Offset(a)
           /\ cursor + ((a - cursor) + 1) - 1 = a
  BY <1>0, Round
<1>2. /\ file[c] \in Seq(Cell) /\ file'[c] = file[c] \o BlockRead
      /\ BlockRead \in Seq(Cell) /\ Len(BlockRead) = Size
  BY <1>0, BlockReadCells DEF LoopInv, Inv1, FileType
<1>3. /\ Len(file[c]) = Offset(First) + (at[c] - First)
      /\ \A a \in Passed(c) : file[c][Offset(a) + 1] = flash[a]
  BY <1>0 DEF LoopInv, LoopAt
<1>4. First \in Nat /\ Offset(First) \in Nat BY Addresses
<1>5. Len(file'[c]) = Offset(First) + (at'[c] - First)
  <2>1. Len(file'[c]) = Len(file[c]) + Size BY SMTT(20), <1>2
  <2> QED BY ONLY <1>1, <1>3, <1>4, <2>1
<1>6. ASSUME NEW a \in Flash, a < at'[c]
      PROVE  file'[c][Offset(a) + 1] = flash[a]
  <2>0. a \in Nat /\ First <= a /\ Offset(a) = Offset(First) + (a - First)
    BY Addresses DEF Flash
  <2>1. CASE a \in Passed(c)
    <3>1. a < at[c] BY <2>1 DEF Passed
    <3>2. Offset(a) + 1 \in 1 .. Len(file[c]) BY ONLY SMTT(20), <1>1, <1>3, <1>4, <2>0, <3>1
    <3>3. file'[c][Offset(a) + 1] = file[c][Offset(a) + 1] BY <1>2, <3>2
    <3> QED BY <1>3, <2>1, <3>3
  <2>2. CASE a \in cursor .. cursor + Size - 1
    <3> DEFINE k == (a - cursor) + 1
    <3>1. k \in 1 .. Size /\ cursor + k - 1 = a /\ a = at[c] + (k - 1)
      BY <1>1, <2>0, <2>2
    <3> HIDE DEF k
    <3>2. BlockRead[k] = flash[a] BY <3>1 DEF BlockRead, FlashAt
    <3>3. Offset(a) + 1 = Len(file[c]) + k
      <4>1. Offset(a) = Offset(First) + (a - First) BY <2>0
      <4>2. k \in Nat BY ONLY <1>1, <3>1
      <4>3. a = at[c] + (k - 1) BY <3>1
      <4>4. Len(file[c]) = Offset(First) + (at[c] - First) /\ at[c] \in Nat BY <1>1, <1>3
      <4> HIDE DEF Offset, k
      <4> QED BY ONLY <1>4, <4>1, <4>2, <4>3, <4>4
    <3>4. file'[c][Len(file[c]) + k] = BlockRead[k]
      <4>1. \A f, g \in Seq(Cell) : \A j \in 1 .. Len(g) : (f \o g)[Len(f) + j] = g[j]
        OBVIOUS
      <4> QED BY <1>2, <3>1, <4>1
    <3> QED BY <3>2, <3>3, <3>4
  <2> QED BY <1>1, <1>6, <2>1, <2>2
<1>7. cursor' = at'[c] /\ op'[c] = "Save" BY <1>0, <1>1
<1> QED BY <1>0, <1>1, <1>5, <1>6, <1>7 DEF LoopAt, Passed, Offset

LEMMA LoopNext ==
  ASSUME LoopInv, Inv1', [Next]_vars, NEW d \in Caller, pc'[d] = "block", holder' = d
  PROVE  LoopAt(d)'
<1> USE DEF callVars, deviceVars, Goto, Answer, Finish
<1>0. /\ pc \in [Caller -> Steps] /\ op \in [Caller -> AllCalls \cup {"none"}]
      /\ image \in [Caller -> Images \cup {NoImage}] /\ at \in [Caller -> Nat]
      /\ file \in [Caller -> Seq(Cell)] /\ NoCaller \notin Caller
  BY Constants DEF LoopInv, Inv1, CallType, FileType
<1>1. ASSUME NEW c \in Caller,
             Call(c) \/ Open(c) \/ Query(c) \/ Reset(c) \/ Range(c) \/ LastBlock(c) \/ BlockRefused(c)
               \/ StoreFrequency(c) \/ Return(c)
      PROVE LoopAt(d)'
  <2>1. UNCHANGED <<version, flash, cursor>>
    BY <1>1 DEF Call, Open, Query, Reset, Range, LastBlock, BlockRefused, StoreFrequency, Return
  <2>2. pc'[c] # "block"
    <3>1. pc[c] = "reopen" => OwnStep(c) # "block" BY DEF LoopInv, Inv1, CallFits, OwnStep
    <3> QED BY <1>0, <1>1, <3>1 DEF Call, Open, Query, Reset, Range, LastBlock, BlockRefused,
                                    StoreFrequency, Return
  <2>3. /\ pc'[d] = pc[d] /\ op'[d] = op[d] /\ image'[d] = image[d] /\ at'[d] = at[d]
        /\ file'[d] = file[d]
    BY <1>0, <1>1, <2>2 DEF Call, Open, Query, Reset, Range, LastBlock, BlockRefused,
                            StoreFrequency, Return
  <2>4. holder = d
    <3>1. CASE Close(c) \/ UNCHANGED linkVars BY <1>0, <3>1 DEF Close
    <3>2. CASE ~Close(c) /\ ~UNCHANGED linkVars
      <4>1. Open(c) /\ OpenFor(c)
        BY <1>1, <3>2 DEF Call, Open, Query, Reset, Range, LastBlock, BlockRefused, StoreFrequency, Return
      <4> QED BY <2>2, <4>1 DEF OpenFor
    <3> QED BY <3>1, <3>2
  <2> QED BY <2>1, <2>3, <2>4, LoopQuiet
<1>2. ASSUME NEW c \in Caller, Command(c) \/ Address(c) \/ WriteStep(c) \/ ReadStep(c), c # d
      PROVE LoopAt(d)'
  <2>1. /\ pc'[d] = pc[d] /\ op'[d] = op[d] /\ image'[d] = image[d] /\ at'[d] = at[d]
        /\ file'[d] = file[d]
    BY <1>0, <1>2 DEF Command, AppSetFreq, AppGetParam, AppSetParam, BlErase, Address, SavePadded,
       WriteStep, ReadStep, VerifyBlock, SaveBlock, InfoBlock, Advance
  <2>2. Close(c) \/ UNCHANGED linkVars
    BY <1>2 DEF Command, AppSetFreq, AppGetParam, AppSetParam, BlErase, Address, SavePadded,
       WriteStep, ReadStep, VerifyBlock, SaveBlock, InfoBlock, Advance
  <2>3. holder = d BY <1>0, <2>2 DEF Close
  <2>4. UNCHANGED <<version, flash, cursor>>
    BY <1>2, <2>3 DEF Command, AppSetFreq, AppGetParam, AppSetParam, BlErase, Address,
       WriteStep, ReadStep, Accepts
  <2> QED BY <2>1, <2>3, <2>4, LoopQuiet
<1>3. ASSUME NEW c \in Caller, Command(c), c = d PROVE FALSE
  BY <1>0, <1>3 DEF Command, AppSetFreq, AppGetParam, AppSetParam, BlErase
<1>4. ASSUME NEW c \in Caller, Address(c), c = d PROVE LoopAt(d)' BY <1>4, AddressLoop
<1>5. ASSUME NEW c \in Caller, WriteStep(c), c = d PROVE LoopAt(d)' BY <1>5, WriteLoop
<1>6. ASSUME NEW c \in Caller, ReadStep(c), c = d PROVE LoopAt(d)'
  <2>1. op[c] \in {"Verify", "Save"}
    BY <1>0, <1>6 DEF ReadStep, VerifyBlock, SaveBlock, InfoBlock
  <2> QED BY <1>6, <2>1, VerifyLoop, SaveLoop
<1>7. CASE Plug \/ Lose \/ Tick \/ UNCHANGED vars
  <2>1. UNCHANGED <<version, flash, cursor, pc, op, image, at, file, holder>>
    BY <1>7 DEF Plug, Lose, Tick, vars
  <2> QED BY <2>1, LoopQuiet
<1>8. CASE Unplug BY <1>0, <1>8 DEF Unplug
<1> QED BY <1>1, <1>2, <1>3, <1>4, <1>5, <1>6, <1>7, <1>8 DEF Next, Step

LEMMA LoopInvHolds == Spec => []LoopInv
<1>1. Init => LoopInv
  <2> SUFFICES ASSUME Init PROVE LoopInv OBVIOUS
  <2>1. \A c \in Caller : pc[c] # "block" BY DEF Init
  <2> QED BY <2>1, Inv1Init DEF LoopInv
<1>2. LoopInv /\ [Next]_vars => LoopInv'
  <2> SUFFICES ASSUME LoopInv, [Next]_vars PROVE LoopInv' OBVIOUS
  <2>1. Inv1' BY Inv1Next DEF LoopInv
  <2> QED BY <2>1, LoopNext DEF LoopInv
<1> QED BY <1>1, <1>2, PTL DEF Spec

-----------------------------------------------------------------------------
(* What a loop says at its end. *)

(* A whole block the loop has not passed leaves it another round.          *)
LEMMA Remaining ==
  ASSUME Inv1, NEW c \in Caller, \E j \in Nat : at[c] = First + (j * Size),
         NEW n \in Nat, NEW a \in WholeBlocks(n), ~(a < at[c])
  PROVE  at[c] + Size <= Last + 1 /\ Offset(at[c]) + Size <= n
<1>0. /\ First \in Nat /\ Last \in Nat /\ Size \in Nat /\ Size > 1 /\ at[c] \in Nat
      /\ a \in Flash /\ a \in Nat
  BY Addresses, Sizes DEF Inv1, CallType, DeviceType, WholeBlocks
<1>1. PICK j \in Nat : at[c] = First + (j * Size) OBVIOUS
<1>2. PICK k \in 0 .. Last : LET b == First + (k * Size)
                             IN a \in b .. b + Size - 1 /\ b + Size - 1 <= Last /\ Offset(b) + Size <= n
  BY DEF WholeBlocks
<1> DEFINE b == First + (k * Size)
<1>3. k \in Nat /\ b \in Nat /\ a \in b .. b + Size - 1 /\ b + Size - 1 <= Last
  BY <1>0, <1>2
<1>4. Offset(b) + Size <= n BY <1>2
<1>5. j <= k
  <2> SUFFICES ASSUME ~(j <= k) PROVE FALSE OBVIOUS
  <2>1. k + 1 <= j BY ONLY <1>1, <1>3, ~(j <= k)
  <2>2. (k + 1) * Size <= j * Size BY ONLY <1>0, <1>1, <1>3, <2>1
  <2>3. (k * Size) + Size = (k + 1) * Size BY ONLY <1>0, <1>3
  <2>4. k * Size \in Nat /\ j * Size \in Nat BY ONLY <1>0, <1>1, <1>3
  <2>5. a < First + (k * Size) + Size BY <1>0, <1>3, <2>4
  <2> QED BY ONLY <1>0, <1>1, <2>2, <2>3, <2>4, <2>5, ~(a < at[c])
<1>6. j * Size <= k * Size BY ONLY <1>0, <1>1, <1>3, <1>5
<1>7. at[c] <= b
  <2>1. k * Size \in Nat /\ j * Size \in Nat BY ONLY <1>0, <1>1, <1>3
  <2> QED BY ONLY <1>0, <1>1, <1>6, <2>1
<1> HIDE DEF b
<1>8. at[c] + Size <= Last + 1 BY ONLY <1>0, <1>3, <1>7
<1>9. at[c] \in Flash /\ b \in Flash
  <2>1. First <= at[c] BY ONLY <1>0, <1>1
  <2> QED BY <1>0, <1>3, <1>7, <2>1 DEF Flash
<1>10. Offset(at[c]) = Offset(First) + (at[c] - First) /\ Offset(b) = Offset(First) + (b - First)
  BY <1>9, Addresses
<1>11. Offset(First) \in Nat BY <1>0, Addresses
<1>12. Offset(b) + Size <= n BY <1>4 DEF b
<1> HIDE DEF Offset, Size
<1>13. Offset(at[c]) + Size <= n BY ONLY <1>0, <1>3, <1>7, <1>10, <1>11, <1>12
<1> QED BY <1>8, <1>13

(* Only the end of the loop answers FCD_MODE_BL. *)
LEMMA OnlyLastBlock ==
  ASSUME LoopInv, [Next]_vars, NEW c \in Caller, NEW o \in {"Write", "Verify", "Save"},
         Says(c, o, "bl")
  PROVE  LastBlock(c)
<1> USE DEF callVars, Goto, Answer, Finish
<1>0. /\ pc \in [Caller -> Steps] /\ result \in [Caller -> Modes \cup {"none", "cached"}]
      /\ op[c] = o /\ pc[c] # "return" /\ pc'[c] = "return" /\ result'[c] = "bl"
  BY DEF LoopInv, Inv1, CallType, Says
<1>1. ASSUME NEW d \in Caller, Step(d) PROVE d = c
  <2>1. \A e \in Caller \ {d} : pc'[e] = pc[e]
    BY <1>0, <1>1 DEF Step, Call, Open, Query, Command, AppSetFreq, AppGetParam, AppSetParam,
       BlErase, Reset, Range, Address, SavePadded, LastBlock, WriteStep, ReadStep, VerifyBlock,
       SaveBlock, InfoBlock, Advance, BlockRefused, StoreFrequency, Return
  <2> QED BY <1>0, <2>1
<1>2. ~(Unplug \/ Plug \/ Lose \/ Tick \/ UNCHANGED vars)
  BY <1>0 DEF Unplug, Plug, Lose, Tick, vars
<1>3. Step(c) BY <1>1, <1>2 DEF Next
<1>4. ~Call(c) BY <1>0 DEF Call
<1>5. ~Open(c)
  <2>1. pc[c] = "reopen" => OwnStep(c) # "return" BY DEF LoopInv, Inv1, CallFits, OwnStep
  <2> QED BY <1>0, <2>1 DEF Open
<1>6. ~Query(c) BY <1>0 DEF Query, Queries, FlashCalls
<1>7. Refusal(c) = "app" BY <1>0 DEF Refusal, Tuning
<1>8. ~(Command(c) \/ Reset(c) \/ Range(c) \/ Address(c))
  BY <1>0, <1>7 DEF Command, AppSetFreq, AppGetParam, AppSetParam, BlErase, Reset, Range, Address,
     SavePadded
<1>9. ~(WriteStep(c) \/ ReadStep(c) \/ BlockRefused(c) \/ StoreFrequency(c) \/ Return(c))
  BY <1>0 DEF WriteStep, ReadStep, VerifyBlock, SaveBlock, InfoBlock, Advance, BlockRefused,
     StoreFrequency, Return
<1> QED BY <1>3, <1>4, <1>5, <1>6, <1>8, <1>9 DEF Step

LEMMA LoopsEnd ==
  ASSUME LoopInv, [Next]_vars, NEW c \in Caller, NEW o \in {"Write", "Verify", "Save"},
         Says(c, o, "bl")
  PROVE  /\ LoopAt(c) /\ op[c] = o /\ UNCHANGED <<flash, file>>
         /\ LET n == IF o = "Save" THEN Offset(First) + Last - First + 1 ELSE image[c].size
            IN \A a \in WholeBlocks(n) : a \in Passed(c)
<1>1. LastBlock(c) BY OnlyLastBlock
<1>2. LoopAt(c) /\ op[c] = o /\ UNCHANGED <<flash, file>> /\ BlocksDone(c)
  BY <1>1 DEF LastBlock, LoopInv, Says, deviceVars
<1>3. \E j \in Nat : at[c] = First + (j * Size) BY <1>2 DEF LoopAt
<1>4. /\ at[c] \in Nat /\ Size \in Nat /\ Size > 1 /\ Last \in Nat /\ First \in Nat
      /\ Offset(at[c]) \in Nat
  BY Addresses, Sizes DEF LoopInv, Inv1, CallType, DeviceType
<1>5. ASSUME o = "Save", NEW n, NEW a \in WholeBlocks(n), n = Offset(First) + Last - First + 1
      PROVE a \in Passed(c)
  <2>1. ~(at[c] < Last) BY <1>2, <1>5 DEF BlocksDone, MoreToSave
  <2>2. ~(a < at[c]) => at[c] + Size <= Last + 1
    <3> SUFFICES ASSUME ~(a < at[c]) PROVE at[c] + Size <= Last + 1 OBVIOUS
    <3>1. a \in Flash BY <1>5 DEF WholeBlocks
    <3>2. Last - First \in Nat /\ Offset(First) \in Nat BY <1>4, <3>1, Addresses DEF Flash
    <3>3. n \in Nat BY ONLY <1>4, <1>5, <3>2
    <3> QED BY <1>3, <1>5, <3>3, Remaining DEF LoopInv
  <2>3. a < at[c] BY ONLY <1>4, <2>1, <2>2
  <2> QED BY <1>5, <2>3 DEF Passed, WholeBlocks
<1>6. ASSUME o # "Save", NEW a \in WholeBlocks(image[c].size) PROVE a \in Passed(c)
  <2>1. image[c] \in Images BY <1>2, <1>6 DEF LoopInv, Inv1, CallFits
  <2>2. image[c].size \in Nat BY <2>1, DongleAssumption
  <2>3. ~MoreBlocks(c) BY <1>2, <1>6 DEF BlocksDone
  <2>4. ~(at[c] + Size - 1 < Last + 1 /\ Offset(at[c]) + Size - 1 < image[c].size)
    BY <2>3 DEF MoreBlocks
  <2>5. ~(a < at[c]) => at[c] + Size <= Last + 1 /\ Offset(at[c]) + Size <= image[c].size
    BY <1>3, <1>6, <2>2, Remaining DEF LoopInv
  <2> HIDE DEF Offset, Size
  <2>6. a < at[c] BY ONLY <1>4, <2>2, <2>4, <2>5
  <2> QED BY <1>6, <2>6 DEF Passed, WholeBlocks
<1> QED BY <1>2, <1>5, <1>6

(* For every flash, image and block size, whoever else calls and whatever  *)
(* the dongle answers: when fcdBlWriteFirmwareProg answers FCD_MODE_BL and *)
(* the dongle was not pulled out meanwhile, each whole block of the image  *)
(* has been written to its place.                                          *)
THEOREM WritesTold == Spec => WriteTold
<1>1. ASSUME LoopInv, [Next]_vars, NEW c \in Caller, Says(c, "Write", "bl"),
             NEW a \in WholeBlocks(image[c].size)
      PROVE  flash'[a] \in {<<image[c].name, Offset(a)>>, Spoilt}
  BY <1>1, LoopsEnd DEF LoopAt
<1>2. LoopInv /\ [Next]_vars =>
        [\A c \in Caller : Says(c, "Write", "bl") =>
           \A a \in WholeBlocks(image[c].size) :
             flash'[a] \in {<<image[c].name, Offset(a)>>, Spoilt}]_vars
  BY <1>1
<1> QED BY <1>2, LoopInvHolds, PTL DEF Spec, WriteTold

(* Likewise, when fcdBlVerifyFirmwareProg answers FCD_MODE_BL, the flash   *)
(* holds each whole block of the image at that moment, not only when it    *)
(* was read: nobody else has had the dongle since, unless it was pulled    *)
(* out.                                                                    *)
THEOREM VerifiesHonestly == Spec => VerifyHonest
<1>1. ASSUME LoopInv, [Next]_vars, NEW c \in Caller, Says(c, "Verify", "bl"),
             NEW a \in WholeBlocks(image[c].size)
      PROVE  flash'[a] = <<image[c].name, Offset(a)>>
  BY <1>1, LoopsEnd DEF LoopAt
<1>2. LoopInv /\ [Next]_vars =>
        [\A c \in Caller : Says(c, "Verify", "bl") =>
           \A a \in WholeBlocks(image[c].size) : flash'[a] = <<image[c].name, Offset(a)>>]_vars
  BY <1>1
<1> QED BY <1>2, LoopInvHolds, PTL DEF Spec, VerifyHonest

(* Likewise, when fcdBlSaveFirmwareProg answers FCD_MODE_BL, each whole    *)
(* block of the flash is in the file, padded as it is, at its offset.      *)
THEOREM SavesFaithfully == Spec => SaveFaithful
<1>1. ASSUME LoopInv, [Next]_vars, NEW c \in Caller, Says(c, "Save", "bl"),
             NEW a \in WholeBlocks(Offset(First) + Last - First + 1)
      PROVE  Offset(a) < Len(file'[c]) /\ file'[c][Offset(a) + 1] = flash'[a]
  <2>1. /\ LoopAt(c) /\ op[c] = "Save" /\ UNCHANGED <<flash, file>> /\ a \in Passed(c)
    BY <1>1, LoopsEnd
  <2>2. Len(file[c]) = Offset(First) + (at[c] - First) /\ file[c][Offset(a) + 1] = flash[a]
    BY <2>1 DEF LoopAt
  <2>3. a \in Flash /\ a < at[c] /\ at[c] \in Nat
    BY <1>1, <2>1 DEF Passed, LoopInv, Inv1, CallType
  <2>4. /\ First \in Nat /\ a \in Nat /\ Offset(First) \in Nat
        /\ Offset(a) = Offset(First) + (a - First)
    BY <2>3, Addresses
  <2>5. Offset(a) < Len(file[c]) BY ONLY <2>2, <2>3, <2>4
  <2> QED BY <2>1, <2>2, <2>5
<1>2. LoopInv /\ [Next]_vars =>
        [\A c \in Caller : Says(c, "Save", "bl") =>
           \A a \in WholeBlocks(Offset(First) + Last - First + 1) :
             Offset(a) < Len(file'[c]) /\ file'[c][Offset(a) + 1] = flash'[a]]_vars
  BY <1>1
<1> QED BY <1>2, LoopInvHolds, PTL DEF Spec, SaveFaithful
=============================================================================
