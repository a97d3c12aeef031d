------------------------------- MODULE Dongle -------------------------------
(***************************************************************************)
(* The FUNcube dongle as the library talks to it: fcd.c, the Linux half of *)
(* dongle.cpp and the Dongle_ calls of funcubeLib.cpp.                     *)
(*                                                                         *)
(* Every call is one or two sessions.  A session opens the HID device,     *)
(* which libusb lets one of the callers claim at a time, makes its         *)
(* exchanges (hid_write, whose result is ignored, then hid_read, which     *)
(* waits without limit) and closes it.  Opening, each exchange and the     *)
(* return to the application are steps; the close is part of the exchange  *)
(* it follows.  Between any two of them another thread may call, the       *)
(* dongle may be pulled out or put back, and time may pass.                *)
(*                                                                         *)
(* Flash is a few bytes: block sizes, addresses and images are scaled      *)
(* down, the arithmetic on them is the code's.  A byte of image i at       *)
(* offset n is <<i, n>>.  One dongle; the one put back is the one that was *)
(* pulled out.                                                             *)
(***************************************************************************)
EXTENDS Integers, Sequences

CONSTANTS
  Caller,       \* threads that call the library
  NoCaller,
  Menus,        \* which calls each thread makes, for each application there may be
  BlockSize,    \* bytes a version's flash block has: 48 and 32 in fcd.c
  First, Last,  \* the answer to FCD_CMD_BL_GET_BYTE_ADDR_RANGE
  Page,         \* 2^24: an address modulo Page is an offset in an image
  Images,       \* firmware images: a name and a size
  Frequencies,
  CachePeriod,  \* 5000 ms
  TickMod       \* 2^32: the range of GetTickCount

Tuning == {"SetFrequency", "GetFrequency", "BiasTEnable"}
FrequencyCalls == {"SetFrequency", "GetFrequency"}
FlashCalls == {"Write", "Verify", "Save", "GetDeviceInfo"}
Resets == {"AppReset", "BlReset"}
Queries == {"GetMode", "GetFwVerStr", "GetCaps", "GetCapsStr"}
AllCalls == Tuning \cup FlashCalls \cup Resets \cup Queries \cup {"Erase"}

ASSUME DongleAssumption ==
  /\ NoCaller \notin Caller
  /\ Menus \subseteq [Caller -> SUBSET AllCalls]
  /\ \A v \in DOMAIN BlockSize : BlockSize[v] \in Nat \ {0, 1}
  /\ First \in Nat /\ Last \in Nat /\ Page \in Nat \ {0}
  (* the flash is in one page *)
  /\ \A a \in First .. Last : a % Page = (First % Page) + (a - First)
  /\ Images \subseteq [name : STRING, size : Nat]
  /\ Frequencies \subseteq Nat
  /\ CachePeriod \in Nat /\ TickMod \in Nat \ {0, 1}

VARIABLES
  (* the dongle *)
  version,      \* hardware version, fixed
  plugged,
  mode,         \* "app" or "bl", the bootloader
  tuned,        \* frequency; 0 before it is told one
  bias,
  flash,
  cursor,       \* where the next flash block is read or written
  (* libusb and the open device *)
  holder,       \* the caller whose open phd reaches the dongle
  lost,         \* a command of this session was lost: its hid_read waits
  (* the calls *)
  menu, pc, op, image, value, result,
  at,           \* u32Addr
  file,         \* what fcdBlSaveFirmwareProg has written
  (* funcubeLib.cpp *)
  sFrequency,   \* s_frequency
  expiry,       \* tickCount of Dongle_GetFrequency
  now,          \* GetTickCount()
  (* history *)
  doubt,        \* s_frequency need not be the dongle's frequency
  disturbed     \* the call that learns it was not alone with the dongle

deviceVars == <<version, plugged, mode, tuned, bias, flash, cursor>>
linkVars == <<holder, lost>>
callVars == <<menu, pc, op, image, value, result, at, file>>
cacheVars == <<sFrequency, expiry, now, doubt, disturbed>>
vars == <<deviceVars, linkVars, callVars, cacheVars>>

Blank == <<"blank", 0>>
Spoilt == <<"spoilt", 0>>     \* written without an erase
Zero == <<"zero", 0>>
NoImage == [name |-> "none", size |-> 0]
Byte(i) == {<<i.name, n>> : n \in 0 .. i.size - 1}
Cell == (UNION {Byte(i) : i \in Images}) \cup {Blank, Spoilt, Zero}
Flash == First .. Last
Modes == {"app", "bl"}
InSession == {"query", "range", "address", "block", "command", "reset"}
Steps == InSession \cup {"idle", "open", "reopen", "return", "stamp"}

Init ==
  /\ version \in DOMAIN BlockSize /\ plugged = TRUE /\ mode \in Modes
  /\ tuned = 0 /\ bias = 0 /\ flash = [a \in Flash |-> Blank] /\ cursor = First
  /\ holder = NoCaller /\ lost = FALSE
  /\ menu \in Menus /\ file = [c \in Caller |-> <<>>]
  /\ pc = [c \in Caller |-> "idle"] /\ op = [c \in Caller |-> "none"]
  /\ image = [c \in Caller |-> NoImage] /\ value = [c \in Caller |-> 0]
  /\ result = [c \in Caller |-> "none"] /\ at = [c \in Caller |-> First]
  /\ sFrequency = 0 /\ expiry = 0 /\ now = 1 /\ doubt = TRUE /\ disturbed = FALSE

-----------------------------------------------------------------------------
(* Sessions *)

(* fcdOpen: enumerate, hid_open_path.  It fails when there is no dongle or *)
(* another thread has it open.  A dongle pulled out and put back has a new *)
(* path: the handle some thread still has reaches it no more, and hinders  *)
(* nobody.                                                                 *)
CanOpen == plugged /\ holder = NoCaller
OpenFor(c) == holder' = c /\ lost' = FALSE
Close(c) == IF holder = c THEN holder' = NoCaller /\ lost' = FALSE ELSE UNCHANGED linkVars

(* aucBufIn holds the command and 1: the dongle got it, and takes it in    *)
(* this mode.                                                              *)
Accepts(c, m) == holder = c /\ ~lost /\ mode = m

(* It holds anything else: the dongle refuses, as it may, or hid_read      *)
(* returned -1 for a dongle that is gone and left the bytes at 0xCC.       *)
Refused(c) == ~(holder = c /\ lost)

Answer(c, r) ==
  /\ pc' = [pc EXCEPT ![c] = "return"] /\ result' = [result EXCEPT ![c] = r]

(* the session ends with the call *)
Finish(c, r) == Close(c) /\ Answer(c, r)

(* What a call answers when its command is refused.                        *)
RefusalFaulty(c) == "app"
Refusal(c) == IF op[c] \in Tuning THEN "bl" ELSE "app"

Goto(c, step) == pc' = [pc EXCEPT ![c] = step] /\ UNCHANGED result

(* Where the call's own session begins. *)
OwnStep(c) ==
  CASE op[c] \in FlashCalls -> "range"
    [] op[c] \in Resets -> "reset"
    [] op[c] \in Tuning \cup {"Erase"} -> "command"

-----------------------------------------------------------------------------
(* Flash: the dongle's, and the arithmetic on it.                          *)

Size == BlockSize[version]
Offset(a) == a % Page
FlashAt(a) == IF a \in Flash THEN flash[a] ELSE Blank
BlockRead == [k \in 1 .. Size |-> FlashAt(cursor + k - 1)]
BlockOf(i, a) == [k \in 1 .. Size |-> <<i.name, Offset(a) + k - 1>>]

(* The dongle writes a block where its address is; each block read or      *)
(* written moves it on, as the loops that set it once expect.              *)
WriteBlock(block) ==
  /\ flash' = [a \in Flash |-> IF a \notin cursor .. cursor + Size - 1 THEN flash[a]
                               ELSE IF flash[a] = Blank THEN block[a - cursor + 1] ELSE Spoilt]
  /\ cursor' = cursor + Size

(* The loops of fcdBlWriteFirmwareProg and fcdBlVerifyFirmwareProg go on.  *)
(* (A *Faulty or *Short operator is a variant of the definition below it,  *)
(* kept to show which property notices.)                                   *)
MoreBlocksShort(c) == at[c] + Size < Last + 1 /\ Offset(at[c]) + Size - 1 < image[c].size
MoreBlocks(c) == at[c] + Size - 1 < Last + 1 /\ Offset(at[c]) + Size - 1 < image[c].size

(* The loop of fcdBlSaveFirmwareProg goes on.                              *)
MoreToSave(c) == at[c] < Last

-----------------------------------------------------------------------------
(* Calls *)

GetFrequencyCached == ~(now > expiry)

(* An idle thread makes a call the menu has.  Dongle_SetFrequency assigns  *)
(* s_frequency before it goes to the dongle; Dongle_GetFrequency goes      *)
(* there only when its time has come.                                      *)
Call(c) ==
  /\ pc[c] = "idle"
  /\ \E o \in menu[c] :
       /\ op' = [op EXCEPT ![c] = o]
       /\ \/ o \in {"Write", "Verify"} /\ \E i \in Images : image' = [image EXCEPT ![c] = i]
          \/ o \notin {"Write", "Verify"} /\ UNCHANGED image
       /\ \/ /\ o = "SetFrequency"
             /\ \E f \in Frequencies : value' = [value EXCEPT ![c] = f] /\ sFrequency' = f
             /\ doubt' = TRUE
          \/ /\ o = "BiasTEnable" /\ \E b \in {0, 1} : value' = [value EXCEPT ![c] = b]
             /\ UNCHANGED <<sFrequency, doubt>>
          \/ o \notin {"SetFrequency", "BiasTEnable"} /\ UNCHANGED <<value, sFrequency, doubt>>
       /\ disturbed' = IF o \in FrequencyCalls THEN \E d \in Caller : op[d] \in FrequencyCalls ELSE disturbed
       /\ IF o = "GetFrequency" /\ GetFrequencyCached THEN Answer(c, "cached")
          ELSE Goto(c, IF o \in Resets \cup {"Erase"} THEN "reopen" ELSE "open")
  /\ UNCHANGED <<deviceVars, linkVars, menu, at, file, expiry, now>>

OpenFaulty(c) ==
  /\ pc[c] \in {"open", "reopen"} /\ CanOpen /\ OpenFor(c)
  /\ Goto(c, IF pc[c] = "open" THEN "query" ELSE OwnStep(c))
  /\ UNCHANGED <<deviceVars, menu, op, image, value, at, file, cacheVars>>

Open(c) ==
  /\ pc[c] \in {"open", "reopen"}
  /\ \/ /\ CanOpen /\ OpenFor(c)
        /\ Goto(c, IF pc[c] = "open" THEN "query" ELSE OwnStep(c))
     \/ ~CanOpen /\ Answer(c, "none") /\ UNCHANGED linkVars
  /\ UNCHANGED <<deviceVars, menu, op, image, value, at, file, cacheVars>>

(* fcdGetMode, fcdGetVersion: a session of its own.  A refusal includes an *)
(* answer that names no version the library knows.                         *)
Query(c) ==
  /\ pc[c] = "query"
  /\ \/ /\ holder = c /\ ~lost
        /\ IF op[c] \in Queries THEN Finish(c, mode)
           ELSE IF op[c] \in FlashCalls \/ mode = "app" THEN Close(c) /\ Goto(c, "reopen")
           ELSE Finish(c, "none")
     \/ Refused(c) /\ Finish(c, "none")
  /\ UNCHANGED <<deviceVars, menu, op, image, value, at, file, cacheVars>>

(* fcdAppSetFreq, fcdAppGetParam, fcdAppSetParam, fcdBlErase: one command, *)
(* which is obeyed in its own mode only.                                   *)
AppSetFreq(c) ==
  /\ op[c] = "SetFrequency" /\ Accepts(c, "app") /\ Finish(c, "app")
  /\ tuned' = value[c] /\ UNCHANGED <<bias, flash, value>>

AppGetParam(c) ==
  /\ op[c] = "GetFrequency" /\ Accepts(c, "app") /\ Finish(c, "app")
  /\ value' = [value EXCEPT ![c] = tuned] /\ UNCHANGED <<tuned, bias, flash>>

AppSetParam(c) ==
  /\ op[c] = "BiasTEnable" /\ Accepts(c, "app") /\ Finish(c, "app")
  /\ bias' = value[c] /\ UNCHANGED <<tuned, flash, value>>

BlErase(c) ==
  /\ op[c] = "Erase" /\ Accepts(c, "bl") /\ Finish(c, "bl")
  /\ flash' = [a \in Flash |-> Blank] /\ UNCHANGED <<tuned, bias, value>>

Command(c) ==
  /\ pc[c] = "command"
  /\ \/ AppSetFreq(c) \/ AppGetParam(c) \/ AppSetParam(c) \/ BlErase(c)
     \/ Refused(c) /\ Finish(c, Refusal(c)) /\ UNCHANGED <<tuned, bias, flash, value>>
  /\ UNCHANGED <<version, plugged, mode, cursor, menu, op, image, at, file, cacheVars>>

(* fcdAppReset, fcdBlReset: a write without a read.  A dongle that obeys   *)
(* leaves the bus and comes back in the other mode.                        *)
Reset(c) ==
  /\ pc[c] = "reset"
  /\ \/ /\ holder = c /\ mode = (IF op[c] = "AppReset" THEN "app" ELSE "bl")
        /\ mode' = (IF op[c] = "AppReset" THEN "bl" ELSE "app")
        /\ plugged' = FALSE /\ tuned' = 0 /\ bias' = 0 /\ doubt' = TRUE /\ disturbed' = TRUE
     \/ UNCHANGED <<mode, plugged, tuned, bias, doubt, disturbed>>
  /\ Finish(c, "none")
  /\ UNCHANGED <<version, flash, cursor, menu, op, image, value, at, file, sFrequency, expiry, now>>

(* FCD_CMD_BL_GET_BYTE_ADDR_RANGE *)
Range(c) ==
  /\ pc[c] = "range"
  /\ \/ Accepts(c, "bl") /\ Goto(c, "address") /\ UNCHANGED linkVars
     \/ Refused(c) /\ Finish(c, Refusal(c))
  /\ UNCHANGED <<deviceVars, menu, op, image, value, at, file, cacheVars>>

(* Saving pads the file up to the first address; fwrite may fail.          *)
PaddingFaulty == <<>>
Padding == [k \in 1 .. Offset(First) |-> Zero]

SavePadded(c) ==
  \/ /\ Goto(c, "block") /\ UNCHANGED linkVars
     /\ file' = [file EXCEPT ![c] = Padding]
  \/ Finish(c, "app") /\ UNCHANGED file

(* The device information is past the flash.                               *)
AddrStart(c) == IF op[c] = "GetDeviceInfo" THEN Last + 1 ELSE First

(* FCD_CMD_BL_SET_BYTE_ADDR *)
Address(c) ==
  /\ pc[c] = "address"
  /\ \/ /\ Accepts(c, "bl")
        /\ cursor' = AddrStart(c)
        /\ at' = [at EXCEPT ![c] = First]
        /\ \/ op[c] = "Save" /\ SavePadded(c)
           \/ op[c] # "Save" /\ Goto(c, "block") /\ UNCHANGED <<linkVars, file>>
     \/ Refused(c) /\ Finish(c, Refusal(c)) /\ UNCHANGED <<cursor, at, file>>
  /\ UNCHANGED <<version, plugged, mode, tuned, bias, flash, menu, op, image, value, cacheVars>>

Advance(c) == at' = [at EXCEPT ![c] = @ + Size] /\ Goto(c, "block") /\ UNCHANGED linkVars

BlocksDone(c) ==
  CASE op[c] \in {"Write", "Verify"} -> ~MoreBlocks(c)
    [] op[c] = "Save" -> ~MoreToSave(c)
    [] OTHER -> FALSE

(* The loop's end: FCD_MODE_BL. *)
LastBlock(c) ==
  /\ pc[c] = "block" /\ BlocksDone(c) /\ Finish(c, "bl")
  /\ UNCHANGED <<deviceVars, menu, op, image, value, at, file, cacheVars>>

(* One round of the loop: FCD_CMD_BL_WRITE_FLASH_BLOCK ... *)
WriteStep(c) ==
  /\ pc[c] = "block" /\ op[c] = "Write" /\ MoreBlocks(c) /\ Accepts(c, "bl")
  /\ WriteBlock(BlockOf(image[c], at[c])) /\ Advance(c)
  /\ UNCHANGED <<version, plugged, mode, tuned, bias, menu, op, image, value, file, cacheVars>>

(* ... or FCD_CMD_BL_READ_FLASH_BLOCK, to compare the block with the       *)
(* image's, to write it to the file, which may fail, or to look at the     *)
(* device information (VerifyBlockFaulty lets bFinished alone end the      *)
(* loop),                                                                  *)
VerifyBlockFaulty(c) ==
  /\ op[c] = "Verify" /\ UNCHANGED file
  /\ \/ BlockRead = BlockOf(image[c], at[c]) /\ Advance(c)
     \/ BlockRead # BlockOf(image[c], at[c]) /\ Finish(c, "bl") /\ UNCHANGED at

VerifyBlock(c) ==
  /\ op[c] = "Verify" /\ UNCHANGED file
  /\ \/ BlockRead = BlockOf(image[c], at[c]) /\ Advance(c)
     \/ BlockRead # BlockOf(image[c], at[c]) /\ Finish(c, "app") /\ UNCHANGED at

SaveBlock(c) ==
  /\ op[c] = "Save"
  /\ \/ Advance(c) /\ file' = [file EXCEPT ![c] = @ \o BlockRead]
     \/ Finish(c, "app") /\ UNCHANGED <<at, file>>

InfoBlock(c) == op[c] = "GetDeviceInfo" /\ Finish(c, "bl") /\ UNCHANGED <<at, file>>

ReadStep(c) ==
  /\ pc[c] = "block" /\ Accepts(c, "bl") /\ ~BlocksDone(c)
  /\ VerifyBlock(c) \/ SaveBlock(c) \/ InfoBlock(c)
  /\ cursor' = cursor + Size
  /\ UNCHANGED <<version, plugged, mode, tuned, bias, flash, menu, op, image, value, cacheVars>>

(* and for each the refusal.                                               *)
BlockRefused(c) ==
  /\ pc[c] = "block" /\ ~BlocksDone(c) /\ Refused(c) /\ Finish(c, "app")
  /\ UNCHANGED <<deviceVars, menu, op, image, value, at, file, cacheVars>>

(* Dongle_GetFrequency stores what the dongle said, 0 if nothing,          *)
StoreFrequency(c) ==
  /\ pc[c] = "return" /\ op[c] = "GetFrequency" /\ result[c] # "cached"
  /\ sFrequency' = value[c] /\ doubt' = (result[c] # "app" \/ disturbed)
  /\ Goto(c, "stamp")
  /\ UNCHANGED <<deviceVars, linkVars, menu, op, image, value, at, file, expiry, now, disturbed>>

(* and then when to ask again; the application gets the answer.            *)
Return(c) ==
  /\ \/ pc[c] = "stamp" /\ expiry' = (now + CachePeriod) % TickMod /\ UNCHANGED doubt
     \/ /\ pc[c] = "return" /\ (op[c] = "GetFrequency" => result[c] = "cached")
        /\ doubt' = (IF op[c] = "SetFrequency" /\ result[c] = "app" THEN disturbed ELSE doubt)
        /\ UNCHANGED expiry
  /\ pc' = [pc EXCEPT ![c] = "idle"]
  /\ op' = [op EXCEPT ![c] = "none"] /\ result' = [result EXCEPT ![c] = "none"]
  /\ image' = [image EXCEPT ![c] = NoImage] /\ value' = [value EXCEPT ![c] = 0]
  /\ at' = [at EXCEPT ![c] = First] /\ file' = [file EXCEPT ![c] = <<>>]
  /\ UNCHANGED <<deviceVars, linkVars, menu, sFrequency, now, disturbed>>

-----------------------------------------------------------------------------
(* The world *)

(* Pulled out, whoever has it open; the mode it will come back in is not   *)
(* ours to know.                                                           *)
Unplug ==
  /\ plugged /\ plugged' = FALSE /\ holder' = NoCaller /\ lost' = FALSE
  /\ mode' \in Modes /\ tuned' = 0 /\ bias' = 0 /\ doubt' = TRUE /\ disturbed' = TRUE
  /\ UNCHANGED <<version, flash, cursor, callVars, sFrequency, expiry, now>>

Plug ==
  /\ ~plugged /\ plugged' = TRUE
  /\ UNCHANGED <<version, mode, tuned, bias, flash, cursor, linkVars, callVars, cacheVars>>

(* hid_write fails, or its answer never comes, and hid_read waits.         *)
Lose ==
  /\ holder # NoCaller /\ ~lost /\ pc[holder] # "reset" /\ lost' = TRUE
  /\ UNCHANGED <<deviceVars, holder, callVars, cacheVars>>

Tick ==
  /\ \E c \in Caller : "GetFrequency" \in menu[c]
  /\ now' = (now + 1) % TickMod
  /\ UNCHANGED <<deviceVars, linkVars, callVars, sFrequency, expiry, doubt, disturbed>>

Step(c) ==
  \/ Call(c) \/ Open(c) \/ Query(c) \/ Command(c) \/ Reset(c) \/ Range(c) \/ Address(c)
  \/ LastBlock(c) \/ WriteStep(c) \/ ReadStep(c) \/ BlockRefused(c)
  \/ StoreFrequency(c) \/ Return(c)

Next == (\E c \in Caller : Step(c)) \/ Unplug \/ Plug \/ Lose \/ Tick

Spec == Init /\ [][Next]_vars

(* A thread in a call goes on; nobody need call, and nothing is promised   *)
(* of the world.                                                           *)
GoOn(c) == pc[c] # "idle" /\ Step(c)
FairSpec == Spec /\ \A c \in Caller : WF_vars(GoOn(c))

-----------------------------------------------------------------------------
(* Properties *)

(* The type invariant; the flash holds bytes of an image, none from past   *)
(* its end.                                                                *)
TypeOK ==
  /\ version \in DOMAIN BlockSize /\ plugged \in BOOLEAN /\ mode \in Modes
  /\ tuned \in Frequencies \cup {0} /\ bias \in {0, 1}
  /\ flash \in [Flash -> Cell] /\ cursor \in Nat
  /\ holder \in Caller \cup {NoCaller} /\ lost \in BOOLEAN
  /\ menu \in Menus /\ pc \in [Caller -> Steps]
  /\ op \in [Caller -> AllCalls \cup {"none"}]
  /\ image \in [Caller -> Images \cup {NoImage}]
  /\ value \in [Caller -> Frequencies \cup {0, 1}]
  /\ result \in [Caller -> Modes \cup {"none", "cached"}]
  /\ at \in [Caller -> Nat] /\ file \in [Caller -> Seq(Cell)]
  /\ sFrequency \in Frequencies \cup {0} /\ expiry \in Nat /\ now \in Nat
  /\ doubt \in BOOLEAN /\ disturbed \in BOOLEAN

(* Only a call in a session has the dongle open: no path out of fcd.c, of  *)
(* which every session has one per command, leaves it claimed, which would *)
(* make each later call report that there is no dongle.                    *)
HandleReleased == \A c \in Caller : holder = c => pc[c] \in InSession

(* The call gets this answer, and its dongle was not pulled out meanwhile. *)
Says(c, call, answer) ==
  holder = c /\ op[c] = call /\ pc[c] # "return" /\ pc'[c] = "return" /\ result'[c] = answer

(* The addresses in the whole blocks of an image of n bytes. *)
WholeBlocks(n) ==
  {a \in Flash : \E k \in 0 .. Last : LET b == First + k * Size
                               IN a \in b .. b + Size - 1 /\ b + Size - 1 <= Last /\ Offset(b) + Size <= n}

(* fcdBlWriteFirmwareProg answers FCD_MODE_BL only when each whole block   *)
(* of the image has been written to its place, whoever else calls and      *)
(* however the dongle behaves.  (That no byte past the image's end is ever *)
(* written is the type invariant's.)                                       *)
WriteTold ==
  [][\A c \in Caller : Says(c, "Write", "bl") =>
       \A a \in WholeBlocks(image[c].size) :
         flash'[a] \in {<<image[c].name, Offset(a)>>, Spoilt}]_vars

(* fcdBlVerifyFirmwareProg answers FCD_MODE_BL only when, at that moment,  *)
(* the flash holds each whole block of the image.                          *)
VerifyHonest ==
  [][\A c \in Caller : Says(c, "Verify", "bl") =>
       \A a \in WholeBlocks(image[c].size) : flash'[a] = <<image[c].name, Offset(a)>>]_vars

(* fcdBlSaveFirmwareProg answers FCD_MODE_BL only with a file that would   *)
(* verify: each whole block of flash is at its offset in it.               *)
SaveFaithful ==
  [][\A c \in Caller : Says(c, "Save", "bl") =>
       \A a \in WholeBlocks(Offset(First) + Last - First + 1) :
         Offset(a) < Len(file'[c]) /\ file'[c][Offset(a) + 1] = flash'[a]]_vars

(* Dongle_GetFrequency and Dongle_SetFrequency, when they do not overlap,  *)
(* keep s_frequency equal to the frequency of the dongle, from a success   *)
(* on and until a SetFrequency that may fail or the dongle's going away.   *)
CacheHonest == doubt \/ sFrequency = tuned

(* A call returns unless a command of it was lost: hid_read has no time-out. *)
CallReturns ==
  \A c \in Caller : pc[c] # "idle" ~> (pc[c] = "idle" \/ (holder = c /\ lost))

=============================================================================
