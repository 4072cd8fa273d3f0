----------------------------- MODULE DataTrans -----------------------------
(***************************************************************************)
(* The data_trans BLE service of M5PaperS3_app: the receiver of a file     *)
(* that a client declares (total size) and then writes page by page.       *)
(*                                                                         *)
(* Every callback of the service is one action here.  The step-by-step     *)
(* interleaving of the BLE task and the loop task is in DataTransTasks,    *)
(* the application that consumes the file in DataTransConsumer, and a      *)
(* client that follows the protocol in DataTransClient.                    *)
(*                                                                         *)
(* A packet is abstracted to the fields the service reads; event is the    *)
(* set of the flags or-ed into the event word; data_buff is the number of  *)
(* bytes of the block it owns, 0 for the null pointer.                     *)
(*                                                                         *)
(* A definition Name_Fault is not the program's: it is a bug that the      *)
(* properties have to notice when it takes the place of Name.              *)
(***************************************************************************)
EXTENDS Naturals

CONSTANTS
  PageMod,       \* number of values of the uint8_t header.page
  MaxContent,    \* largest value of the uint8_t header.len of a content
  DataLens,      \* values of the uint32_t data_len that clients declare
  TimeoutLimit,  \* timeout_limit, in ms
  Cycles         \* cycle times the loop passes to polling, in ms

ASSUME PageModAssumption == PageMod \in Nat \ {0}
ASSUME MaxContentAssumption == MaxContent \in Nat
ASSUME DataLensAssumption == DataLens \subseteq Nat
ASSUME TimeAssumption == TimeoutLimit \in Nat /\ Cycles \subseteq Nat \ {0}

VARIABLES
  state_,          \* service_state
  dt_state_,       \* data_trans_state (DataRecved is never entered)
  event,           \* pending event flags
  timeout_timer,   \* ms since the last write, as the service counts it
  declare_buff,    \* last declare packet copied
  data_buff,       \* size of the owned PSRAM block, 0: nullptr
  data_buff_size,  \* size the service believes data_buff has
  data_buff_cmpl,  \* has_data()
  recv_page,       \* pages received
  data_recv_size,  \* bytes received
  resp_buff        \* last response notified to the client

buffVars == <<data_buff, data_buff_size, data_buff_cmpl>>
recvVars == <<recv_page, data_recv_size>>
vars == <<state_, dt_state_, event, timeout_timer, declare_buff, buffVars,
          recvVars, resp_buff>>

-----------------------------------------------------------------------------
(* Events, packets and responses.                                          *)

Flags == {"DataRecvStart", "DataRecving", "DataRecvSuccess",
          "DataRecvFailed", "DataRecvTimeout", "PSRAMAllocFailed"}

Commands == {"DataDeclare", "DataContent"}

\* The one data type of the protocol; "MAX" stands for every other value.
DataTypes == {"file_PNG", "MAX"}

\* The length of the written value tells the kinds of packet apart.
DeclarePackets == [length: {"declare"}, cmnd: Commands,
                   data_type: DataTypes, data_len: DataLens]
ContentPackets == [length: {"content"}, cmnd: Commands, data_type: DataTypes,
                   page: 0 .. PageMod - 1, len: 0 .. MaxContent]
OddPackets == [length: {"other"}]
Packets == DeclarePackets \cup ContentPackets \cup OddPackets

Reasons == {"InvalidPacketLength", "InvalidCommand", "InvalidDataType",
            "FailedAllocPSRAM", "InvalidPageNo", "TooLargeDataSize"}

NoResponse == [resp |-> "none"]
RecvStatus(page) == [resp |-> "RecvStatus", page |-> page]
RecvComplete(page) == [resp |-> "RecvComplete", page |-> page]
Reject(kind, why) == [resp |-> kind, reason |-> why]

Responses ==
  {NoResponse}
    \cup [resp: {"RecvStatus", "RecvComplete"}, page: Nat]
    \cup [resp: {"RejectDeclare", "RejectContent"}, reason: Reasons]

-----------------------------------------------------------------------------
(* Helpers shared by the callbacks.                                        *)

Raise(flag) == event' = event \cup {flag}

init_state == dt_state_' = "Init" /\ timeout_timer' = 0

\* The error exit answers, and goes on receiving.
Fail_FaultStays(flag, kind, why) ==
  /\ Raise(flag)
  /\ resp_buff' = Reject(kind, why)
  /\ UNCHANGED dt_state_ /\ timeout_timer' = 0

\* The error exit of both analysers: flag, answer, back to the initial state.
Fail(flag, kind, why) ==
  /\ Raise(flag)
  /\ resp_buff' = Reject(kind, why)
  /\ init_state

-----------------------------------------------------------------------------
(* Writes of the client.                                                   *)

\* Any block is taken to be large enough.
NeedsAlloc_FaultAnyBlock(len) == data_buff_size = 0

NeedsAlloc(len) == data_buff_size < len

\* The page counter of the transfer before is kept.
AcceptDeclare_FaultKeepsPage ==
  /\ Raise("DataRecvStart")
  /\ dt_state_' = "DataRecving"
  /\ data_recv_size' = 0
  /\ UNCHANGED recv_page
  /\ data_buff_cmpl' = FALSE
  /\ resp_buff' = RecvStatus(0)
  /\ timeout_timer' = 0

\* The file of the transfer before is still announced.
AcceptDeclare_FaultKeepsData ==
  /\ Raise("DataRecvStart")
  /\ dt_state_' = "DataRecving"
  /\ data_recv_size' = 0
  /\ recv_page' = 0
  /\ UNCHANGED data_buff_cmpl
  /\ resp_buff' = RecvStatus(0)
  /\ timeout_timer' = 0

\* Enter DataRecving with cleared counters and answer with status page 0.
AcceptDeclare ==
  /\ Raise("DataRecvStart")
  /\ dt_state_' = "DataRecving"
  /\ data_recv_size' = 0
  /\ recv_page' = 0
  /\ data_buff_cmpl' = FALSE
  /\ resp_buff' = RecvStatus(0)
  /\ timeout_timer' = 0

\* The declared length is remembered as the block's size before malloc's
\* result is looked at; the assignment drops the block owned before.
Allocate(pkt) ==
  /\ NeedsAlloc(pkt.data_len)
  /\ data_buff_size' = pkt.data_len
  /\ \/ /\ data_buff' = pkt.data_len
        /\ AcceptDeclare
     \/ /\ data_buff' = 0
        /\ Fail("PSRAMAllocFailed", "RejectDeclare", "FailedAllocPSRAM")
        /\ UNCHANGED <<data_buff_cmpl, recvVars>>

Reuse(pkt) ==
  /\ ~NeedsAlloc(pkt.data_len)
  /\ AcceptDeclare
  /\ UNCHANGED <<data_buff, data_buff_size>>

BadDeclare(why) ==
  /\ Fail("DataRecvFailed", "RejectDeclare", why)
  /\ UNCHANGED <<buffVars, recvVars>>

analyze_rx_init(pkt) ==
  \/ /\ pkt.length # "declare"
     /\ BadDeclare("InvalidPacketLength")
     /\ UNCHANGED declare_buff
  \/ /\ pkt.length = "declare"
     /\ declare_buff' = [data_type |-> pkt.data_type, data_len |-> pkt.data_len]
     /\ \/ pkt.cmnd # "DataDeclare" /\ BadDeclare("InvalidCommand")
        \/ /\ pkt.cmnd = "DataDeclare"
           /\ pkt.data_type = "MAX"
           /\ BadDeclare("InvalidDataType")
        \/ /\ pkt.cmnd = "DataDeclare"
           /\ pkt.data_type # "MAX"
           /\ Allocate(pkt) \/ Reuse(pkt)

BadContent(why) ==
  /\ Fail("DataRecvFailed", "RejectContent", why)
  /\ UNCHANGED <<buffVars, recvVars>>

\* The service goes on receiving after the last content.
Complete_FaultStays ==
  /\ Raise("DataRecvSuccess")
  /\ data_buff_cmpl' = TRUE
  /\ resp_buff' = RecvComplete(recv_page + 1)
  /\ timeout_timer' = 0
  /\ UNCHANGED dt_state_

Complete ==
  /\ Raise("DataRecvSuccess")
  /\ data_buff_cmpl' = TRUE
  /\ resp_buff' = RecvComplete(recv_page + 1)
  /\ init_state

Continue ==
  /\ Raise("DataRecving")
  /\ resp_buff' = RecvStatus(recv_page + 1)
  /\ timeout_timer' = 0
  /\ UNCHANGED <<dt_state_, data_buff_cmpl>>

TooLarge ==
  /\ Fail("DataRecvFailed", "RejectContent", "TooLargeDataSize")
  /\ UNCHANGED data_buff_cmpl

\* The bytes are copied into the block before any sum is looked at.
Fits(len) == len = 0 \/ data_recv_size + len <= data_buff

\* The copy is survived, also past the end of a block if it hits nothing that
\* is missed.  The page is counted, then the sum decides: complete, continue
\* or too large.
AcceptContent(len) ==
  /\ Fits(len) \/ data_buff > 0
  /\ data_recv_size' = data_recv_size + len
  /\ recv_page' = recv_page + 1
  /\ UNCHANGED <<data_buff, data_buff_size>>
  /\ \/ data_recv_size + len = declare_buff.data_len /\ Complete
     \/ data_recv_size + len < declare_buff.data_len /\ Continue
     \/ data_recv_size + len > declare_buff.data_len /\ TooLarge

\* recv_page is as wide as the packet's field.
IsNextPage_FaultWraps(pkt) == (recv_page + 1) % PageMod = pkt.page

\* recv_page is a uint32_t: the comparison with a uint8_t does not wrap.
IsNextPage(pkt) == recv_page + 1 = pkt.page

analyze_rx_data_recving(pkt) ==
  /\ UNCHANGED declare_buff
  /\ \/ pkt.length # "content" /\ BadContent("InvalidPacketLength")
     \/ /\ pkt.length = "content"
        /\ \/ pkt.cmnd # "DataContent" /\ BadContent("InvalidCommand")
           \/ /\ pkt.cmnd = "DataContent"
              /\ ~IsNextPage(pkt)
              /\ BadContent("InvalidPageNo")
           \/ /\ pkt.cmnd = "DataContent"
              /\ IsNextPage(pkt)
              /\ pkt.data_type # declare_buff.data_type
              /\ BadContent("InvalidDataType")
           \/ /\ pkt.cmnd = "DataContent"
              /\ IsNextPage(pkt)
              /\ pkt.data_type = declare_buff.data_type
              /\ AcceptContent(pkt.len)

\* Panic and restart of the device: RAM is initialised again.
Reboot ==
  /\ state_' = "Init"
  /\ dt_state_' = "Init"
  /\ event' = {}
  /\ timeout_timer' = 0
  /\ declare_buff' = [data_type |-> "file_PNG", data_len |-> 0]
  /\ data_buff' = 0
  /\ data_buff_size' = 0
  /\ data_buff_cmpl' = FALSE
  /\ recv_page' = 0
  /\ data_recv_size' = 0
  /\ resp_buff' = NoResponse

\* The write that does not return: its content is accepted and copied through
\* the null pointer, or past the block into what the heap cannot spare.
CrashingWrite(pkt) ==
  /\ state_ = "Active"
  /\ dt_state_ = "DataRecving"
  /\ pkt.length = "content" /\ pkt.cmnd = "DataContent"
  /\ IsNextPage(pkt)
  /\ pkt.data_type = declare_buff.data_type
  /\ ~Fits(pkt.len)
  /\ Reboot

\* The stack delivers writes only to a started service.  Every path leaves
\* timeout_timer at 0: onWrite resets it first.
onWrite(pkt) ==
  /\ state_ = "Active"
  /\ \/ dt_state_ = "Init" /\ analyze_rx_init(pkt)
     \/ dt_state_ = "DataRecving" /\ analyze_rx_data_recving(pkt)
  /\ UNCHANGED state_

-----------------------------------------------------------------------------
(* Calls of the application.                                               *)

\* The timer runs, nobody looks at the limit.
polling_FaultNoLimit(cycle_ms) ==
  /\ dt_state_ # "Init"
  /\ timeout_timer' = timeout_timer + cycle_ms
  /\ UNCHANGED <<state_, event, dt_state_, declare_buff, buffVars, recvVars,
                 resp_buff>>

\* The timeout is reported and the timer reset, but the state is kept.
polling_FaultStays(cycle_ms) ==
  /\ dt_state_ # "Init"
  /\ \/ /\ timeout_timer + cycle_ms > TimeoutLimit
        /\ Raise("DataRecvTimeout")
        /\ timeout_timer' = 0
     \/ /\ timeout_timer + cycle_ms <= TimeoutLimit
        /\ timeout_timer' = timeout_timer + cycle_ms
        /\ UNCHANGED event
  /\ UNCHANGED <<state_, dt_state_, declare_buff, buffVars, recvVars, resp_buff>>

\* One cycle of the loop; it only acts while a transfer is in progress.
polling(cycle_ms) ==
  /\ dt_state_ # "Init"
  /\ \/ /\ timeout_timer + cycle_ms > TimeoutLimit
        /\ Raise("DataRecvTimeout")
        /\ init_state
     \/ /\ timeout_timer + cycle_ms <= TimeoutLimit
        /\ timeout_timer' = timeout_timer + cycle_ms
        /\ UNCHANGED <<event, dt_state_>>
  /\ UNCHANGED <<state_, declare_buff, buffVars, recvVars, resp_buff>>

get_event ==
  /\ event # {}
  /\ event' = {}
  /\ UNCHANGED <<state_, dt_state_, timeout_timer, declare_buff, buffVars,
                 recvVars, resp_buff>>

\* start() and stop() leave the protocol state and the buffer alone; the
\* server starts its services only when they are not running.
start ==
  /\ state_ # "Active"
  /\ state_' = "Active"
  /\ event' = {}
  /\ UNCHANGED <<dt_state_, timeout_timer, declare_buff, buffVars, recvVars,
                 resp_buff>>

stop ==
  /\ state_ = "Active"
  /\ state_' = "Stop"
  /\ UNCHANGED <<dt_state_, event, timeout_timer, declare_buff, buffVars,
                 recvVars, resp_buff>>

-----------------------------------------------------------------------------
Init ==
  /\ state_ = "Init"
  /\ dt_state_ = "Init"
  /\ event = {}
  /\ timeout_timer = 0
  /\ declare_buff = [data_type |-> "file_PNG", data_len |-> 0]
  /\ data_buff = 0
  /\ data_buff_size = 0
  /\ data_buff_cmpl = FALSE
  /\ recv_page = 0
  /\ data_recv_size = 0
  /\ resp_buff = NoResponse

Polling == \E cycle_ms \in Cycles : polling(cycle_ms)

Next ==
  \/ \E pkt \in Packets : onWrite(pkt) \/ CrashingWrite(pkt)
  \/ Polling
  \/ get_event
  \/ start
  \/ stop

Spec == Init /\ [][Next]_vars

\* loop() calls polling in every cycle, for ever.
FairSpec == Spec /\ WF_vars(Polling)

-----------------------------------------------------------------------------
(* Properties.                                                             *)

\* The range of every variable, and of the counters while they count.
TypeOK ==
  /\ state_ \in {"Init", "Active", "Stop"}
  /\ dt_state_ \in {"Init", "DataRecving"}
  /\ event \subseteq Flags
  /\ timeout_timer \in 0 .. TimeoutLimit
  /\ declare_buff \in [data_type: DataTypes, data_len: Nat]
  /\ data_buff \in Nat
  /\ data_buff_size \in Nat
  /\ data_buff_cmpl \in BOOLEAN
  /\ recv_page \in Nat
  /\ data_recv_size \in Nat
  /\ resp_buff \in Responses

\* A transfer in progress still misses bytes (a transfer of 0 bytes misses the
\* content that ends it), so the check in data_trans.cpp:242-265 cannot be
\* passed over, whatever sequence of packets, timeouts and restarts came before.
StillMissing ==
  dt_state_ = "DataRecving" =>
    \/ data_recv_size < declare_buff.data_len
    \/ data_recv_size = 0 /\ declare_buff.data_len = 0

\* While receiving, a block the service owns is at least as large as the file
\* declared: reusing a block (data_trans.cpp:160) never reuses one too small.
\* It may own none: then the first byte of content is a CrashingWrite.
BlockHoldsFile ==
  /\ data_buff \in {0, data_buff_size}
  /\ dt_state_ = "DataRecving" =>
       declare_buff.data_len <= data_buff_size

\* What the client was told last is what the service counted: a page number
\* while receiving, completion only for a file received whole.
ClientToldTheTruth ==
  /\ dt_state_ = "DataRecving" => resp_buff = RecvStatus(recv_page)
  /\ resp_buff.resp = "RecvComplete" =>
       /\ data_buff_cmpl
       /\ data_recv_size = declare_buff.data_len
       /\ resp_buff.page = recv_page

\* header.page is a uint8_t that never wraps: at most PageMod - 1 pages are
\* accepted and each brings at most MaxContent bytes, so no more than
\* (PageMod - 1) * MaxContent bytes can ever be received in one transfer.
PageLimit ==
  /\ recv_page <= PageMod - 1
  /\ data_recv_size <= recv_page * MaxContent

\* The service as a Transfer.  Every way a callback can end -- a length, a
\* command, a page, a type, a size that is wrong, a crash, a timeout, a restart
\* of the service -- is a transfer given up or no step at all, and has_data() only
\* turns true by a transfer that received exactly the length it began with.
Abstract ==
  INSTANCE Transfer WITH
    receiving <- dt_state_ = "DataRecving",
    need <- IF dt_state_ = "DataRecving" THEN declare_buff.data_len
            ELSE IF data_buff_cmpl THEN data_recv_size ELSE 0,
    got <- IF dt_state_ = "DataRecving" \/ data_buff_cmpl
           THEN data_recv_size ELSE 0,
    ready <- data_buff_cmpl

ImplementsTransfer == Abstract!TSpec

\* A client that goes silent, or that only ever writes pages that bring
\* nothing, does not keep the service receiving for ever: it returns to the
\* state in which a new declaration is accepted (data_trans.cpp:88-98, 217).
ReceivingEnds == dt_state_ = "DataRecving" ~> dt_state_ = "Init"
=============================================================================
