-------------------------- MODULE DataTransProofs --------------------------
(***************************************************************************)
(* Theorems about DataTrans for every page modulus, content size, set of   *)
(* declared lengths, timeout and cycle times.  Every invariant follows     *)
(* from IInv, which is inductive; each way a callback can end has a lemma. *)
(* CoreInv is the part of IInv that survives whatever the application does *)
(* to the block: DataTransClientProofs takes it from here.                 *)
(***************************************************************************)
EXTENDS DataTrans, TLAPS

-----------------------------------------------------------------------------
(* The inductive invariant.                                                *)

\* A new transfer takes back the file received before it.
NothingReadyWhileReceiving == dt_state_ = "DataRecving" => ~data_buff_cmpl

CoreInv ==
  /\ TypeOK
  /\ StillMissing
  /\ ClientToldTheTruth
  /\ PageLimit
  /\ NothingReadyWhileReceiving

IInv == CoreInv /\ BlockHoldsFile

-----------------------------------------------------------------------------
(* Lemmas.                                                                 *)

\* The fields of a packet, by the length that tells its kind.
LEMMA PacketFields ==
  ASSUME NEW pkt \in Packets
  PROVE  /\ pkt.length = "declare" => /\ pkt.data_type \in DataTypes
                                      /\ pkt.data_len \in Nat
         /\ pkt.length = "content" => /\ pkt.page \in 0 .. PageMod - 1
                                      /\ pkt.len \in 0 .. MaxContent
  BY DataLensAssumption DEF Packets, DeclarePackets, ContentPackets, OddPackets

\* Every notification of the service is a response.
LEMMA ResponseTypes ==
  /\ NoResponse \in Responses
  /\ \A n \in Nat : RecvStatus(n) \in Responses
  /\ \A n \in Nat : RecvComplete(n) \in Responses
  /\ \A why \in Reasons : Reject("RejectDeclare", why) \in Responses
  /\ \A why \in Reasons : Reject("RejectContent", why) \in Responses
  BY DEF Responses, RecvStatus, RecvComplete, Reject

\* Responses of different kinds differ.
LEMMA ResponseKinds ==
  /\ \A n : RecvStatus(n).resp = "RecvStatus"
  /\ \A n : RecvComplete(n).resp = "RecvComplete" /\ RecvComplete(n).page = n
  /\ \A kind, why : Reject(kind, why).resp = kind
  BY DEF RecvStatus, RecvComplete, Reject

\* One more page of at most m bytes keeps the bytes below pages times m.
LEMMA OneMorePage ==
  ASSUME NEW p \in Nat, NEW m \in Nat, NEW s \in Nat, NEW l \in 0 .. m,
         s <= p * m
  PROVE  s + l <= (p + 1) * m
  <1>1. (p + 1) * m = p * m + m
    OBVIOUS
  <1>2. p * m \in Nat
    OBVIOUS
  <1> QED
    BY <1>1, <1>2

\* The initial state satisfies the invariant.
LEMMA InitCore == Init => CoreInv
  <1> SUFFICES ASSUME Init PROVE CoreInv
    OBVIOUS
  <1>1. TypeOK
    <2>1. declare_buff \in [data_type: DataTypes, data_len: Nat]
      BY DEF Init, DataTypes
    <2>2. timeout_timer \in 0 .. TimeoutLimit
      BY TimeAssumption DEF Init
    <2>3. resp_buff \in Responses
      BY ResponseTypes DEF Init
    <2> QED
      BY <2>1, <2>2, <2>3 DEF Init, TypeOK
  <1>2. PageLimit
    BY PageModAssumption, MaxContentAssumption DEF Init, PageLimit
  <1>3. StillMissing /\ NothingReadyWhileReceiving
    BY DEF Init, StillMissing, NothingReadyWhileReceiving
  <1>4. ClientToldTheTruth
    BY DEF Init, ClientToldTheTruth, NoResponse
  <1> QED
    BY <1>1, <1>2, <1>3, <1>4 DEF CoreInv

-----------------------------------------------------------------------------
(* The ways onWrite can end.                                               *)

DeclareBuffs == [data_type: DataTypes, data_len: Nat]

\* A rejected declaration.
LEMMA BadDeclareStep ==
  ASSUME CoreInv, dt_state_ = "Init", UNCHANGED state_,
         declare_buff' \in DeclareBuffs,
         NEW why \in Reasons, BadDeclare(why)
  PROVE  CoreInv'
  <1> USE DEF BadDeclare, Fail, Raise, init_state, buffVars, recvVars
  <1>1. resp_buff' \in Responses /\ resp_buff'.resp = "RejectDeclare"
    BY ResponseTypes, ResponseKinds
  <1>2. TypeOK'
    BY <1>1, TimeAssumption DEF CoreInv, TypeOK, DeclareBuffs, Flags
  <1>3. StillMissing' /\ NothingReadyWhileReceiving'
    BY DEF CoreInv, StillMissing, NothingReadyWhileReceiving
  <1>4. ClientToldTheTruth'
    BY <1>1 DEF ClientToldTheTruth
  <1>5. PageLimit'
    BY DEF CoreInv, PageLimit
  <1> QED
    BY <1>2, <1>3, <1>4, <1>5 DEF CoreInv

\* An allocation that fails.
LEMMA AllocFailedStep ==
  ASSUME CoreInv, dt_state_ = "Init", UNCHANGED state_,
         declare_buff' \in DeclareBuffs,
         data_buff_size' \in Nat, data_buff' = 0,
         Fail("PSRAMAllocFailed", "RejectDeclare", "FailedAllocPSRAM"),
         UNCHANGED <<data_buff_cmpl, recvVars>>
  PROVE  CoreInv'
  <1> USE DEF Fail, Raise, init_state, recvVars
  <1>1. resp_buff' \in Responses /\ resp_buff'.resp = "RejectDeclare"
    BY ResponseTypes, ResponseKinds DEF Reasons
  <1>2. TypeOK'
    BY <1>1, TimeAssumption DEF CoreInv, TypeOK, DeclareBuffs, Flags
  <1>3. StillMissing' /\ NothingReadyWhileReceiving'
    BY DEF CoreInv, StillMissing, NothingReadyWhileReceiving
  <1>4. ClientToldTheTruth'
    BY <1>1 DEF ClientToldTheTruth
  <1>5. PageLimit'
    BY DEF CoreInv, PageLimit
  <1> QED
    BY <1>2, <1>3, <1>4, <1>5 DEF CoreInv

\* An accepted declaration, whatever the block it goes with.
LEMMA AcceptDeclareStep ==
  ASSUME CoreInv, UNCHANGED state_, AcceptDeclare,
         declare_buff' \in DeclareBuffs,
         data_buff_size' \in Nat, data_buff' \in Nat
  PROVE  CoreInv'
  <1> USE DEF AcceptDeclare, Raise
  <1>1. /\ resp_buff' \in Responses
        /\ resp_buff' = RecvStatus(0) /\ resp_buff'.resp = "RecvStatus"
    BY ResponseTypes, ResponseKinds
  <1>2. declare_buff'.data_len \in Nat
    BY DEF DeclareBuffs
  <1>3. TypeOK'
    <2>1. timeout_timer' \in 0 .. TimeoutLimit
      BY TimeAssumption
    <2>2. event' \subseteq Flags
      BY DEF CoreInv, TypeOK, Flags
    <2> QED
      BY <1>1, <2>1, <2>2 DEF CoreInv, TypeOK, DeclareBuffs
  <1>4. StillMissing' /\ NothingReadyWhileReceiving'
    BY <1>2 DEF StillMissing, NothingReadyWhileReceiving
  <1>5. ClientToldTheTruth'
    BY <1>1 DEF ClientToldTheTruth
  <1>6. PageLimit'
    BY PageModAssumption, MaxContentAssumption DEF PageLimit
  <1> QED
    BY <1>3, <1>4, <1>5, <1>6 DEF CoreInv

\* A rejected content.
LEMMA BadContentStep ==
  ASSUME CoreInv, UNCHANGED <<state_, declare_buff>>,
         NEW why \in Reasons, BadContent(why)
  PROVE  CoreInv'
  <1> USE DEF BadContent, Fail, Raise, init_state, buffVars, recvVars
  <1>1. resp_buff' \in Responses /\ resp_buff'.resp = "RejectContent"
    BY ResponseTypes, ResponseKinds
  <1>2. TypeOK'
    BY <1>1, TimeAssumption DEF CoreInv, TypeOK, Flags
  <1>3. StillMissing' /\ NothingReadyWhileReceiving'
    BY DEF CoreInv, StillMissing, NothingReadyWhileReceiving
  <1>4. ClientToldTheTruth'
    BY <1>1 DEF ClientToldTheTruth
  <1>5. PageLimit'
    BY DEF CoreInv, PageLimit
  <1> QED
    BY <1>2, <1>3, <1>4, <1>5 DEF CoreInv

\* An accepted content: its page is the next one, so the counters stay within
\* the page's range; then one of the three outcomes of the sum.
LEMMA AcceptContentStep ==
  ASSUME CoreInv, dt_state_ = "DataRecving", UNCHANGED <<state_, declare_buff>>,
         recv_page + 1 \in 0 .. PageMod - 1,
         NEW len \in 0 .. MaxContent, AcceptContent(len)
  PROVE  CoreInv'
  <1> DEFINE sum == data_recv_size + len
  <1>0. /\ recv_page \in Nat /\ data_recv_size \in Nat /\ len \in Nat
        /\ declare_buff.data_len \in Nat
        /\ recv_page' = recv_page + 1 /\ data_recv_size' = sum
        /\ recv_page' \in Nat /\ data_recv_size' \in Nat
    BY MaxContentAssumption DEF CoreInv, TypeOK, AcceptContent
  <1>1. PageLimit'
    <2>1. data_recv_size <= recv_page * MaxContent
      BY DEF CoreInv, PageLimit
    <2>2. data_recv_size + len <= (recv_page + 1) * MaxContent
      BY <1>0, <2>1, MaxContentAssumption, OneMorePage
    <2> QED
      BY <1>0, <2>2, PageModAssumption DEF PageLimit
  <1>2. CASE sum = declare_buff.data_len /\ Complete
    <2> USE <1>0, <1>2 DEF Complete, Raise, init_state
    <2>1. /\ resp_buff' \in Responses /\ resp_buff'.resp = "RecvComplete"
          /\ resp_buff'.page = recv_page + 1
      BY ResponseTypes, ResponseKinds
    <2>2. TypeOK'
      BY <2>1, TimeAssumption DEF CoreInv, TypeOK, Flags, AcceptContent
    <2>3. StillMissing' /\ NothingReadyWhileReceiving'
      BY DEF CoreInv, StillMissing, NothingReadyWhileReceiving,
             AcceptContent
    <2>4. ClientToldTheTruth'
      BY <2>1 DEF ClientToldTheTruth
    <2> QED
      BY <1>1, <2>2, <2>3, <2>4 DEF CoreInv
  <1>3. CASE sum < declare_buff.data_len /\ Continue
    <2> USE <1>0, <1>3 DEF Continue, Raise
    <2>1. /\ resp_buff' \in Responses /\ resp_buff'.resp = "RecvStatus"
          /\ resp_buff' = RecvStatus(recv_page')
      BY ResponseTypes, ResponseKinds
    <2>2. TypeOK'
      BY <2>1, TimeAssumption DEF CoreInv, TypeOK, Flags, AcceptContent
    <2>3. StillMissing' /\ NothingReadyWhileReceiving'
      BY DEF CoreInv, StillMissing, NothingReadyWhileReceiving,
             AcceptContent
    <2>4. ClientToldTheTruth'
      BY <2>1 DEF ClientToldTheTruth
    <2> QED
      BY <1>1, <2>2, <2>3, <2>4 DEF CoreInv
  <1>4. CASE sum > declare_buff.data_len /\ TooLarge
    <2> USE <1>0, <1>4 DEF TooLarge, Fail, Raise, init_state
    <2>1. resp_buff' \in Responses /\ resp_buff'.resp = "RejectContent"
      BY ResponseTypes, ResponseKinds DEF Reasons
    <2>2. TypeOK'
      BY <2>1, TimeAssumption DEF CoreInv, TypeOK, Flags, AcceptContent
    <2>3. StillMissing' /\ NothingReadyWhileReceiving'
      BY DEF CoreInv, StillMissing, NothingReadyWhileReceiving,
             AcceptContent
    <2>4. ClientToldTheTruth'
      BY <2>1 DEF ClientToldTheTruth
    <2> QED
      BY <1>1, <2>2, <2>3, <2>4 DEF CoreInv
  <1> QED
    BY <1>2, <1>3, <1>4 DEF AcceptContent

-----------------------------------------------------------------------------
(* The callbacks.                                                          *)

LEMMA DeclareWrite ==
  ASSUME CoreInv, dt_state_ = "Init", UNCHANGED state_,
         NEW pkt \in Packets, analyze_rx_init(pkt)
  PROVE  CoreInv'
  <1>1. \A why \in {"InvalidPacketLength", "InvalidCommand", "InvalidDataType"} :
          why \in Reasons
    BY DEF Reasons
  <1>2. CASE pkt.length # "declare"
    <2>1. declare_buff' \in DeclareBuffs
      BY <1>2 DEF analyze_rx_init, CoreInv, TypeOK, DeclareBuffs
    <2>2. BadDeclare("InvalidPacketLength")
      BY <1>2 DEF analyze_rx_init
    <2> QED
      BY <1>1, <2>1, <2>2, BadDeclareStep
  <1>3. CASE pkt.length = "declare"
    <2>1. /\ declare_buff' = [data_type |-> pkt.data_type,
                              data_len |-> pkt.data_len]
          /\ declare_buff' \in DeclareBuffs
          /\ pkt.data_len \in Nat
      BY <1>3, PacketFields DEF analyze_rx_init, DeclareBuffs
    <2>2. CASE BadDeclare("InvalidCommand") \/ BadDeclare("InvalidDataType")
      BY <1>1, <2>1, <2>2, BadDeclareStep
    <2>3. CASE Allocate(pkt)
      <3>1. data_buff_size' = pkt.data_len
        BY <2>3 DEF Allocate
      <3>2. CASE data_buff' = pkt.data_len /\ AcceptDeclare
        BY <2>1, <3>1, <3>2, AcceptDeclareStep
      <3>3. CASE /\ data_buff' = 0
                 /\ Fail("PSRAMAllocFailed", "RejectDeclare", "FailedAllocPSRAM")
                 /\ UNCHANGED <<data_buff_cmpl, recvVars>>
        BY <2>1, <3>1, <3>3, AllocFailedStep
      <3> QED
        BY <2>3, <3>2, <3>3 DEF Allocate
    <2>4. CASE Reuse(pkt)
      <3>1. AcceptDeclare /\ data_buff_size' \in Nat /\ data_buff' \in Nat
        BY <2>4 DEF Reuse, CoreInv, TypeOK
      <3> QED
        BY <2>1, <3>1, AcceptDeclareStep
    <2> QED
      BY <1>3, <2>2, <2>3, <2>4 DEF analyze_rx_init
  <1> QED
    BY <1>2, <1>3

LEMMA ContentWrite ==
  ASSUME CoreInv, dt_state_ = "DataRecving", UNCHANGED state_,
         NEW pkt \in Packets, analyze_rx_data_recving(pkt)
  PROVE  CoreInv'
  <1>1. \A why \in {"InvalidPacketLength", "InvalidCommand", "InvalidPageNo",
                    "InvalidDataType"} : why \in Reasons
    BY DEF Reasons
  <1>2. UNCHANGED declare_buff
    BY DEF analyze_rx_data_recving
  <1>3. CASE \E why \in {"InvalidPacketLength", "InvalidCommand",
                         "InvalidPageNo", "InvalidDataType"} : BadContent(why)
    BY <1>1, <1>2, <1>3, BadContentStep
  <1>4. CASE /\ pkt.length = "content"
             /\ IsNextPage(pkt)
             /\ AcceptContent(pkt.len)
    <2>1. pkt.len \in 0 .. MaxContent /\ recv_page + 1 \in 0 .. PageMod - 1
      BY <1>4, PacketFields DEF IsNextPage
    <2> QED
      BY <1>2, <1>4, <2>1, AcceptContentStep
  <1> QED
    BY <1>3, <1>4 DEF analyze_rx_data_recving

LEMMA WriteStep ==
  ASSUME CoreInv, NEW pkt \in Packets, onWrite(pkt)
  PROVE  CoreInv'
  BY DeclareWrite, ContentWrite DEF onWrite

\* A crash brings back the initial state.
LEMMA CrashStep ==
  ASSUME NEW pkt, CrashingWrite(pkt)
  PROVE  Init' /\ CoreInv'
  <1>1. Init'
    BY DEF CrashingWrite, Reboot, Init
  <1>2. (Init => CoreInv)'
    BY InitCore, PTL
  <1> QED
    BY <1>1, <1>2

\* A cycle of the loop, which may end the transfer but no bookkeeping.
LEMMA PollingStep ==
  ASSUME CoreInv, NEW cycle_ms \in Cycles, polling(cycle_ms)
  PROVE  CoreInv'
  <1> USE DEF polling, buffVars, recvVars
  <1>1. dt_state_ = "DataRecving" /\ timeout_timer + cycle_ms \in Nat
    BY TimeAssumption DEF CoreInv, TypeOK
  <1>2. /\ timeout_timer' \in 0 .. TimeoutLimit
        /\ event' \subseteq Flags
        /\ dt_state_' \in {"Init", "DataRecving"}
    <2>1. CASE timeout_timer + cycle_ms > TimeoutLimit
      <3>1. Raise("DataRecvTimeout") /\ init_state
        BY <2>1, <1>1, TimeAssumption
      <3> QED
        BY <3>1, TimeAssumption DEF CoreInv, TypeOK, Raise, init_state, Flags
    <2>2. CASE timeout_timer + cycle_ms <= TimeoutLimit
      <3>1. /\ timeout_timer' = timeout_timer + cycle_ms
            /\ UNCHANGED <<event, dt_state_>>
        BY <2>2, <1>1, TimeAssumption
      <3> QED
        BY <2>2, <3>1, <1>1, TimeAssumption DEF CoreInv, TypeOK
    <2> QED
      BY <2>1, <2>2, <1>1, TimeAssumption
  <1>3. TypeOK'
    BY <1>2 DEF CoreInv, TypeOK
  <1>4. /\ StillMissing' /\ NothingReadyWhileReceiving'
        /\ ClientToldTheTruth' /\ PageLimit'
    BY <1>1, <1>2 DEF CoreInv, StillMissing, ClientToldTheTruth,
                      NothingReadyWhileReceiving, PageLimit
  <1> QED
    BY <1>3, <1>4 DEF CoreInv

\* get_event, start and stop leave the transfer and its buffer alone.
LEMMA OtherCallsStep ==
  ASSUME CoreInv, get_event \/ start \/ stop \/ UNCHANGED vars
  PROVE  CoreInv'
  <1> USE DEF get_event, start, stop, vars, buffVars, recvVars
  <1>1. /\ state_' \in {"Init", "Active", "Stop"} /\ event' \subseteq Flags
        /\ UNCHANGED <<dt_state_, timeout_timer, declare_buff, data_buff,
                       data_buff_size, data_buff_cmpl, recv_page,
                       data_recv_size, resp_buff>>
    BY DEF CoreInv, TypeOK
  <1>2. TypeOK'
    BY <1>1 DEF CoreInv, TypeOK
  <1>3. /\ StillMissing' /\ NothingReadyWhileReceiving'
        /\ ClientToldTheTruth' /\ PageLimit'
    BY <1>1 DEF CoreInv, StillMissing, ClientToldTheTruth,
                NothingReadyWhileReceiving, PageLimit
  <1> QED
    BY <1>2, <1>3 DEF CoreInv

LEMMA CoreNext == CoreInv /\ [Next]_vars => CoreInv'
  BY WriteStep, CrashStep, PollingStep, OtherCallsStep DEF Next, Polling

-----------------------------------------------------------------------------
(* The block.                                                              *)

\* A declaration that enters DataRecving leaves a block large enough: the new
\* one has the declared length, a reused one at least that.
LEMMA DeclareBlock ==
  ASSUME CoreInv, data_buff \in {0, data_buff_size}, dt_state_ = "Init",
         NEW pkt \in Packets, analyze_rx_init(pkt)
  PROVE  BlockHoldsFile'
  <1>1. CASE \E why \in Reasons : BadDeclare(why)
    BY <1>1 DEF BadDeclare, Fail, init_state, buffVars, BlockHoldsFile
  <1>2. CASE pkt.length = "declare" /\ (Allocate(pkt) \/ Reuse(pkt))
    <2>1. declare_buff'.data_len = pkt.data_len /\ pkt.data_len \in Nat
      BY <1>2, PacketFields DEF analyze_rx_init
    <2>2. CASE Allocate(pkt)
      BY <2>1, <2>2 DEF Allocate, Fail, init_state, BlockHoldsFile
    <2>3. CASE Reuse(pkt)
      BY <2>1, <2>3 DEF Reuse, NeedsAlloc, CoreInv, TypeOK, BlockHoldsFile
    <2> QED
      BY <1>2, <2>2, <2>3
  <1> QED
    BY <1>1, <1>2 DEF analyze_rx_init, Reasons

\* Nothing else of the service touches the block, or enters DataRecving.
LEMMA BlockStays ==
  ASSUME BlockHoldsFile,
         \/ \E pkt \in Packets : dt_state_ = "DataRecving" /\ onWrite(pkt)
         \/ Polling \/ get_event \/ start \/ stop \/ UNCHANGED vars
  PROVE  BlockHoldsFile'
  <1>1. UNCHANGED <<data_buff, data_buff_size, declare_buff>>
    BY DEF onWrite, analyze_rx_data_recving, BadContent, AcceptContent, Polling,
           polling, get_event, start, stop, vars, buffVars
  <1>2. dt_state_' = "DataRecving" => dt_state_ = "DataRecving"
    BY DEF Polling, polling, init_state, get_event, start, stop, vars
  <1> QED
    BY <1>1, <1>2 DEF BlockHoldsFile

LEMMA WriteBlock ==
  ASSUME CoreInv, BlockHoldsFile, NEW pkt \in Packets, onWrite(pkt)
  PROVE  BlockHoldsFile'
  BY DeclareBlock, BlockStays DEF onWrite, BlockHoldsFile

LEMMA InitBlock == Init => BlockHoldsFile
  BY DEF Init, BlockHoldsFile

LEMMA CrashBlock ==
  ASSUME NEW pkt, CrashingWrite(pkt)
  PROVE  BlockHoldsFile'
  BY DEF CrashingWrite, Reboot, BlockHoldsFile

-----------------------------------------------------------------------------
(* Invariants of the specification.                                        *)

\* The inductive invariant holds in every state of the service.
THEOREM Invariance == Spec => []IInv
  <1>1. Init => IInv
    BY InitCore, InitBlock DEF IInv
  <1>2. IInv /\ [Next]_vars => IInv'
    BY CoreNext, WriteBlock, CrashBlock, BlockStays DEF IInv, Next
  <1> QED
    BY <1>1, <1>2, PTL DEF Spec

\* Every variable keeps its range; timeout_timer never passes the limit.
THEOREM TypeCorrect == Spec => []TypeOK
  <1>1. IInv => TypeOK
    BY DEF IInv, CoreInv
  <1> QED
    BY <1>1, Invariance, PTL

\* A transfer in progress still misses bytes: the completion check of
\* data_trans.cpp:242-265 is never passed over.
THEOREM TransferStillMissing == Spec => []StillMissing
  <1>1. IInv => StillMissing
    BY DEF IInv, CoreInv
  <1> QED
    BY <1>1, Invariance, PTL

\* A block the service owns while receiving is as large as the file declared.
THEOREM BlockLargeEnough == Spec => []BlockHoldsFile
  <1>1. IInv => BlockHoldsFile
    BY DEF IInv
  <1> QED
    BY <1>1, Invariance, PTL

\* The last response a client got is what the service counted.
THEOREM NotificationsAreTrue == Spec => []ClientToldTheTruth
  <1>1. IInv => ClientToldTheTruth
    BY DEF IInv, CoreInv
  <1> QED
    BY <1>1, Invariance, PTL

\* The uint8_t page number never wraps, and bounds the bytes of a transfer.
THEOREM PagesNeverWrap == Spec => []PageLimit
  <1>1. IInv => PageLimit
    BY DEF IInv, CoreInv
  <1> QED
    BY <1>1, Invariance, PTL

-----------------------------------------------------------------------------
(* The service implements Transfer.  A callback does one of these things to *)
(* the transfer; each is a step of Transfer or a stutter.                   *)

Idle == /\ dt_state_ = "Init" /\ dt_state_' = "Init"
        /\ UNCHANGED <<data_buff_cmpl, data_recv_size>>
Waits == /\ dt_state_ = "DataRecving"
         /\ UNCHANGED <<dt_state_, data_buff_cmpl, declare_buff, data_recv_size>>
Begins == /\ dt_state_ = "Init" /\ dt_state_' = "DataRecving"
          /\ data_recv_size' = 0 /\ data_buff_cmpl' = FALSE
Receives == /\ dt_state_ = "DataRecving"
            /\ UNCHANGED <<dt_state_, data_buff_cmpl, declare_buff>>
            /\ data_recv_size <= data_recv_size'
            /\ data_recv_size' < declare_buff.data_len
Finishes == /\ dt_state_ = "DataRecving" /\ dt_state_' = "Init"
            /\ data_buff_cmpl' = TRUE
            /\ UNCHANGED declare_buff
            /\ data_recv_size' = declare_buff.data_len
GivesUp == /\ dt_state_ = "DataRecving" /\ dt_state_' = "Init"
           /\ UNCHANGED data_buff_cmpl

Kinds == Idle \/ Waits \/ Begins \/ Receives \/ Finishes \/ GivesUp

LEMMA DeclareKinds ==
  ASSUME CoreInv, dt_state_ = "Init", NEW pkt \in Packets, analyze_rx_init(pkt)
  PROVE  Idle \/ Begins
  <1>1. CASE \E why \in {"InvalidPacketLength", "InvalidCommand",
                         "InvalidDataType"} : BadDeclare(why)
    BY <1>1 DEF BadDeclare, Fail, init_state, buffVars, recvVars, Idle
  <1>2. CASE AcceptDeclare
    BY <1>2 DEF AcceptDeclare, Begins
  <1>3. CASE /\ Fail("PSRAMAllocFailed", "RejectDeclare", "FailedAllocPSRAM")
             /\ UNCHANGED <<data_buff_cmpl, recvVars>>
    BY <1>3 DEF Fail, init_state, recvVars, Idle
  <1> QED
    BY <1>1, <1>2, <1>3 DEF analyze_rx_init, Allocate, Reuse

LEMMA ContentKinds ==
  ASSUME CoreInv, dt_state_ = "DataRecving", NEW pkt \in Packets,
         analyze_rx_data_recving(pkt)
  PROVE  Receives \/ Finishes \/ GivesUp
  <1>1. UNCHANGED declare_buff
    BY DEF analyze_rx_data_recving
  <1>2. CASE \E why \in {"InvalidPacketLength", "InvalidCommand",
                         "InvalidPageNo", "InvalidDataType"} : BadContent(why)
    BY <1>2 DEF BadContent, Fail, init_state, buffVars, GivesUp
  <1>3. CASE pkt.length = "content" /\ AcceptContent(pkt.len)
    <2>1. pkt.len \in Nat /\ data_recv_size \in Nat
      BY <1>3, PacketFields, MaxContentAssumption DEF CoreInv, TypeOK
    <2> QED
      BY <1>1, <1>3, <2>1
      DEF AcceptContent, Complete, Continue, TooLarge, Fail, init_state,
          Receives, Finishes, GivesUp
  <1> QED
    BY <1>2, <1>3 DEF analyze_rx_data_recving

LEMMA WriteKinds ==
  ASSUME CoreInv, NEW pkt \in Packets, onWrite(pkt)
  PROVE  Kinds
  BY DeclareKinds, ContentKinds DEF onWrite, Kinds

\* A crash gives the transfer up; no file was ready while it went on.
LEMMA CrashKinds ==
  ASSUME CoreInv, NEW pkt, CrashingWrite(pkt)
  PROVE  Kinds
  BY DEF CrashingWrite, Reboot, CoreInv, TypeOK, NothingReadyWhileReceiving, GivesUp, Kinds

LEMMA PollingKinds ==
  ASSUME CoreInv, Polling
  PROVE  Kinds
  BY DEF Polling, polling, init_state, buffVars, recvVars, CoreInv, TypeOK, Kinds,
         Waits, GivesUp

\* What leaves the transfer alone idles or waits.
LEMMA OtherKinds ==
  ASSUME CoreInv, UNCHANGED <<dt_state_, data_buff_cmpl, declare_buff, data_recv_size>>
  PROVE  Kinds
  BY DEF CoreInv, TypeOK, Kinds, Idle, Waits

LEMMA StepKinds == CoreInv /\ [Next]_vars => Kinds
  <1>1. get_event \/ start \/ stop \/ UNCHANGED vars =>
          UNCHANGED <<dt_state_, data_buff_cmpl, declare_buff, data_recv_size>>
    BY DEF get_event, start, stop, vars, buffVars, recvVars
  <1> QED
    BY <1>1, WriteKinds, CrashKinds, PollingKinds, OtherKinds DEF Next

LEMMA InitIsTransfer == Init => Abstract!TInit
  BY DEF Init, Abstract!TInit

LEMMA KindsAreTransfer ==
  ASSUME CoreInv, CoreInv', Kinds
  PROVE  [Abstract!TNext]_Abstract!tvars
  <1> USE DEF CoreInv, TypeOK, NothingReadyWhileReceiving
  <1>0. /\ declare_buff.data_len \in Nat
        /\ declare_buff'.data_len \in Nat
    OBVIOUS
  <1>1. CASE Idle \/ Waits
    BY <1>1 DEF Idle, Waits, Abstract!tvars
  <1>2. CASE Begins
    BY <1>0, <1>2 DEF Begins, Abstract!TNext, Abstract!Begin
  <1>3. CASE Receives
    BY <1>0, <1>3 DEF Receives, Abstract!TNext, Abstract!Receive
  <1>4. CASE Finishes
    BY <1>0, <1>4 DEF Finishes, Abstract!TNext, Abstract!Finish
  <1>5. CASE GivesUp
    BY <1>0, <1>5 DEF GivesUp, Abstract!TNext, Abstract!GiveUp
  <1> QED
    BY <1>1, <1>2, <1>3, <1>4, <1>5 DEF Kinds

\* The service, whatever it is written and however often it is stopped, started
\* or crashed, makes the steps of Transfer only.
THEOREM Refinement == Spec => ImplementsTransfer
  <1>1. Init => Abstract!TInit
    BY InitIsTransfer
  <1>2. IInv /\ IInv' /\ [Next]_vars => [Abstract!TNext]_Abstract!tvars
    BY StepKinds, KindsAreTransfer DEF IInv
  <1> QED
    BY <1>1, <1>2, Invariance, PTL DEF Spec, ImplementsTransfer, Abstract!TSpec
=============================================================================
