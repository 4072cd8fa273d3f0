------------------------ MODULE DataTransClientProofs ------------------------
(***************************************************************************)
(* Theorems about the service between its client and its consumer, for     *)
(* every page modulus, content size, set of file sizes and bound.          *)
(*                                                                         *)
(* The client that follows the protocol is one of the clients of           *)
(* DataTransConsumer: what holds for any client is proved once.  Of the    *)
(* service's own invariants (DataTransProofs) all but BlockHoldsFile       *)
(* survive a consumer that swaps blocks; that one needs a client that      *)
(* leaves a completion to the consumer before it declares again.           *)
(***************************************************************************)
EXTENDS DataTransClient, DataTransProofs

-----------------------------------------------------------------------------
(* Blocks and their sizes, with any client.                                *)

\* A write allocates a block of the size it remembers, or none, or leaves both.
LEMMA WriteKeepsSize ==
  ASSUME NEW pkt, onWrite(pkt), data_buff \in {0, data_buff_size}
  PROVE  data_buff' \in {0, data_buff_size'}
  <1>1. CASE analyze_rx_init(pkt)
    <2>1. CASE Allocate(pkt)
      BY <2>1 DEF Allocate
    <2>2. CASE UNCHANGED <<data_buff, data_buff_size>>
      BY <2>2
    <2> QED
      BY <1>1, <2>1, <2>2 DEF analyze_rx_init, BadDeclare, Reuse, buffVars
  <1>2. CASE analyze_rx_data_recving(pkt)
    BY <1>2 DEF analyze_rx_data_recving, BadContent, AcceptContent, buffVars
  <1> QED
    BY <1>1, <1>2 DEF onWrite

\* The calls of the loop task other than the consumer's leave the block alone.
LEMMA CallsKeepBlock ==
  ASSUME Polling \/ start \/ stop
  PROVE  UNCHANGED buffVars
  BY DEF Polling, polling, start, stop, buffVars

\* Swaps move a block and its size together.
LEMMA BlocksNext ==
  ASSUME SizeFollowsBlock, [ANext]_avars
  PROVE  SizeFollowsBlock'
  <1>1. CASE Service /\ UNCHANGED pngVars
    <2>1. data_buff' \in {0, data_buff_size'}
      BY <1>1, WriteKeepsSize, CallsKeepBlock DEF Service, SizeFollowsBlock, buffVars
    <2> QED
      BY <1>1, <2>1 DEF SizeFollowsBlock, pngVars
  <1>2. CASE check_event_ble_data_trans
    BY <1>2 DEF check_event_ble_data_trans, get_buff, pngVars, SizeFollowsBlock
  <1>3. CASE Crash
    BY <1>3 DEF Crash, CrashingWrite, Reboot, SizeFollowsBlock
  <1>4. CASE UNCHANGED avars
    BY <1>4 DEF avars, vars, pngVars, buffVars, SizeFollowsBlock
  <1> QED
    BY <1>1, <1>2, <1>3, <1>4 DEF ANext

\* On both sides of get_buff the size stays with its block, through any writes,
\* failed allocations and swaps, for any client.
THEOREM SizesFollowBlocks == ASpec => []SizeFollowsBlock
  <1>1. AInit => SizeFollowsBlock
    BY DEF AInit, Init, SizeFollowsBlock
  <1> QED
    BY <1>1, BlocksNext, PTL DEF ASpec

-----------------------------------------------------------------------------
(* The service and any client, whatever the consumer does to the block.    *)

ServiceInv == CoreInv /\ ble_data_png \in Nat /\ ble_data_png_size \in Nat

\* The consumer's look at the events changes the block and the event word only.
LEMMA ConsumerStep ==
  ASSUME ServiceInv, check_event_ble_data_trans
  PROVE  ServiceInv' /\ Kinds
  <1>1. /\ UNCHANGED <<state_, dt_state_, timeout_timer, declare_buff, data_buff_cmpl,
                       recv_page, data_recv_size, resp_buff>>
        /\ event' = {}
    BY DEF check_event_ble_data_trans, recvVars
  <1>2. /\ data_buff' \in Nat /\ data_buff_size' \in Nat
        /\ ble_data_png' \in Nat /\ ble_data_png_size' \in Nat
    BY DEF check_event_ble_data_trans, get_buff, pngVars, ServiceInv, CoreInv, TypeOK
  <1>3. TypeOK'
    BY <1>1, <1>2 DEF ServiceInv, CoreInv, TypeOK
  <1>4. StillMissing' /\ ClientToldTheTruth' /\ PageLimit' /\ NothingReadyWhileReceiving'
    BY <1>1 DEF ServiceInv, CoreInv, StillMissing, ClientToldTheTruth, PageLimit,
                NothingReadyWhileReceiving
  <1> QED
    BY <1>1, <1>2, <1>3, <1>4, OtherKinds DEF ServiceInv, CoreInv

\* The service's own steps, next to the application's block.
LEMMA ServiceStep ==
  ASSUME ServiceInv, Service /\ UNCHANGED pngVars
  PROVE  ServiceInv' /\ Kinds
  <1>1. CoreInv' /\ Kinds
    <2>1. CASE \E pkt \in Packets : onWrite(pkt)
      BY <2>1, WriteStep, WriteKinds DEF ServiceInv
    <2>2. CASE Polling
      BY <2>2, PollingStep, PollingKinds DEF ServiceInv, Polling
    <2>3. CASE start \/ stop
      <3>1. UNCHANGED <<dt_state_, data_buff_cmpl, declare_buff, data_recv_size>>
        BY <2>3 DEF start, stop, buffVars, recvVars
      <3> QED
        BY <2>3, <3>1, OtherCallsStep, OtherKinds DEF ServiceInv
    <2> QED
      BY <2>1, <2>2, <2>3 DEF Service
  <1> QED
    BY <1>1 DEF ServiceInv, pngVars

LEMMA ServiceNext ==
  ASSUME ServiceInv, [ANext]_avars
  PROVE  ServiceInv' /\ Kinds
  <1>1. CASE UNCHANGED avars
    <2>1. UNCHANGED vars /\ UNCHANGED pngVars
      BY <1>1 DEF avars
    <2>2. UNCHANGED <<dt_state_, data_buff_cmpl, declare_buff, data_recv_size>>
      BY <2>1 DEF vars, buffVars, recvVars
    <2> QED
      BY <2>1, <2>2, OtherCallsStep, OtherKinds DEF ServiceInv, pngVars
  <1>2. CASE Crash
    BY <1>2, CrashStep, CrashKinds DEF Crash, ServiceInv
  <1> QED
    BY <1>1, <1>2, ServiceStep, ConsumerStep DEF ANext

\* Types, missing bytes, answers and pages of the service, with any client and
\* through any swaps of the consumer.
THEOREM ServiceInvariance == ASpec => []ServiceInv
  <1>1. AInit => ServiceInv
    BY InitCore DEF AInit, ServiceInv
  <1> QED
    BY <1>1, ServiceNext, PTL DEF ASpec

\* A transfer still misses bytes, answers are true and pages stay in range: the
\* swap that may take a block away mid-transfer leaves the protocol intact.
THEOREM ProtocolSurvivesConsumer ==
  ASpec => [](StillMissing /\ ClientToldTheTruth /\ PageLimit)
  <1>1. ServiceInv => StillMissing /\ ClientToldTheTruth /\ PageLimit
    BY DEF ServiceInv, CoreInv
  <1> QED
    BY <1>1, ServiceInvariance, PTL

\* Service, consumer and any client still make the steps of Transfer only.
THEOREM AnyClientTransfers == ASpec => ImplementsTransfer
  <1>1. AInit => Abstract!TInit
    BY InitIsTransfer DEF AInit
  <1>2. ServiceInv /\ ServiceInv' /\ [ANext]_avars => [Abstract!TNext]_Abstract!tvars
    BY ServiceNext, KindsAreTransfer DEF ServiceInv
  <1> QED
    BY <1>1, <1>2, ServiceInvariance, PTL DEF ASpec, ImplementsTransfer, Abstract!TSpec

-----------------------------------------------------------------------------
(* A client that leaves a completion to the consumer.                      *)

\* A declaration is accepted before the consumer has seen the last completion.
Early ==
  /\ dt_state_ = "Init" /\ dt_state_' = "DataRecving"
  /\ "DataRecvSuccess" \in event

\* What a completion in the event word says of the service.
Announced ==
  /\ "DataRecvSuccess" \in event => dt_state_ = "Init" /\ data_buff_cmpl
  /\ Received => data_recv_size = declare_buff.data_len /\ data_recv_size <= data_buff_size

PatientInv == SizeFollowsBlock /\ BlockHoldsFile /\ Announced

LEMMA PatientDeclare ==
  ASSUME Announced, ~Early, dt_state_ = "Init", NEW pkt \in Packets, analyze_rx_init(pkt)
  PROVE  Announced'
  <1>1. CASE AcceptDeclare
    <2>1. "DataRecvSuccess" \notin event'
      BY <1>1 DEF AcceptDeclare, Early, Raise
    <2> QED
      BY <2>1 DEF Announced, Received
  <1>2. CASE /\ \E flag \in Failures, why \in Reasons : Fail(flag, "RejectDeclare", why)
             /\ UNCHANGED data_buff_cmpl
    <2>1. /\ dt_state_' = "Init" /\ ~Received'
          /\ "DataRecvSuccess" \in event' => "DataRecvSuccess" \in event
      BY <1>2 DEF Fail, Raise, init_state, Failures, Received
    <2> QED
      BY <1>2, <2>1 DEF Announced
  <1>3. \/ AcceptDeclare
        \/ /\ \E flag \in {"DataRecvFailed", "PSRAMAllocFailed"}, why \in Reasons :
                Fail(flag, "RejectDeclare", why)
           /\ UNCHANGED data_buff_cmpl
    BY DEF analyze_rx_init, BadDeclare, Allocate, Reuse, Reasons, buffVars
  <1> QED
    BY <1>1, <1>2, <1>3 DEF Failures

LEMMA PatientContent ==
  ASSUME CoreInv, BlockHoldsFile, Announced, dt_state_ = "DataRecving",
         NEW pkt \in Packets, analyze_rx_data_recving(pkt)
  PROVE  Announced'
  <1>1. "DataRecvSuccess" \notin event
    BY DEF Announced
  <1>2. CASE \E why \in Reasons : BadContent(why)
    BY <1>1, <1>2 DEF BadContent, Fail, Raise, Announced, Received
  <1>3. CASE pkt.length = "content" /\ AcceptContent(pkt.len)
    <2>1. pkt.len \in Nat /\ data_recv_size \in Nat /\ declare_buff.data_len \in Nat
      BY <1>3, PacketFields, MaxContentAssumption DEF CoreInv, TypeOK
    <2>2. CASE Complete /\ data_recv_size + pkt.len = declare_buff.data_len
      BY <1>3, <2>1, <2>2
      DEF Complete, AcceptContent, init_state, Announced, BlockHoldsFile, analyze_rx_data_recving
    <2>3. CASE Continue \/ TooLarge
      BY <1>1, <2>3 DEF Continue, TooLarge, Fail, Raise, Announced, Received
    <2> QED
      BY <1>3, <2>2, <2>3 DEF AcceptContent
  <1> QED
    BY <1>2, <1>3 DEF analyze_rx_data_recving, Reasons

LEMMA PatientNext ==
  ASSUME ServiceInv, PatientInv, [ANext]_avars, ~Early
  PROVE  PatientInv'
  <1> USE DEF PatientInv
  <1>1. SizeFollowsBlock'
    BY BlocksNext
  <1>2. CASE (\E pkt \in Packets : onWrite(pkt)) /\ UNCHANGED pngVars
    BY <1>1, <1>2, WriteBlock, PatientDeclare, PatientContent DEF ServiceInv, onWrite
  <1>3. CASE (Polling \/ start \/ stop) /\ UNCHANGED pngVars
    <2>1. BlockHoldsFile'
      BY <1>3, BlockStays
    <2>2. CASE Polling
      BY <1>1, <2>1, <2>2 DEF Polling, polling, init_state, Raise, buffVars, recvVars, Announced,
                              Received, ServiceInv, CoreInv, TypeOK
    <2>3. CASE start \/ stop
      BY <1>1, <2>1, <2>3 DEF start, stop, buffVars, recvVars, Announced, Received
    <2> QED
      BY <1>3, <2>2, <2>3
  <1>4. CASE check_event_ble_data_trans
    <2>1. event' = {} /\ UNCHANGED <<dt_state_, declare_buff>>
      BY <1>4 DEF check_event_ble_data_trans
    <2>2. BlockHoldsFile'
      BY <1>1, <1>4, <2>1 DEF check_event_ble_data_trans, BlockHoldsFile, SizeFollowsBlock,
                              Received, Announced
    <2> QED
      BY <1>1, <2>1, <2>2 DEF Announced, Received
  <1>5. CASE UNCHANGED avars
    BY <1>1, <1>5 DEF avars, vars, buffVars, recvVars, BlockHoldsFile, Announced, Received
  <1>6. CASE Crash
    BY <1>1, <1>6, CrashBlock DEF Crash, CrashingWrite, Reboot, Announced, Received
  <1> QED
    BY <1>2, <1>3, <1>4, <1>5, <1>6 DEF ANext, Service

\* While no declaration is accepted before the consumer has seen the completion
\* before it, a swap never takes a block away from a transfer, and the size the
\* consumer is given is large enough for a file received whole (main.cpp:357-361).
THEOREM PatientClientKeepsBlocks ==
  ASpec /\ [][~Early]_avars => []PatientInv
  <1>1. AInit => PatientInv
    BY InitBlock DEF AInit, Init, PatientInv, SizeFollowsBlock, Announced, Received
  <1>2. PatientInv /\ ServiceInv /\ [ANext]_avars /\ [~Early]_avars => PatientInv'
    <2> SUFFICES ASSUME PatientInv, ServiceInv, [ANext]_avars, [~Early]_avars PROVE PatientInv'
      OBVIOUS
    <2>1. ~Early
      <3>1. UNCHANGED avars => dt_state_' = dt_state_
        BY DEF avars, vars
      <3> QED
        BY <3>1 DEF Early
    <2> QED
      BY <2>1, PatientNext
  <1> QED
    BY <1>1, <1>2, ServiceInvariance, PTL DEF ASpec

-----------------------------------------------------------------------------
(* The client of the protocol.                                             *)

\* The file being sent, and what the two counters of the client mean.
ClientInv ==
  /\ client \in {"idle", "sending", "done"}
  /\ file \in Files
  /\ client = "sending" =>
       /\ sent_page \in Nat /\ sent_len = sent_page * BodyLen /\ sent_len < file
       /\ dt_state_ = "DataRecving" =>
            /\ sent_page = recv_page /\ sent_len = data_recv_size
            /\ declare_buff = [data_type |-> "file_PNG", data_len |-> file]
  /\ client = "done" =>
       /\ dt_state_ = "Init" /\ data_buff_cmpl
       /\ data_recv_size = file

\* Every file has a length that clients declare, above 0.
LEMMA FileSize ==
  ASSUME NEW len \in Files
  PROVE  len \in DataLens /\ len \in Nat /\ len > 0
  <1>1. len \in DataLens \ {0}
    BY ClientAssumption
  <1>2. len \in DataLens /\ len \in Nat /\ len # 0
    BY <1>1, DataLensAssumption
  <1>3. \A n \in Nat : n # 0 => n > 0
    OBVIOUS
  <1> QED
    BY <1>2, <1>3

\* A page is full, or the file ends with it.
LEMMA PageLength ==
  ASSUME NEW p \in Nat, NEW f \in Nat, p * BodyLen < f
  PROVE  LET l == Least(BodyLen, f - p * BodyLen) IN
         /\ l \in 1 .. MaxContent
         /\ p * BodyLen + l <= f
         /\ p * BodyLen + l < f => p * BodyLen + l = (p + 1) * BodyLen
  <1>1. BodyLen \in Nat /\ BodyLen > 0 /\ BodyLen <= MaxContent /\ MaxContent \in Nat
    BY ClientAssumption, MaxContentAssumption
  <1>2. p * BodyLen \in Nat /\ (p + 1) * BodyLen = p * BodyLen + BodyLen
    BY <1>1
  <1> QED
    BY <1>1, <1>2 DEF Least

\* What a write of content does to a service that waits for a declaration.
LEMMA ContentToIdle ==
  ASSUME NEW page, NEW len, dt_state_ = "Init", onWrite(ContentOf(page, len))
  PROVE  resp_buff'.resp = "RejectDeclare" /\ dt_state_' = "Init"
  BY DEF onWrite, ContentOf, analyze_rx_init, BadDeclare, Fail, Reject, init_state

\* What a write of content does to a service that receives.
LEMMA ContentToReceiver ==
  ASSUME NEW page, NEW len, dt_state_ = "DataRecving", onWrite(ContentOf(page, len)),
         data_recv_size \in Nat, len \in Nat, declare_buff.data_len \in Nat
  PROVE  /\ UNCHANGED declare_buff
         /\ \/ /\ resp_buff'.resp = "RejectContent" /\ dt_state_' = "Init"
               /\ \/ /\ page % PageMod # recv_page + 1
                     /\ resp_buff'.reason = "InvalidPageNo"
                  \/ declare_buff.data_type # "file_PNG"
                  \/ data_recv_size + len > declare_buff.data_len
            \/ /\ page % PageMod = recv_page + 1
               /\ data_recv_size' = data_recv_size + len /\ recv_page' = recv_page + 1
               /\ \/ /\ data_recv_size' = declare_buff.data_len
                     /\ resp_buff'.resp = "RecvComplete"
                     /\ dt_state_' = "Init" /\ data_buff_cmpl'
                  \/ /\ data_recv_size' < declare_buff.data_len
                     /\ resp_buff'.resp = "RecvStatus" /\ dt_state_' = "DataRecving"
  <1> DEFINE pkt == ContentOf(page, len)
  <1>1. analyze_rx_data_recving(pkt)
    BY DEF onWrite
  <1>2. /\ pkt.length = "content" /\ pkt.cmnd = "DataContent"
        /\ pkt.data_type = "file_PNG" /\ pkt.page = page % PageMod /\ pkt.len = len
    BY DEF ContentOf
  <1> HIDE DEF pkt
  <1>3. UNCHANGED declare_buff
    BY <1>1 DEF analyze_rx_data_recving
  <1>4. CASE IsNextPage(pkt) /\ AcceptContent(len)
    <2>0. page % PageMod = recv_page + 1
      BY <1>2, <1>4 DEF IsNextPage
    <2>1. CASE data_recv_size + len > declare_buff.data_len
      BY <1>3, <1>4, <2>1
         DEF AcceptContent, Complete, Continue, TooLarge, Fail, Reject, init_state
    <2>2. CASE data_recv_size + len = declare_buff.data_len
      BY <1>3, <1>4, <2>0, <2>2 DEF AcceptContent, Complete, RecvComplete, init_state
    <2>3. CASE data_recv_size + len < declare_buff.data_len
      BY <1>3, <1>4, <2>0, <2>3 DEF AcceptContent, Continue, RecvStatus
    <2> QED
      BY <2>1, <2>2, <2>3
  <1>5. CASE ~IsNextPage(pkt) /\ BadContent("InvalidPageNo")
    BY <1>2, <1>3, <1>5 DEF BadContent, Fail, Reject, init_state, IsNextPage
  <1>6. CASE pkt.data_type # declare_buff.data_type /\ BadContent("InvalidDataType")
    BY <1>2, <1>3, <1>6 DEF BadContent, Fail, Reject, init_state
  <1> QED
    BY <1>1, <1>2, <1>4, <1>5, <1>6 DEF analyze_rx_data_recving

\* What a declaration does.
LEMMA DeclareAnswered ==
  ASSUME NEW len, onWrite(DeclareOf(len))
  PROVE  \/ /\ resp_buff'.resp \in {"RejectDeclare", "RejectContent"}
            /\ dt_state_' = "Init"
         \/ /\ resp_buff'.resp = "RecvStatus" /\ dt_state_' = "DataRecving"
            /\ recv_page' = 0 /\ data_recv_size' = 0
            /\ declare_buff' = [data_type |-> "file_PNG", data_len |-> len]
  <1> DEFINE pkt == DeclareOf(len)
  <1>1. /\ pkt.length = "declare" /\ pkt.cmnd = "DataDeclare"
        /\ pkt.data_type = "file_PNG" /\ pkt.data_len = len
    BY DEF DeclareOf
  <1> HIDE DEF pkt
  <1>2. CASE analyze_rx_init(pkt)
    <2>1. declare_buff' = [data_type |-> "file_PNG", data_len |-> len]
      BY <1>1, <1>2 DEF analyze_rx_init
    <2>2. Allocate(pkt) \/ Reuse(pkt)
      BY <1>1, <1>2 DEF analyze_rx_init
    <2>3. AcceptDeclare \/ Fail("PSRAMAllocFailed", "RejectDeclare", "FailedAllocPSRAM")
      BY <2>2 DEF Allocate, Reuse
    <2> QED
      BY <2>1, <2>3 DEF AcceptDeclare, RecvStatus, Fail, Reject, init_state
  <1>3. CASE analyze_rx_data_recving(pkt)
    BY <1>1, <1>3 DEF analyze_rx_data_recving, BadContent, Fail, Reject, init_state
  <1> QED
    BY <1>2, <1>3 DEF onWrite, pkt

\* The invariant through a declaration.
LEMMA DeclareStep ==
  ASSUME ClientInv, Declare
  PROVE  ClientInv'
  <1>1. file \in Nat /\ file > 0 /\ file' = file
    BY FileSize DEF ClientInv, Declare
  <1>2. sent_page' = 0 /\ sent_len' = 0 /\ 0 = 0 * BodyLen
    BY ClientAssumption, MaxContentAssumption DEF Declare
  <1>3. CASE resp_buff'.resp = "RecvStatus"
    BY <1>1, <1>2, <1>3, DeclareAnswered DEF Declare, Heed, ClientInv
  <1>4. CASE resp_buff'.resp # "RecvStatus"
    <2>1. client' = "idle"
      BY <1>4, DeclareAnswered DEF Declare, Heed
    <2> QED
      BY <1>1, <2>1 DEF ClientInv
  <1> QED
    BY <1>3, <1>4

\* The length of the page to be sent.
LEMMA NextPageLength ==
  ASSUME ClientInv, client = "sending"
  PROVE  /\ PageLen \in 1 .. MaxContent /\ PageLen \in Nat /\ sent_len \in Nat
         /\ sent_len + PageLen <= file
         /\ sent_len + PageLen < file => sent_len + PageLen = (sent_page + 1) * BodyLen
  <1>1. /\ file \in Nat /\ sent_page \in Nat
        /\ sent_len = sent_page * BodyLen /\ sent_len < file
    BY FileSize DEF ClientInv
  <1>2. BodyLen \in Nat
    BY ClientAssumption, MaxContentAssumption
  <1>3. sent_page * BodyLen \in Nat
    BY <1>1, <1>2
  <1> QED
    BY <1>1, <1>3, PageLength, MaxContentAssumption DEF PageLen

\* The invariant through a page; a page is accepted only if its number can be
\* expressed, and refused as content only if it cannot.
LEMMA SendPageStep ==
  ASSUME ClientInv, SendPage
  PROVE  /\ ClientInv'
         /\ sent_page' = sent_page + 1 /\ sent_page \in Nat
         /\ client' \in {"sending", "done"} => sent_page + 1 < PageMod
         /\ resp_buff'.resp = "RejectContent" =>
              /\ ~(sent_page + 1 < PageMod)
              /\ resp_buff'.reason = "InvalidPageNo"
  <1>1. /\ file \in Nat /\ file' = file /\ file \in Files /\ client = "sending"
        /\ sent_page \in Nat /\ sent_len = sent_page * BodyLen /\ sent_len < file
    BY FileSize DEF ClientInv, SendPage
  <1> DEFINE len == PageLen
  <1>2. /\ len \in 1 .. MaxContent /\ len \in Nat /\ sent_len \in Nat
        /\ sent_len + len <= file
        /\ sent_len + len < file => sent_len + len = (sent_page + 1) * BodyLen
    BY <1>1, NextPageLength
  <1>3. /\ onWrite(ContentOf(sent_page + 1, len))
        /\ sent_len' = sent_len + len /\ sent_page' = sent_page + 1 /\ Heed
    BY DEF SendPage, NextPage
  <1> HIDE DEF len
  <1>4. CASE dt_state_ = "Init"
    <2>1. resp_buff'.resp = "RejectDeclare" /\ client' = "idle"
      BY <1>3, <1>4, ContentToIdle DEF Heed
    <2> QED
      BY <1>1, <1>3, <2>1 DEF ClientInv
  <1>5. CASE dt_state_ = "DataRecving"
    <2>1. /\ sent_page = recv_page /\ sent_len = data_recv_size
          /\ declare_buff.data_len = file /\ declare_buff.data_type = "file_PNG"
          /\ declare_buff = [data_type |-> "file_PNG", data_len |-> file]
      BY <1>1, <1>5 DEF ClientInv
    <2>2. CASE resp_buff'.resp = "RejectContent"
      <3>1. client' = "idle"
        BY <1>3, <2>2 DEF Heed
      <3>2. (sent_page + 1) % PageMod # sent_page + 1 /\ resp_buff'.reason = "InvalidPageNo"
        BY <1>1, <1>2, <1>3, <1>5, <2>1, <2>2, ContentToReceiver
      <3>3. ~(sent_page + 1 < PageMod)
        BY <1>1, <3>2, PageModAssumption
      <3> QED
        BY <1>1, <1>3, <3>1, <3>2, <3>3 DEF ClientInv
    <2>3. CASE resp_buff'.resp # "RejectContent"
      <3>1. (sent_page + 1) % PageMod = sent_page + 1
        BY <1>1, <1>2, <1>3, <1>5, <2>1, <2>3, ContentToReceiver
      <3>2. (sent_page + 1) % PageMod < PageMod
        BY <1>1, PageModAssumption
      <3>3. sent_page + 1 < PageMod
        BY <3>1, <3>2
      <3>4. CASE resp_buff'.resp = "RecvComplete"
        <4>1. /\ client' = "done" /\ dt_state_' = "Init" /\ data_buff_cmpl'
              /\ data_recv_size' = file
          BY <1>1, <1>2, <1>3, <1>5, <2>1, <3>4, ContentToReceiver DEF Heed
        <4> QED
          BY <1>1, <1>3, <3>3, <3>4, <4>1 DEF ClientInv
      <3>5. CASE resp_buff'.resp = "RecvStatus"
        <4>1. /\ client' = "sending" /\ UNCHANGED declare_buff
              /\ recv_page' = sent_page' /\ data_recv_size' = sent_len'
              /\ sent_len' < file
          BY <1>1, <1>2, <1>3, <1>5, <2>1, <3>5, ContentToReceiver DEF Heed
        <4>2. sent_len' = sent_page' * BodyLen /\ sent_page' \in Nat
          BY <1>1, <1>2, <1>3, <4>1
        <4>3. ClientInv'
          BY <1>1, <2>1, <4>1, <4>2 DEF ClientInv
        <4> QED
          BY <1>1, <1>3, <3>3, <3>5, <4>3
      <3>6. resp_buff'.resp \in {"RecvComplete", "RecvStatus"}
        BY <1>1, <1>2, <1>3, <1>5, <2>1, <2>3, ContentToReceiver
      <3> QED
        BY <3>4, <3>5, <3>6
    <2> QED
      BY <2>2, <2>3
  <1> QED
    BY <1>3, <1>4, <1>5 DEF onWrite

\* The invariant through everything else.
LEMMA OtherStep ==
  ASSUME ClientInv,
         \/ SendPageCrash \/ NextFile \/ RestartClient \/ LoopCycle \/ TakeEvents
         \/ StartService \/ UNCHANGED cvars
  PROVE  /\ ClientInv'
         /\ \/ client' = "idle" /\ sent_page' = 0
            \/ UNCHANGED <<client, sent_page, resp_buff>>
  <1> USE DEF ClientInv
  <1>1. CASE NextFile
    BY <1>1 DEF NextFile
  <1>2. CASE RestartClient
    BY <1>2 DEF RestartClient
  <1>3. CASE LoopCycle
    BY <1>3 DEF LoopCycle, Polling, polling, init_state, clientVars, pngVars, recvVars,
                buffVars
  <1>4. CASE TakeEvents
    BY <1>4 DEF TakeEvents, check_event_ble_data_trans, clientVars, recvVars
  <1>5. CASE StartService
    BY <1>5 DEF StartService, start, clientVars, recvVars, buffVars
  <1>6. CASE SendPageCrash
    BY <1>6 DEF SendPageCrash
  <1>7. CASE UNCHANGED cvars
    BY <1>7 DEF cvars, avars, vars, clientVars, recvVars, buffVars
  <1> QED
    BY <1>1, <1>2, <1>3, <1>4, <1>5, <1>6, <1>7

\* The invariant of the client, and with it that both sides agree on pages and
\* bytes, through timeouts, restarts and crashes, whichever side noticed them.
THEOREM Agreement == CSpec => [](ClientInv /\ BothSidesAgree)
  <1>1. CInit => ClientInv
    BY DEF CInit, ClientInv
  <1>2. ClientInv /\ [CNext]_cvars => ClientInv'
    BY DeclareStep, SendPageStep, OtherStep DEF CNext
  <1>3. ClientInv => BothSidesAgree
    BY DEF ClientInv, BothSidesAgree
  <1> QED
    BY <1>1, <1>2, <1>3, PTL DEF CSpec

\* Of a client that follows the protocol, whatever the sizes of its files, the
\* pages up to the last number of a uint8_t are accepted and the one after it is
\* refused; no page is refused for anything else (data_trans.cpp:217).
THEOREM PagesUpToTheLastNumber == CSpec => []PagesAccepted
  <1>1. CInit => PagesAccepted
    BY DEF CInit, PagesAccepted
  <1>2. ClientInv /\ PagesAccepted /\ [CNext]_cvars => PagesAccepted'
    <2> SUFFICES ASSUME ClientInv, PagesAccepted, [CNext]_cvars PROVE PagesAccepted'
      OBVIOUS
    <2>1. CASE Declare
      BY <2>1, PageModAssumption DEF Declare, PagesAccepted
    <2>2. CASE SendPage
      <3>1. sent_page < PageMod
        BY <2>2 DEF SendPage, PagesAccepted
      <3> QED
        BY <2>2, <3>1, SendPageStep, PageModAssumption DEF PagesAccepted
    <2>3. CASE \/ SendPageCrash \/ NextFile \/ RestartClient \/ LoopCycle
               \/ TakeEvents \/ StartService \/ UNCHANGED cvars
      BY <2>3, OtherStep DEF PagesAccepted
    <2> QED
      BY <2>1, <2>2, <2>3 DEF CNext
  <1> QED
    BY <1>1, <1>2, Agreement, PTL DEF CSpec

\* The client of the protocol is a client: service, client and consumer together
\* implement service and consumer with any client.
THEOREM ClientIsAClient == CSpec => ASpec
  <1>1. CInit => AInit
    BY DEF CInit
  <1>2. ClientInv /\ [CNext]_cvars => [ANext]_avars
    <2> SUFFICES ASSUME ClientInv, [CNext]_cvars PROVE [ANext]_avars
      OBVIOUS
    <2>1. CASE Declare
      <3>1. DeclareOf(file) \in Packets
        BY FileSize DEF ClientInv, DeclareOf, Packets, DeclarePackets, Commands, DataTypes
      <3> QED
        BY <2>1, <3>1 DEF Declare, ANext, Service
    <2>2. CASE SendPage \/ SendPageCrash
      <3>1. PageLen \in 0 .. MaxContent
        BY <2>2, NextPageLength, MaxContentAssumption DEF SendPage, SendPageCrash
      <3>2. (sent_page + 1) % PageMod \in 0 .. PageMod - 1
        BY <2>2, PageModAssumption DEF ClientInv, SendPage, SendPageCrash
      <3>3. NextPage \in Packets
        BY <3>1, <3>2 DEF NextPage, ContentOf, Packets, ContentPackets, Commands, DataTypes
      <3> QED
        BY <2>2, <3>3 DEF SendPage, SendPageCrash, ANext, Service, Crash
    <2>3. CASE \/ NextFile \/ RestartClient \/ LoopCycle \/ TakeEvents
               \/ StartService \/ UNCHANGED cvars
      BY <2>3 DEF NextFile, RestartClient, LoopCycle, TakeEvents, StartService,
                  cvars, ANext, Service
    <2> QED
      BY <2>1, <2>2, <2>3 DEF CNext
  <1> QED
    BY <1>1, <1>2, Agreement, PTL DEF CSpec, ASpec

\* A block keeps its size with this client as with any.
COROLLARY SizesFollowWithClient == CSpec => []SizeFollowsBlock
  BY ClientIsAClient, SizesFollowBlocks

\* Between client and consumer the service still implements Transfer.
COROLLARY TransferWithClient == CSpec => ImplementsTransfer
  BY ClientIsAClient, AnyClientTransfers

\* What the consumer takes is a file received whole, if the client leaves it the
\* time of one look at the events before it declares again: the early declaration
\* is the only way to the violation of TakenIsReceived.
THEOREM PatientClientIsTaken == CSpec /\ [][~Early]_avars => TakenIsReceived
  <1>1. PatientInv /\ [CNext]_cvars => [TakeEvents /\ pngVars' # pngVars => data_buff_cmpl]_cvars
    BY DEF PatientInv, Announced, Received, TakeEvents, check_event_ble_data_trans
  <1>2. CSpec /\ [][~Early]_avars => []PatientInv
    BY ClientIsAClient, PatientClientKeepsBlocks
  <1> QED
    BY <1>1, <1>2, PTL DEF CSpec, TakenIsReceived
=============================================================================
