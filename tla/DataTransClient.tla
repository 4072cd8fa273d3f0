--------------------------- MODULE DataTransClient ---------------------------
(***************************************************************************)
(* The data_trans service between a client that follows its protocol and   *)
(* the consumer of main.cpp.  The client declares a file, waits for the    *)
(* status, writes the next page, and so on until the service answers that  *)
(* the file is complete; then it begins with another one.  A rejected      *)
(* client starts over; it may also be restarted, or be so slow that the    *)
(* service times out.  A write that crashes the device breaks the link,    *)
(* and the client starts over as well.  The client is not part of the      *)
(* repository: it is what data_trans expects of one.                       *)
(*                                                                         *)
(* A write and its notification are one step: the link delivers both in    *)
(* order and the client waits for the answer.                              *)
(***************************************************************************)
EXTENDS DataTransConsumer

CONSTANTS
  BodyLen,      \* data bytes of a full content packet
  Files,        \* sizes of the client's files
  MaxPolls,     \* bound on the cycles of the loop that find the client idle
  MaxRestarts   \* bound on the restarts of the client

ASSUME ClientAssumption ==
  /\ BodyLen \in 1 .. MaxContent
  /\ Files \subseteq DataLens \ {0} /\ Files # {}
  /\ MaxPolls \in Nat
  /\ MaxRestarts \in Nat

VARIABLES
  client,     \* phase of the client
  file,       \* size of the file being sent
  sent_page,  \* pages written in this attempt
  sent_len,   \* bytes written in this attempt
  polls, restarts

clientVars == <<client, file, sent_page, sent_len>>
cvars == <<avars, clientVars, polls, restarts>>

Least(a, b) == IF a < b THEN a ELSE b

DeclareOf(len) == [length |-> "declare", cmnd |-> "DataDeclare",
                   data_type |-> "file_PNG", data_len |-> len]

ContentOf(page, len) == [length |-> "content", cmnd |-> "DataContent",
                         data_type |-> "file_PNG", page |-> page % PageMod,
                         len |-> len]

\* What the client makes of the answer to its write.
Heed == client' = CASE resp_buff'.resp = "RecvStatus" -> "sending"
                    [] resp_buff'.resp = "RecvComplete" -> "done"
                    [] OTHER -> "idle"

Declare ==
  /\ client = "idle"
  /\ onWrite(DeclareOf(file))
  /\ Heed
  /\ sent_page' = 0 /\ sent_len' = 0
  /\ UNCHANGED <<file, pngVars, polls, restarts>>

PageLen == Least(BodyLen, file - sent_len)
NextPage == ContentOf(sent_page + 1, PageLen)

SendPage ==
  /\ client = "sending"
  /\ onWrite(NextPage)
  /\ sent_page' = sent_page + 1 /\ sent_len' = sent_len + PageLen
  /\ Heed
  /\ UNCHANGED <<file, pngVars, polls, restarts>>

\* The page is the end of the device, and of the link.
SendPageCrash ==
  /\ client = "sending"
  /\ CrashingWrite(NextPage)
  /\ ble_data_png' = 0 /\ ble_data_png_size' = 0
  /\ client' = "idle"
  /\ sent_page' = 0 /\ sent_len' = 0
  /\ UNCHANGED <<file, polls, restarts>>

NextFile ==
  /\ client = "done"
  /\ file' \in Files
  /\ client' = "idle"
  /\ sent_page' = 0 /\ sent_len' = 0
  /\ UNCHANGED <<avars, polls, restarts>>

\* The client loses its place; the service is not told.
RestartClient ==
  /\ client = "sending"
  /\ restarts < MaxRestarts
  /\ restarts' = restarts + 1
  /\ client' = "idle"
  /\ sent_page' = 0 /\ sent_len' = 0
  /\ UNCHANGED <<avars, file, polls>>

LoopCycle ==
  /\ polls < MaxPolls
  /\ polls' = polls + 1
  /\ Polling
  /\ UNCHANGED <<clientVars, pngVars, restarts>>

TakeEvents == check_event_ble_data_trans /\ UNCHANGED <<clientVars, polls, restarts>>

StartService == start /\ UNCHANGED <<clientVars, pngVars, polls, restarts>>

CInit ==
  /\ AInit
  /\ client = "idle" /\ file \in Files /\ sent_page = 0 /\ sent_len = 0
  /\ polls = 0 /\ restarts = 0

CNext ==
  \/ Declare \/ SendPage \/ SendPageCrash \/ NextFile \/ RestartClient
  \/ LoopCycle \/ TakeEvents \/ StartService

CSpec == CInit /\ [][CNext]_cvars

\* The client goes on with its transfer, the application starts the service,
\* and a declaration that may get memory does not fail to get it for ever.
GetsMemory == Declare /\ resp_buff'.resp = "RecvStatus" /\ data_buff' > 0

Writes == SendPage \/ SendPageCrash

CFairSpec ==
  /\ CSpec
  /\ WF_cvars(StartService) /\ WF_cvars(Declare) /\ WF_cvars(Writes)
  /\ WF_cvars(NextFile) /\ SF_cvars(GetsMemory)

-----------------------------------------------------------------------------
(* Properties.                                                             *)

\* Client and service agree: pages and bytes counted on both sides match while
\* a transfer runs, and a client that holds a completion has its whole file in
\* the service -- through timeouts and restarts that only one side noticed, and
\* whatever block the consumer took away in between.
BothSidesAgree ==
  /\ client = "sending" /\ dt_state_ = "DataRecving" =>
       sent_page = recv_page /\ sent_len = data_recv_size
  /\ client = "done" => data_buff_cmpl /\ data_recv_size = file

\* A page of a client that numbers its pages as the code counts them, from 1, is
\* refused as content exactly when its number does not fit header.page: the
\* comparison of a uint32_t with a uint8_t (data_trans.cpp:217) refuses page
\* PageMod, the first whose number wraps, and accepts every page before it.
\* (data_trans.hpp:78 numbers pages from 0; such a client gets no page through.)
PagesAccepted ==
  /\ client \in {"sending", "done"} => sent_page < PageMod
  /\ sent_page > 0 /\ resp_buff.resp = "RejectContent" =>
       sent_page = PageMod /\ resp_buff.reason = "InvalidPageNo"

\* Of more bytes than this the last page has no number.
Fitting == {len \in Files : len <= (PageMod - 1) * BodyLen}

\* Through slow phases, restarts, failed allocations, swaps and the crashes these
\* lead to, the client is told in the end that its file is complete; a file with
\* too many pages it begins again and again, never to finish.
ClientFinishes == file \in Fitting ~> client = "done"

\* main.cpp:361 "BLEで取得したデータを" (the data received by BLE): the block that
\* the consumer takes is that of a file received whole.
TakenIsReceived == [][TakeEvents /\ pngVars' # pngVars => data_buff_cmpl]_cvars
=============================================================================
