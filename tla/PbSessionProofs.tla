---------------------------- MODULE PbSessionProofs ----------------------------
(***************************************************************************)
(* Proofs about one session of the playback server, for any seek requests  *)
(* and frames.  The type, the count of exits and the use of the read area  *)
(* are inductive together.                                                 *)
(***************************************************************************)
EXTENDS PbSession, TLAPS

SessionInv == SessionTypeOK /\ ExitsOnce /\ OneSeekAtATime

LEMMA InitSession == Init => SessionInv
<1>1. Zero \in Seek
  BY DEF Zero, Seek
<1>2. Init => SessionTypeOK
  <2> SUFFICES ASSUME Init PROVE SessionTypeOK
    OBVIOUS
  <2>1. pending \in Reads \cup Writes \cup {"play", "closed"} /\ exits \in Nat
    BY DEF Init, Reads
  <2>2. sendArea \in Seek /\ readArea \in Seek
    BY <1>1, Zenon DEF Init
  <2>3. /\ seek_flag \in BOOLEAN /\ readPending \in BOOLEAN /\ seek_packet_ \in BOOLEAN
        /\ isStopped_ \in BOOLEAN /\ opened \in BOOLEAN /\ connected \in BOOLEAN
    BY Zenon DEF Init
  <2>4. QED
    BY <2>1, <2>2, <2>3, Zenon DEF SessionTypeOK
<1>3. Init => ExitsOnce /\ OneSeekAtATime
  BY DEF Init, ExitsOnce, OneSeekAtATime
<1>4. QED
  BY <1>2, <1>3 DEF SessionInv

\* Every way to send a packet keeps the send area a (possible) request.
LEMMA PacketType ==
  ASSUME SessionTypeOK,
         deliver_none_packet \/ deliver_fake_setup_msg \/ deliver_setup_msg \/ deliver_frame
  PROVE  /\ sendArea' \in Seek /\ exits' = exits
         /\ pending' \in {"write_none", "write_fake_setup", "write_setup", "write_data"}
<1>1. CASE deliver_none_packet
  BY <1>1 DEF deliver_none_packet, Then, SessionTypeOK, Seek
<1>2. CASE deliver_fake_setup_msg
  BY <1>2 DEF deliver_fake_setup_msg, Then, SIGNAL_TYPE_NO_DATA, Seek
<1>3. CASE deliver_setup_msg
  BY <1>3 DEF deliver_setup_msg, Then, SIGNAL_TYPE_NORMAL, SessionTypeOK, Seek
<1>4. CASE deliver_frame
  BY <1>4, SessionAssumption DEF deliver_frame, Then, SessionTypeOK, Seek
<1>5. QED
  BY <1>1, <1>2, <1>3, <1>4

\* The next packet of the reader is one of them.
LEMMA NextPacketType ==
  ASSUME SessionTypeOK, NextPacket
  PROVE  /\ sendArea' \in Seek /\ exits' = exits
         /\ pending' \in {"write_none", "write_fake_setup", "write_setup", "write_data"}
         /\ isStopped_' \in BOOLEAN /\ opened' \in BOOLEAN
<1>1. isStopped_' \in BOOLEAN /\ opened' \in BOOLEAN
  BY DEF NextPacket, reader, SessionTypeOK
<1>2. deliver_none_packet \/ deliver_setup_msg \/ deliver_frame
  BY DEF NextPacket
<1>3. QED
  BY <1>1, <1>2, PacketType

\* A seek request is answered, ends the stream or ends the session.
LEMMA ServesSeekType ==
  ASSUME SessionTypeOK, ExitsOnce, pending # "closed", NEW s, NEW area \in Seek,
         ServesSeek(s, area)
  PROVE  /\ sendArea' \in Seek /\ seek_flag' \in BOOLEAN /\ exits' \in Nat
         /\ ExitsOnce'
         /\ pending' \in {"write_none", "write_seek_response", "closed"}
<1>1. exits = 0
  BY DEF ExitsOnce
<1>2. CASE Then("write_none")
  BY <1>1, <1>2 DEF ServesSeek, Then, exit_session, SessionTypeOK, Seek, ExitsOnce
<1>3. CASE exit_session
  BY <1>1, <1>3 DEF ServesSeek, Then, exit_session, SessionTypeOK, Seek, ExitsOnce
<1>4. CASE Then("write_seek_response")
  BY <1>1, <1>4 DEF ServesSeek, Then, exit_session, SessionTypeOK, Seek, ExitsOnce
<1>5. QED
  BY <1>2, <1>3, <1>4 DEF ServesSeek

LEMMA NextSession == SessionInv /\ [Next]_vars => SessionInv'
<1> SUFFICES ASSUME SessionInv, [Next]_vars PROVE SessionInv'
  OBVIOUS
<1> USE DEF SessionInv
<1>1. CASE read_header \/ read_rest_header \/ handle_login_reponse \/ ChainFails
  BY <1>1 DEF read_header, read_rest_header, handle_login_reponse, ChainFails, Then,
       exit_session, reader, Reads, Writes, SessionTypeOK, ExitsOnce, OneSeekAtATime
<1>2. CASE handle_seek_request
  <2>1. PICK s \in Seeks : ServesSeek(s, s)
    BY <1>2 DEF handle_seek_request
  <2>2. s \in Seek /\ pending = "read_seek"
    BY <1>2, SessionAssumption DEF handle_seek_request
  <2>3. /\ sendArea' \in Seek /\ seek_flag' \in BOOLEAN /\ exits' \in Nat
        /\ ExitsOnce'
        /\ pending' \in {"write_none", "write_seek_response", "closed"}
    BY <2>1, <2>2, ServesSeekType
  <2>4. ~readPending /\ ~seek_packet_
    BY <2>2 DEF OneSeekAtATime, Reads
  <2>5. QED
    BY <1>2, <2>3, <2>4 DEF handle_seek_request, reader, Reads, Writes, SessionTypeOK, OneSeekAtATime
<1>3. CASE handle_seek_response
  <2>1. ~readPending /\ ~seek_packet_ /\ pending = "write_seek_response"
    BY <1>3 DEF handle_seek_response, OneSeekAtATime
  <2>2. CASE seek_flag
    BY <1>3, <2>1, <2>2 DEF handle_seek_response, Then, reader, Reads, Writes,
         SessionTypeOK, ExitsOnce, OneSeekAtATime
  <2>3. CASE ~seek_flag
    <3>1. sendArea' \in Seek /\ exits' = exits /\ pending' = "write_fake_setup"
      BY <1>3, <2>3, PacketType DEF handle_seek_response, deliver_fake_setup_msg, Then
    <3>2. QED
      BY <1>3, <2>1, <2>3, <3>1 DEF handle_seek_response, reader, Reads, Writes,
           SessionTypeOK, ExitsOnce, OneSeekAtATime
  <2>4. QED
    BY <2>2, <2>3
<1>4. CASE handle_data_msg
  <2>1. pending # "closed" /\ UNCHANGED <<readPending, readArea, connected>>
    BY <1>4 DEF handle_data_msg
  <2>2. CASE seek_packet_
    <3>1. ServesSeek(sendArea, sendArea) /\ seek_packet_' = FALSE /\ UNCHANGED reader
      BY <1>4, <2>2 DEF handle_data_msg
    <3>2. /\ sendArea' \in Seek /\ seek_flag' \in BOOLEAN /\ exits' \in Nat
          /\ ExitsOnce'
          /\ pending' \in {"write_none", "write_seek_response", "closed"}
      BY <2>1, <3>1, ServesSeekType DEF SessionTypeOK
    <3>3. ~readPending
      BY <2>2 DEF OneSeekAtATime
    <3>4. QED
      BY <2>1, <3>1, <3>2, <3>3 DEF reader, Reads, Writes, SessionTypeOK, OneSeekAtATime
  <2>3. CASE ~seek_packet_
    <3>1. NextPacket /\ UNCHANGED <<seek_packet_, seek_flag>>
      BY <1>4, <2>3 DEF handle_data_msg
    <3>2. /\ sendArea' \in Seek /\ exits' = exits
          /\ pending' \in {"write_none", "write_fake_setup", "write_setup", "write_data"}
          /\ isStopped_' \in BOOLEAN /\ opened' \in BOOLEAN
      BY <3>1, NextPacketType
    <3>3. QED
      BY <2>1, <2>3, <3>1, <3>2 DEF Reads, Writes, SessionTypeOK, ExitsOnce, OneSeekAtATime
  <2>4. QED
    BY <2>2, <2>3
<1>5. CASE handle_none_packet
  <2>1. sendArea' \in Seek /\ exits' = exits /\ pending' = "write_none"
    BY <1>5, PacketType DEF handle_none_packet, deliver_none_packet, Then
  <2>2. QED
    BY <1>5, <2>1 DEF handle_none_packet, reader, Reads, Writes, SessionTypeOK, ExitsOnce,
         OneSeekAtATime
<1>6. CASE receive_seek_packet
  BY <1>6, SessionAssumption DEF receive_seek_packet, reader, SessionTypeOK, ExitsOnce,
       OneSeekAtATime
<1>7. CASE ClientLeaves
  BY <1>7 DEF ClientLeaves, reader, SessionTypeOK, ExitsOnce, OneSeekAtATime
<1>8. CASE UNCHANGED vars
  BY <1>8 DEF vars, reader, SessionTypeOK, ExitsOnce, OneSeekAtATime
<1>9. QED
  BY <1>1, <1>2, <1>3, <1>4, <1>5, <1>6, <1>7, <1>8 DEF Next, Handlers

\* The invariant of a session holds in every reachable state.
THEOREM SessionInvariant == Spec => []SessionInv
<1>1. QED
  BY InitSession, NextSession, PTL DEF Spec

\* A session leaves the pool of handlers exactly once.
THEOREM SessionExitsOnce == Spec => []ExitsOnce
<1>1. SessionInv => ExitsOnce
  BY DEF SessionInv
<1>2. QED
  BY <1>1, SessionInvariant, PTL

\* The read area holds one seek request at a time.
THEOREM SeeksOneByOne == Spec => []OneSeekAtATime
<1>1. SessionInv => OneSeekAtATime
  BY DEF SessionInv
<1>2. QED
  BY <1>1, SessionInvariant, PTL

\* The state of a session is well formed, whatever the client sends and whenever it leaves.
THEOREM SessionTypeCorrect == Spec => []SessionTypeOK
<1>1. SessionInv => SessionTypeOK
  BY DEF SessionInv
<1>2. QED
  BY <1>1, SessionInvariant, PTL
===============================================================================
