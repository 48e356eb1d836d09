------------------------------- MODULE PbSession -------------------------------
(***************************************************************************)
(* One session of the playback server, class pb_session of                 *)
(* src/nvr/mkv/playback/async_pb_server.cpp, with the reader it plays      *)
(* (id_mkv_pb_reader.hpp) and the client at the other end of its socket.   *)
(*                                                                         *)
(* The handlers of a session form a chain: each starts one asynchronous    *)
(* operation on the socket, whose completion runs the next one.  While it  *)
(* plays, a second operation is pending, the read of a new seek request:   *)
(* its handler may run on another thread between any two of the chain.     *)
(*                                                                         *)
(* buffer_ is modelled by what handle_seek_request would parse in its send *)
(* area (bytes 12-27: ts_sec, speed, direction) and in its read area (bytes  *)
(* 228-255); the packets that are sent overwrite some of the former.  The  *)
(* library and the files are nondeterministic.                             *)
(***************************************************************************)
EXTENDS Integers

CONSTANTS
  Seeks,      \* the seek requests the client sends
  FrameSizes  \* the sizes of the frames

Seek == [ts_sec : Int, speed : Int, direction : Int]

ASSUME SessionAssumption == Seeks \subseteq Seek /\ FrameSizes \subseteq Nat

VARIABLES
  pending,      \* the operation of the chain that is pending
  seek_flag,    \* bound into the handler of the seek response
  readPending,  \* the read into the read area is pending
  seek_packet_,
  sendArea,     \* bytes 12-27 of buffer_
  readArea,     \* bytes 228-255 of buffer_
  isStopped_,   \* of the reader
  opened,       \* the reader's pDemuxer_ # NULL
  connected,    \* the client is there
  exits         \* history: the calls of exit_session

reader == <<isStopped_, opened>>
vars == <<pending, seek_flag, readPending, seek_packet_, sendArea, readArea, reader,
          connected, exits>>

Reads  == {"read_header", "read_login", "read_seek"}
Writes == {"write_login", "write_seek_response", "write_setup", "write_data",
           "write_none", "write_fake_setup"}

Zero == [ts_sec |-> 0, speed |-> 0, direction |-> 0]
SIGNAL_TYPE_NORMAL == 0
SIGNAL_TYPE_NO_DATA == 5

-----------------------------------------------------------------------------
Init ==
  /\ pending = "read_header"  \* start()
  /\ seek_flag = FALSE /\ readPending = FALSE /\ seek_packet_ = FALSE
  /\ sendArea = Zero /\ readArea = Zero
  /\ isStopped_ = FALSE /\ opened = FALSE
  /\ connected = TRUE /\ exits = 0

\* Mutant: the session is counted the wrong way.
exit_session_backwards == pending' = "closed" /\ exits' = exits - 1

\* The socket is closed, the session leaves the pool of handlers.
exit_session == pending' = "closed" /\ exits' = exits + 1

\* Starts the next operation of the chain.
Then(op) == pending' = op /\ UNCHANGED exits

deliver_none_packet ==
  /\ Then("write_none")
  /\ sendArea' = [ts_sec |-> 0, speed |-> sendArea.speed, direction |-> 0]

deliver_fake_setup_msg ==
  /\ Then("write_fake_setup")
  /\ sendArea' = [ts_sec |-> 0, speed |-> SIGNAL_TYPE_NO_DATA, direction |-> 0]

deliver_setup_msg ==
  /\ Then("write_setup")
  /\ sendArea' = [ts_sec |-> sendArea.ts_sec, speed |-> SIGNAL_TYPE_NORMAL, direction |-> 0]

deliver_frame ==
  \E size \in FrameSizes :
    /\ Then("write_data")
    /\ sendArea' = [ts_sec |-> 0, speed |-> sendArea.speed, direction |-> size]

(* PBReader::next: the file is opened by the first call and gives its      *)
(* header; then each call gives a frame, the header of the next file, or,  *)
(* after the last file, nothing.                                           *)
NextPacket ==
  \/ /\ ~isStopped_ /\ opened' = TRUE /\ deliver_setup_msg /\ UNCHANGED isStopped_
  \/ /\ ~isStopped_ /\ opened /\ deliver_frame /\ UNCHANGED reader
  \/ /\ ~isStopped_ /\ opened /\ deliver_none_packet /\ UNCHANGED reader
  \/ /\ ~isStopped_ /\ opened' = FALSE /\ isStopped_' = TRUE /\ deliver_none_packet
  \/ /\ isStopped_ /\ deliver_none_packet /\ UNCHANGED reader

Malformed(s) == s.ts_sec < 0 \/ s.speed \notin 1 .. 8 \/ s.direction \notin {0, 1}
HasSpeed(s) == s.speed \in {1, 2, 4, 8}

(* handle_seek_request: what it parses is s, and area is what the send     *)
(* area holds then.                                                        *)
ServesSeek(s, area) ==
  \/ /\ Malformed(s)
     /\ Then("write_none")
     /\ sendArea' = [ts_sec |-> 0, speed |-> area.speed, direction |-> 0]
     /\ UNCHANGED seek_flag
  \/ /\ ~Malformed(s) /\ ~HasSpeed(s)
     /\ exit_session
     /\ sendArea' = area /\ UNCHANGED seek_flag
  \/ /\ ~Malformed(s) /\ HasSpeed(s)
     /\ seek_flag' \in BOOLEAN  \* whether the library has a file
     /\ Then("write_seek_response")
     /\ sendArea' = area

-----------------------------------------------------------------------------
(* The handlers of the chain.                                              *)

\* The client is told nothing when its request is not acceptable.
read_header ==
  /\ pending = "read_header" /\ connected
  /\ exit_session \/ Then("read_login")
  /\ UNCHANGED <<seek_flag, readPending, seek_packet_, sendArea, readArea, reader, connected>>

read_rest_header ==
  /\ pending = "read_login" /\ connected
  /\ Then("write_login")
  /\ UNCHANGED <<seek_flag, readPending, seek_packet_, sendArea, readArea, reader, connected>>

\* Everybody may log in.
handle_login_reponse ==
  /\ pending = "write_login" /\ connected
  /\ Then("read_seek")
  /\ UNCHANGED <<seek_flag, readPending, seek_packet_, sendArea, readArea, reader, connected>>

handle_seek_request ==
  /\ pending = "read_seek" /\ connected
  /\ \E s \in Seeks : ServesSeek(s, s)
  /\ UNCHANGED <<readPending, seek_packet_, readArea, reader, connected>>

\* Arms the read of the next seek request, then plays (handle_data_msg).
handle_seek_response ==
  /\ pending = "write_seek_response" /\ connected
  /\ IF seek_flag
     THEN readPending' = TRUE /\ Then("play") /\ UNCHANGED sendArea
     ELSE deliver_fake_setup_msg /\ UNCHANGED readPending
  /\ UNCHANGED <<seek_flag, seek_packet_, readArea, reader, connected>>

(* A seek request that has come is served from the send area, otherwise    *)
(* the next packet is sent.  handle_seek_response calls it, with or        *)
(* without a client.                                                       *)
handle_data_msg ==
  /\ pending = "play" \/ (pending \in {"write_setup", "write_data"} /\ connected)
  /\ IF seek_packet_
     THEN seek_packet_' = FALSE /\ ServesSeek(sendArea, sendArea) /\ UNCHANGED reader
     ELSE NextPacket /\ UNCHANGED <<seek_packet_, seek_flag>>
  /\ UNCHANGED <<readPending, readArea, connected>>

\* Also the handler of the fake setup message.
handle_none_packet ==
  /\ pending \in {"write_none", "write_fake_setup"} /\ connected
  /\ deliver_none_packet
  /\ UNCHANGED <<seek_flag, readPending, seek_packet_, readArea, reader, connected>>

\* Mutant: the error of a write ends the chain, not the session.
ChainFailsOnRead ==
  /\ pending \in Reads /\ ~connected
  /\ exit_session
  /\ UNCHANGED <<seek_flag, readPending, seek_packet_, sendArea, readArea, reader, connected>>

\* Any of these operations fails once the client is gone.
ChainFails ==
  /\ pending \in Reads \cup Writes /\ ~connected
  /\ exit_session
  /\ UNCHANGED <<seek_flag, readPending, seek_packet_, sendArea, readArea, reader, connected>>

-----------------------------------------------------------------------------
(* The handler of the read of a seek request, and the client.              *)

\* Mutants: the error of this read ends the session too; the next request is
\* awaited at once.
receive_seek_packet_exits ==
  /\ readPending
  /\ readPending' = FALSE
  /\ IF connected /\ pending # "closed"
     THEN seek_packet_' = TRUE /\ readArea' \in Seeks /\ UNCHANGED <<pending, exits>>
     ELSE exit_session /\ UNCHANGED <<seek_packet_, readArea>>
  /\ UNCHANGED <<seek_flag, sendArea, reader, connected>>
receive_seek_packet_again ==
  /\ readPending
  /\ readPending' = (connected /\ pending # "closed")
  /\ IF readPending' THEN seek_packet_' = TRUE /\ readArea' \in Seeks
                     ELSE UNCHANGED <<seek_packet_, readArea>>
  /\ UNCHANGED <<pending, seek_flag, sendArea, reader, connected, exits>>

\* When the socket was closed, or the client is gone, nothing happens: the
\* chain is to notice that by itself.
receive_seek_packet ==
  /\ readPending
  /\ readPending' = FALSE
  /\ IF connected /\ pending # "closed"
     THEN seek_packet_' = TRUE /\ readArea' \in Seeks
     ELSE UNCHANGED <<seek_packet_, readArea>>
  /\ UNCHANGED <<pending, seek_flag, sendArea, reader, connected, exits>>

ClientLeaves ==
  /\ connected /\ connected' = FALSE
  /\ UNCHANGED <<pending, seek_flag, readPending, seek_packet_, sendArea, readArea, reader, exits>>

Handlers ==
  \/ read_header \/ read_rest_header \/ handle_login_reponse
  \/ handle_seek_request \/ handle_seek_response
  \/ handle_data_msg \/ handle_none_packet \/ ChainFails

Next == Handlers \/ receive_seek_packet \/ ClientLeaves

(* The io_service runs the handler of every operation that completes; a    *)
(* client that is there need not send anything.                            *)
Fairness ==
  /\ WF_vars(ChainFails)
  /\ WF_vars(pending = "play" /\ handle_data_msg)
  /\ WF_vars(receive_seek_packet /\ (~connected \/ pending = "closed"))

Spec == Init /\ [][Next]_vars /\ Fairness

-----------------------------------------------------------------------------
(* Properties.                                                             *)

\* The state of the session is well formed.
SessionTypeOK ==
  /\ pending \in Reads \cup Writes \cup {"play", "closed"}
  /\ seek_flag \in BOOLEAN /\ readPending \in BOOLEAN /\ seek_packet_ \in BOOLEAN
  /\ sendArea \in Seek /\ readArea \in Seek
  /\ isStopped_ \in BOOLEAN /\ opened \in BOOLEAN
  /\ connected \in BOOLEAN /\ exits \in Nat

\* A session leaves the pool of handlers exactly once, although two operations
\* may fail on its socket: the count of sessions depends on it.
ExitsOnce == exits = IF pending = "closed" THEN 1 ELSE 0

\* A seek request that has come is not overwritten by another before the chain
\* has looked at it, and none is awaited before there is something to play.
OneSeekAtATime ==
  /\ ~(readPending /\ seek_packet_)
  /\ pending \in Reads \cup {"write_login", "write_seek_response"} =>
       ~readPending /\ ~seek_packet_

\* A session whose client is gone is closed and keeps no operation pending: the
\* last reference to it goes away.
SessionReleased == ~connected ~> pending = "closed" /\ ~readPending

\* "0-227 for send, 228-255 for read" (async_pb_server.cpp:184): a seek request
\* that was received is what the session serves.
ServesReceivedSeek ==
  [][seek_packet_ /\ ~seek_packet_' => sendArea = readArea]_vars
===============================================================================
