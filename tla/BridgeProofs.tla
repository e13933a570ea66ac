---------------------------- MODULE BridgeProofs ----------------------------
(***************************************************************************)
(* Theorems about Bridge, for every registry of commands, runners and resets*)
(* and every set of requests: the registers keep their widths, a response   *)
(* goes to the frame that was handled last, an answered RESET leaves no     *)
(* module as its handlers left it, and while frames come whole the bridge   *)
(* implements the service it promises (BridgeService).  The last part is    *)
(* about the CRC of packets (CrcStream): a word is taken apart into its bits,*)
(* on which exclusive or works pair by pair.                                *)
(***************************************************************************)
EXTENDS BridgeRefinement, CrcStream, FiniteSums, TLAPS

\* A number is a word when it is small enough.
LEMMA WordRange ==
    /\ UINT16_MAX \in Nat
    /\ \A n \in Nat : n \in Word <=> n <= UINT16_MAX
    /\ \A n \in Nat : n <= 65535 => n \in Word
    /\ \A n \in Word : n \in Nat /\ n <= 65535
<1>1. UINT16_MAX \in Nat
  BY SMT DEF UINT16_MAX
<1>2. \A n \in Nat : n \in Word <=> n <= UINT16_MAX
  BY <1>1, SMT DEF Word
<1>3. \A n \in Nat : n <= UINT16_MAX <=> n <= 65535
  BY SMT DEF UINT16_MAX
<1>4. Word \subseteq Nat
  BY <1>1, SMT DEF Word
<1> QED
  BY <1>1, <1>2, <1>3, <1>4, SMT

\* Bytes and words, the bytes of the protocol, and the size of the data.
LEMMA ByteWord ==
    /\ START \in Byte /\ ACK \in Byte /\ NACK \in Byte /\ 0 \in Byte
    /\ CRC_RESET \in Word /\ 0 \in Word
    /\ DataSize \in Nat /\ DataSize >= 1
    /\ \A n \in Nat : n <= DataSize => n \in Word
    /\ Word \subseteq Nat /\ Byte \subseteq Nat
<1>1. START \in Byte /\ ACK \in Byte /\ NACK \in Byte /\ 0 \in Byte /\ Byte \subseteq Nat
  BY SMT DEF START, ACK, NACK, Byte
<1>2. CRC_RESET \in Nat /\ CRC_RESET <= 65535
  BY SMT DEF CRC_RESET
<1>3. CRC_RESET \in Word /\ 0 \in Word /\ Word \subseteq Nat
  BY <1>2, WordRange, SMT
<1>4. DataSize \in Nat /\ DataSize >= 1 /\ DataSize <= UINT16_MAX
  BY WordRange, SizeAssumption, SMT
<1>5. ASSUME NEW n \in Nat, n <= DataSize
      PROVE  n \in Word
  BY <1>4, <1>5, WordRange, SMT
<1> QED
  BY <1>1, <1>3, <1>4, <1>5

\* Two bytes make a word, the first of them the high one.
LEMMA TwoBytes ==
    ASSUME NEW h \in Byte, NEW l \in Byte
    PROVE  h * 256 + l \in Word
<1>1. h \in Nat /\ l \in Nat /\ h <= 255 /\ l <= 255
  BY SMT DEF Byte
<1>2. h * 256 + l \in Nat /\ h * 256 + l <= 65535
  BY <1>1, SMT
<1> QED
  BY <1>2, WordRange, SMT

\* The two bytes of a word, and the word with its bytes exchanged, keep their width
\* (ntohs and htons in process_payload_len, process_crc and initResponse).
LEMMA WordBytes ==
    ASSUME NEW n \in Word
    PROVE  n \div 256 \in Byte /\ n % 256 \in Byte /\ Swap(n) \in Word
<1>1. n \in Int /\ 0 <= n /\ n <= 65535
  BY WordRange, SMT
<1>2. n \div 256 \in Int /\ n \div 256 >= 0 /\ n \div 256 <= 255
  BY <1>1, SMT
<1>3. n % 256 \in Int /\ n % 256 >= 0 /\ n % 256 <= 255
  BY <1>1, SMT
<1>4. n \div 256 \in Byte /\ n % 256 \in Byte
  BY <1>2, <1>3, SMT DEF Byte
<1> QED
  BY <1>4, TwoBytes DEF Swap

\* What the CRC covers is a sequence of bytes.
LEMMA CoveredType ==
    ASSUME NEW idx \in Byte, NEW body \in Seq(Byte), Len(body) \in Word
    PROVE  Covered(idx, body) \in Seq(Byte)
<1>1. Len(body) \div 256 \in Byte /\ Len(body) % 256 \in Byte
  BY WordBytes
<1>2. <<START, idx, Len(body) \div 256, Len(body) % 256>> \in Seq(Byte)
  BY <1>1, ByteWord
<1> QED
  BY <1>2 DEF Covered

\* What a microcontroller sends is a sequence of bytes.
LEMMA EncodeType ==
    ASSUME NEW f \in Requests
    PROVE  Encode(f) \in Seq(Byte)
<1>1. f.idx \in Byte /\ f.body \in Seq(Byte) /\ Len(f.body) \in Word
  BY TrafficAssumption, ByteWord
<1>2. Covered(f.idx, f.body) \in Seq(Byte)
  BY <1>1, CoveredType
<1>3. Crc(Covered(f.idx, f.body)) \in Word
  BY <1>1, CrcAssumption
<1> DEFINE c == Crc(Covered(f.idx, f.body))
<1>4. <<c \div 256, c % 256>> \in Seq(Byte)
  BY <1>3, WordBytes
<1> QED
  BY <1>2, <1>4 DEF Encode

\* The results a response is built from fit the packet.
LEMMA OutputsFit ==
    ASSUME NEW r \in Outputs
    PROVE  r \in Seq(Byte) /\ Len(r) <= DataSize
<1>1. CASE r \in Results
  BY <1>1, TrafficAssumption
<1>2. CASE r = <<ACK>> \/ r = <<NACK>>
  <2>1. ASSUME NEW b \in Byte, r = <<b>>
        PROVE  r \in Seq(Byte) /\ Len(r) = 1
    BY <2>1
  <2> QED
    BY <1>2, <2>1, ByteWord
<1>3. CASE r = <<0>> \o Version
  <2>1. Version \in Seq(Byte) /\ Len(Version) < DataSize
    BY CommandAssumption
  <2>2. <<0>> \in Seq(Byte) /\ Len(<<0>>) = 1
    BY ByteWord
  <2>3. r \in Seq(Byte) /\ Len(r) = 1 + Len(Version)
    BY <1>3, <2>1, <2>2
  <2> QED
    BY <2>1, <2>3, ByteWord
<1> QED
  BY <1>1, <1>2, <1>3 DEF Outputs

\* Bytes stored at the start of msg.data leave it an array of bytes.
LEMMA OverlayType ==
    ASSUME NEW bytes \in Seq(Byte), NEW data \in [1..DataSize -> Byte]
    PROVE  Overlay(bytes, data) \in [1..DataSize -> Byte]
BY ByteWord DEF Overlay

LEMMA ZerosType == Zeros \in [1..DataSize -> Byte]
BY ByteWord DEF Zeros

\* A response leaves the packet registers well typed (mangoh_bridge_sendResult).
LEMMA SendResultType ==
    ASSUME TypeOK, NEW r \in Outputs, sendResult(r)
    PROVE  msg' \in [start : Byte, idx : Byte, len : Word, data : [1..DataSize -> Byte], crc : Word]
<1>1. r \in Seq(Byte) /\ Len(r) \in Word
  BY OutputsFit, ByteWord
<1>2. msg.idx \in Byte /\ msg.data \in [1..DataSize -> Byte]
  BY DEF TypeOK
<1>3. Swap(Len(r)) \in Word
  BY <1>1, WordBytes
<1>4. Overlay(r, msg.data) \in [1..DataSize -> Byte]
  BY <1>1, <1>2, OverlayType
<1>5. Crc(Covered(msg.idx, r)) \in Word
  BY <1>2, CrcAssumption
<1>6. Swap(Crc(Covered(msg.idx, r))) \in Word
  BY <1>5, WordBytes
<1> QED
  BY <1>2, <1>3, <1>4, <1>6, ByteWord DEF sendResult

-----------------------------------------------------------------------------
\* The registers keep their widths through one step of the line: what is read is
\* bytes, and a register swapped without having been read keeps its width.
LEMMA LineType ==
    ASSUME TypeOK, NEW n \in Nat, Got(n)
    PROVE  /\ line' \in Seq(Byte) /\ SubSeq(line, 1, n) \in Seq(Byte)
           /\ \A i \in 1..n : line[i] \in Byte
           /\ serialFd' = serialFd /\ faults' = faults
<1>1. line \in Seq(Byte) /\ n <= Len(line)
  BY DEF TypeOK, Got
<1>2. SubSeq(line, n + 1, Len(line)) \in Seq(Byte) /\ SubSeq(line, 1, n) \in Seq(Byte)
  BY <1>1
<1>3. \A i \in 1..n : line[i] \in Byte
  BY <1>1
<1> QED
  BY <1>2, <1>3 DEF Got

LEMMA NotReadType ==
    ASSUME TypeOK, NotRead
    PROVE  line' \in Seq(Byte) /\ serialFd' \in {"none", "open", "hung", "broken"}
           /\ faults' \in 0..MaxFaults
BY TrafficAssumption DEF TypeOK, NotRead, StopFails, Fault

\* The type invariant holds initially.
LEMMA InitType == Init => TypeOK
<1>1. Zeros \in [1..DataSize -> Byte] /\ 0 \in Byte /\ 0 \in Word /\ CRC_RESET \in Word
  BY ByteWord, ZerosType
<1>2. Len(resets) \in Nat /\ MaxFaults \in Nat
  BY RegistryAssumption, TrafficAssumption
<1>3. InitMsg \in [start : Byte, idx : Byte, len : Word, data : [1..DataSize -> Byte], crc : Word]
  BY <1>1 DEF InitMsg
<1>4. <<>> \in Seq(Byte) /\ 0 \in 0..MaxFaults /\ 0 \in 0..Len(resets)
  BY <1>2
<1> QED
  BY <1>3, <1>4 DEF Init, TypeOK

\* The steps that read a frame keep the types.
LEMMA ReadingType ==
    ASSUME TypeOK,
           ReadStart \/ process_msg_idx \/ process_payload_len \/ process_payload_data \/ process_crc
    PROVE  TypeOK'
<1> DEFINE Msg == [start : Byte, idx : Byte, len : Word, data : [1..DataSize -> Byte], crc : Word]
<1>0. msg \in Msg
  BY DEF TypeOK
<1>1. CASE ReadStart
  <2>1. CASE Got(1) /\ msg' = [msg EXCEPT !.start = line[1]]
    <3>1. line[1] \in Byte /\ line' \in Seq(Byte) /\ serialFd' = serialFd /\ faults' = faults
      BY <2>1, LineType
    <3>2. msg' \in Msg
      BY <1>0, <2>1, <3>1
    <3> QED
      BY <1>1, <3>1, <3>2 DEF ReadStart, TypeOK
  <2>2. CASE StopFails /\ UNCHANGED msg
    <3>1. line' \in Seq(Byte) /\ serialFd' \in {"none", "open", "hung", "broken"}
          /\ faults' \in 0..MaxFaults
      BY <2>2, NotReadType DEF NotRead
    <3> QED
      BY <1>1, <2>2, <3>1 DEF ReadStart, TypeOK
  <2> QED
    BY <1>1, <2>1, <2>2 DEF ReadStart
<1>2. CASE process_msg_idx
  <2>1. CASE Got(1) /\ msg' = [msg EXCEPT !.idx = line[1]]
    <3>1. line[1] \in Byte /\ line' \in Seq(Byte) /\ serialFd' = serialFd /\ faults' = faults
      BY <2>1, LineType
    <3>2. msg' \in Msg
      BY <1>0, <2>1, <3>1
    <3> QED
      BY <1>2, <3>1, <3>2 DEF process_msg_idx, TypeOK
  <2>2. CASE NotRead /\ UNCHANGED <<msg, got>>
    <3>1. line' \in Seq(Byte) /\ serialFd' \in {"none", "open", "hung", "broken"}
          /\ faults' \in 0..MaxFaults
      BY <2>2, NotReadType
    <3> QED
      BY <1>2, <2>2, <3>1 DEF process_msg_idx, TypeOK
  <2> QED
    BY <1>2, <2>1, <2>2 DEF process_msg_idx
<1>3. CASE process_payload_len
  <2>1. ASSUME NEW m \in Msg
        PROVE  AfterLen(m) \in Msg
    BY ZerosType DEF AfterLen
  <2>2. CASE Got(2) /\ msg' = AfterLen([msg EXCEPT !.len = line[1] * 256 + line[2]])
    <3>1. line[1] \in Byte /\ line[2] \in Byte
          /\ line' \in Seq(Byte) /\ serialFd' = serialFd /\ faults' = faults
      BY <2>2, LineType
    <3>2. line[1] * 256 + line[2] \in Word
      BY <3>1, TwoBytes
    <3>3. [msg EXCEPT !.len = line[1] * 256 + line[2]] \in Msg
      BY <1>0, <3>2
    <3>4. msg' \in Msg
      BY <2>1, <2>2, <3>3
    <3> QED
      BY <1>3, <3>1, <3>4 DEF process_payload_len, TypeOK
  <2>3. CASE NotRead /\ msg' = AfterLen([msg EXCEPT !.len = Swap(msg.len)])
    <3>1. line' \in Seq(Byte) /\ serialFd' \in {"none", "open", "hung", "broken"}
          /\ faults' \in 0..MaxFaults
      BY <2>3, NotReadType
    <3>2. Swap(msg.len) \in Word
      BY <1>0, WordBytes
    <3>3. [msg EXCEPT !.len = Swap(msg.len)] \in Msg
      BY <1>0, <3>2
    <3>4. msg' \in Msg
      BY <2>1, <2>3, <3>3
    <3> QED
      BY <1>3, <3>1, <3>4 DEF process_payload_len, TypeOK
  <2> QED
    BY <1>3, <2>2, <2>3 DEF process_payload_len
<1>4. CASE process_payload_data
  <2>1. CASE Got(msg.len) /\ msg' = [msg EXCEPT !.data = Overlay(SubSeq(line, 1, msg.len), Zeros)]
    <3>1. msg.len \in Nat
      BY <1>0, ByteWord
    <3>2. SubSeq(line, 1, msg.len) \in Seq(Byte)
          /\ line' \in Seq(Byte) /\ serialFd' = serialFd /\ faults' = faults
      BY <2>1, <3>1, LineType
    <3>3. Overlay(SubSeq(line, 1, msg.len), Zeros) \in [1..DataSize -> Byte]
      BY <3>2, OverlayType, ZerosType
    <3>4. msg' \in Msg
      BY <1>0, <2>1, <3>3
    <3> QED
      BY <1>4, <3>2, <3>4 DEF process_payload_data, TypeOK
  <2>2. CASE NotRead /\ UNCHANGED <<msg, got>>
    <3>1. line' \in Seq(Byte) /\ serialFd' \in {"none", "open", "hung", "broken"}
          /\ faults' \in 0..MaxFaults
      BY <2>2, NotReadType
    <3> QED
      BY <1>4, <2>2, <3>1 DEF process_payload_data, TypeOK
  <2> QED
    BY <1>4, <2>1, <2>2 DEF process_payload_data
<1>5. CASE process_crc
  <2>1. pc' \in {"payload", "idle"}
    BY <1>5 DEF process_crc
  <2>2. CASE Got(2) /\ msg' = [msg EXCEPT !.crc = line[1] * 256 + line[2]]
    <3>1. line[1] \in Byte /\ line[2] \in Byte
          /\ line' \in Seq(Byte) /\ serialFd' = serialFd /\ faults' = faults
      BY <2>2, LineType
    <3>2. line[1] * 256 + line[2] \in Word
      BY <3>1, TwoBytes
    <3>3. msg' \in Msg
      BY <1>0, <2>2, <3>2
    <3> QED
      BY <1>5, <2>1, <3>1, <3>3 DEF process_crc, TypeOK
  <2>3. CASE NotRead /\ msg' = [msg EXCEPT !.crc = Swap(msg.crc)]
    <3>1. line' \in Seq(Byte) /\ serialFd' \in {"none", "open", "hung", "broken"}
          /\ faults' \in 0..MaxFaults
      BY <2>3, NotReadType
    <3>2. Swap(msg.crc) \in Word
      BY <1>0, WordBytes
    <3>3. msg' \in Msg
      BY <1>0, <2>3, <3>2
    <3> QED
      BY <1>5, <2>1, <3>1, <3>3 DEF process_crc, TypeOK
  <2> QED
    BY <1>5, <2>2, <2>3 DEF process_crc
<1> QED
  BY <1>1, <1>2, <1>3, <1>4, <1>5

\* The steps that dispatch a frame keep the types.
LEMMA DispatchType ==
    ASSUME TypeOK,
           \/ RejectWhenClosed \/ close \/ ResetRefused \/ ResetAccepted
           \/ ResetModule \/ ResetDone \/ UnknownCommand \/ process_cmd
    PROVE  TypeOK'
<1> DEFINE Msg == [start : Byte, idx : Byte, len : Word, data : [1..DataSize -> Byte], crc : Word]
<1> USE DEF Payload, link
<1>1. Len(resets) \in Nat /\ \A i \in 1..Len(resets) : resets[i] \in Modules
  BY RegistryAssumption
<1>2. CASE RejectWhenClosed
  BY <1>2 DEF RejectWhenClosed, TypeOK
<1>3. CASE close
  <2>1. <<ACK>> \in Outputs
    BY DEF Outputs
  <2>2. msg' \in Msg
    BY <1>3, <2>1, SendResultType DEF close, TypeOK
  <2>3. closed' \in BOOLEAN
    BY <1>3 DEF close, TypeOK
  <2> QED
    BY <1>3, <2>2, <2>3 DEF close, TypeOK
<1>4. CASE ResetRefused
  <2>1. <<NACK>> \in Outputs
    BY DEF Outputs
  <2>2. msg' \in Msg
    BY <1>4, <2>1, SendResultType DEF ResetRefused
  <2> QED
    BY <1>4, <2>2 DEF ResetRefused, TypeOK
<1>5. CASE ResetAccepted
  BY <1>1, <1>5 DEF ResetAccepted, TypeOK
<1>6. CASE ResetModule
  <2>1. rst' \in 0..Len(resets)
    BY <1>1, <1>6 DEF ResetModule, TypeOK
  <2>2. touched' \subseteq Modules
    BY <1>6 DEF ResetModule, TypeOK
  <2> QED
    BY <1>6, <2>1, <2>2 DEF ResetModule, TypeOK
<1>7. CASE ResetDone
  <2>1. <<0>> \o Version \in Outputs
    BY DEF Outputs
  <2>2. msg' \in Msg
    BY <1>7, <2>1, SendResultType DEF ResetDone
  <2>3. closed' \in BOOLEAN
    BY <1>7 DEF ResetDone
  <2> QED
    BY <1>7, <2>2, <2>3 DEF ResetDone, TypeOK
<1>8. CASE UnknownCommand
  <2>1. <<NACK>> \in Outputs
    BY DEF Outputs
  <2>2. msg' \in Msg
    BY <1>8, <2>1, SendResultType DEF UnknownCommand
  <2> QED
    BY <1>8, <2>2 DEF UnknownCommand, TypeOK
<1>9. CASE process_cmd
  <2>1. \A r \in Results : r \in Outputs
    BY DEF Outputs
  <2>2. msg' \in Msg
    BY <1>9, <2>1, SendResultType DEF process_cmd, TypeOK
  <2>3. touched' \subseteq Modules
    BY <1>9, RegistryAssumption DEF process_cmd, TypeOK
  <2> QED
    BY <1>9, <2>2, <2>3 DEF process_cmd, TypeOK
<1> QED
  BY <1>2, <1>3, <1>4, <1>5, <1>6, <1>7, <1>8, <1>9

\* The steps of the port and of the event loop keep the types.
LEMMA PortType ==
    ASSUME TypeOK, ReadFails \/ Reopen \/ EventHandler
    PROVE  TypeOK'
<1> USE DEF link, hist
<1>1. CASE ReadFails
  BY <1>1 DEF ReadFails, TypeOK
<1>2. CASE Reopen
  <2>1. faults' \in 0..MaxFaults
    BY <1>2, TrafficAssumption DEF Reopen, Fault, TypeOK
  <2>2. monitor' \in BOOLEAN /\ held' \in BOOLEAN
    BY <1>2 DEF Reopen, TypeOK
  <2> QED
    BY <1>2, <2>1, <2>2 DEF Reopen, TypeOK
<1>3. CASE EventHandler
  <2>1. touched' \subseteq Modules
    BY <1>3, RegistryAssumption DEF EventHandler, TypeOK
  <2> QED
    BY <1>3, <2>1 DEF EventHandler, TypeOK
<1> QED
  BY <1>1, <1>2, <1>3

\* A field cut off in the middle leaves its register well typed.
LEMMA InterruptedType ==
    ASSUME TypeOK, Interrupted
    PROVE  msg' \in [start : Byte, idx : Byte, len : Word, data : [1..DataSize -> Byte], crc : Word]
<1> DEFINE Msg == [start : Byte, idx : Byte, len : Word, data : [1..DataSize -> Byte], crc : Word]
<1>1. msg \in Msg /\ line \in Seq(Byte) /\ line # <<>>
  BY DEF TypeOK, Interrupted
<1>2. line[1] \in Byte
  BY <1>1
<1>3. ASSUME NEW n \in Word
      PROVE  (n \div 256) * 256 + line[1] \in Word
  BY <1>2, WordBytes, TwoBytes
<1>4. (msg.len \div 256) * 256 + line[1] \in Word /\ (msg.crc \div 256) * 256 + line[1] \in Word
  BY <1>1, <1>3
<1>5. ASSUME NEW k \in 1..Len(line)
      PROVE  Overlay(SubSeq(line, 1, k), Zeros) \in [1..DataSize -> Byte]
  <2>1. SubSeq(line, 1, k) \in Seq(Byte)
    BY <1>1
  <2> QED
    BY <2>1, OverlayType, ZerosType
<1>6. CASE msg' = [msg EXCEPT !.len = (msg.len \div 256) * 256 + line[1]]
  BY <1>1, <1>4, <1>6
<1>7. CASE msg' = [msg EXCEPT !.crc = (msg.crc \div 256) * 256 + line[1]]
  BY <1>1, <1>4, <1>7
<1>8. CASE \E k \in 1..Len(line) : msg' = [msg EXCEPT !.data = Overlay(SubSeq(line, 1, k), Zeros)]
  BY <1>1, <1>5, <1>8
<1> QED
  BY <1>6, <1>7, <1>8 DEF Interrupted

\* The steps of the outside world keep the types.
LEMMA WorldType ==
    ASSUME TypeOK, World
    PROVE  TypeOK'
<1> USE DEF link, hist, bridge
<1>1. ASSUME NEW kind, Fault(kind)
      PROVE  faults' \in 0..MaxFaults
  BY <1>1, TrafficAssumption DEF Fault, TypeOK
<1>2. ASSUME NEW f \in Requests, Send(f)
      PROVE  TypeOK'
  <2>1. Encode(f) \in Seq(Byte) /\ line \in Seq(Byte)
    BY EncodeType DEF TypeOK
  <2>2. ASSUME NEW k \in 1..Len(Encode(f)) - 1
        PROVE  line \o SubSeq(Encode(f), 1, k) \in Seq(Byte)
    BY <2>1
  <2>3. line' \in Seq(Byte)
    <3>1. CASE line' = line \o Encode(f)
      BY <2>1, <3>1
    <3>2. CASE \E k \in 1..Len(Encode(f)) - 1 : line' = line \o SubSeq(Encode(f), 1, k)
      BY <2>2, <3>2
    <3> QED
      BY <1>2, <3>1, <3>2 DEF Send
  <2>4. faults' \in 0..MaxFaults
    BY <1>1, <1>2 DEF Send, TypeOK
  <2> QED
    BY <1>2, <2>3, <2>4 DEF Send, TypeOK
<1>3. CASE SigTermEventHandler
  <2>1. faults' \in 0..MaxFaults
    BY <1>1, <1>3 DEF SigTermEventHandler
  <2> QED
    BY <1>3, <2>1 DEF SigTermEventHandler, TypeOK
<1>4. CASE Abort
  <2>1. faults' \in 0..MaxFaults
    BY <1>1, <1>4 DEF Abort
  <2> QED
    BY <1>4, <2>1 DEF Abort, TypeOK
<1>5. CASE Restart
  <2>1. InitMsg \in [start : Byte, idx : Byte, len : Word, data : [1..DataSize -> Byte], crc : Word]
    BY ByteWord, ZerosType DEF InitMsg
  <2>2. Len(resets) \in Nat
    BY RegistryAssumption
  <2>3. <<>> \in Seq(Byte) /\ 0 \in 0..Len(resets)
    BY <2>2
  <2> QED
    BY <1>5, <2>1, <2>3 DEF Restart, TypeOK
<1>6. CASE Lose
  <2>1. line \in Seq(Byte)
    BY DEF TypeOK
  <2>2. PICK i \in 1..Len(line) :
            line' = [j \in 1..Len(line) - 1 |-> IF j < i THEN line[j] ELSE line[j + 1]]
    BY <1>6 DEF Lose
  <2>3. Len(line) - 1 \in Nat
    BY <2>1
  <2>4. \A j \in 1..Len(line) - 1 : (IF j < i THEN line[j] ELSE line[j + 1]) \in Byte
    BY <2>1
  <2>5. line' \in Seq(Byte)
    BY <2>2, <2>3, <2>4
  <2>6. faults' \in 0..MaxFaults
    BY <1>1, <1>6 DEF Lose
  <2> QED
    BY <1>6, <2>5, <2>6 DEF Lose, TypeOK
<1>7. CASE Unplug
  <2>1. faults' \in 0..MaxFaults
    BY <1>1, <1>7 DEF Unplug
  <2>2. line' \in Seq(Byte)
    BY <1>7 DEF Unplug
  <2>3. serialFd' \in {"none", "open", "hung", "broken"}
    BY <1>7 DEF Unplug, TypeOK
  <2>4. msg' \in [start : Byte, idx : Byte, len : Word, data : [1..DataSize -> Byte], crc : Word]
    BY <1>7, InterruptedType DEF Unplug, TypeOK
  <2> QED
    BY <1>7, <2>1, <2>2, <2>3, <2>4 DEF Unplug, TypeOK
<1>8. CASE Plug
  BY <1>8 DEF Plug, TypeOK
<1> QED
  BY <1>2, <1>3, <1>4, <1>5, <1>6, <1>7, <1>8 DEF World

\* The packet registers keep the widths of their C types, and the program's flags
\* and counters their ranges, whatever is sent, lost, cut or late.
THEOREM TypeCorrect == Spec => []TypeOK
<1>1. Init => TypeOK
  BY InitType
<1>2. TypeOK /\ [Next]_vars => TypeOK'
  <2> SUFFICES ASSUME TypeOK, [Next]_vars PROVE TypeOK'
    OBVIOUS
  <2>1. CASE Program
    BY <2>1, ReadingType, DispatchType, PortType DEF Program
  <2>2. CASE World
    BY <2>2, WorldType
  <2>3. CASE UNCHANGED vars
    BY <2>3 DEF vars, link, hist, TypeOK
  <2> QED
    BY <2>1, <2>2, <2>3 DEF Next
<1> QED
  BY <1>1, <1>2, PTL DEF Spec

-----------------------------------------------------------------------------
\* While excute_resets runs, no module it has already reset runs again: the
\* strengthening of ResetLeavesNothing that the steps preserve.
ResetProgress == pc = "reset" => \A i \in 1..rst : resets[i] \notin touched

LEMMA ResetProgressStep ==
    ASSUME TypeOK, ResetProgress, [Next]_vars
    PROVE  ResetProgress'
<1> USE DEF ResetProgress, link, hist
<1>1. CASE ResetModule
  <2>1. rst \in Nat
    BY RegistryAssumption DEF TypeOK
  <2>2. CASE touched' = touched \ {resets[rst + 1]} /\ rst' = rst + 1 /\ UNCHANGED pc
    <3>1. pc = "reset"
      BY <1>1 DEF ResetModule
    <3>2. ASSUME NEW i \in 1..rst'
          PROVE  resets[i] \notin touched'
      <4>1. i \in 1..rst \/ i = rst + 1
        BY <2>1, <2>2
      <4> QED
        BY <2>2, <3>1, <4>1
    <3> QED
      BY <3>2
  <2>3. CASE pc' = "idle"
    BY <2>3
  <2> QED
    BY <1>1, <2>2, <2>3 DEF ResetModule
<1>2. CASE ResetAccepted
  BY <1>2 DEF ResetAccepted
<1>3. CASE ReadStart \/ process_msg_idx \/ process_payload_len \/ process_payload_data \/ process_crc
  <2>1. pc' # "reset"
    BY <1>3 DEF ReadStart, process_msg_idx, process_payload_len, process_payload_data, process_crc
  <2> QED
    BY <2>1
<1>4. CASE RejectWhenClosed \/ close \/ ResetRefused \/ ResetDone \/ UnknownCommand \/ process_cmd
  <2>1. pc' = "idle"
    BY <1>4 DEF RejectWhenClosed, close, ResetRefused, ResetDone, UnknownCommand, process_cmd
  <2> QED
    BY <2>1
<1>5. CASE ReadFails \/ Reopen \/ EventHandler
  <2>1. pc' \in {"reopen", "idle", "start"}
    BY <1>5 DEF ReadFails, Reopen, EventHandler
  <2> QED
    BY <2>1
<1>6. CASE World
  <2>1. CASE \E f \in Requests : Send(f)
    BY <2>1 DEF Send, bridge
  <2>2. CASE SigTermEventHandler \/ Abort \/ Restart
    <3>1. pc' \in {"terminated", "dead", "reopen"}
      BY <2>2 DEF SigTermEventHandler, Abort, Restart
    <3> QED
      BY <3>1
  <2>3. CASE Lose \/ Unplug \/ Plug
    BY <2>3 DEF Lose, Unplug, Plug, bridge
  <2> QED
    BY <1>6, <2>1, <2>2, <2>3 DEF World
<1>7. CASE UNCHANGED vars
  BY <1>7 DEF vars
<1> QED
  BY <1>1, <1>2, <1>3, <1>4, <1>5, <1>6, <1>7 DEF Next, Program

\* A step in the middle of a RESET that answers or opens the bridge is its last one.
LEMMA ResetAnswers ==
    ASSUME TypeOK, [Next]_vars, pc = "reset", replies' # replies \/ closed' # closed
    PROVE  ResetDone
<1> USE DEF link, hist
<1>1. CASE Program
  <2>1. CASE ResetModule
    BY <2>1 DEF ResetModule
  <2>2. CASE ResetDone
    BY <2>2
  <2>3. ~(ReadFails \/ Reopen \/ EventHandler \/ ReadStart \/ process_msg_idx
          \/ process_payload_len \/ process_payload_data \/ process_crc)
    BY DEF ReadFails, Reopen, EventHandler, ReadStart, process_msg_idx,
           process_payload_len, process_payload_data, process_crc
  <2>4. ~(RejectWhenClosed \/ close \/ ResetRefused \/ ResetAccepted \/ UnknownCommand \/ process_cmd)
    BY DEF RejectWhenClosed, close, ResetRefused, ResetAccepted, UnknownCommand, process_cmd, Payload
  <2> QED
    BY <1>1, <2>1, <2>2, <2>3, <2>4 DEF Program
<1>2. CASE World
  <2>1. replies' = replies /\ closed' = closed
    BY <1>2 DEF World, Send, SigTermEventHandler, Abort, Restart, Lose, Unplug, Plug, bridge
  <2> QED
    BY <2>1
<1>3. CASE UNCHANGED vars
  BY <1>3 DEF vars
<1> QED
  BY <1>1, <1>2, <1>3 DEF Next

\* A RESET that is answered, or opens the bridge, has reset every module since its
\* handler or runner last ran, whatever earlier resets left behind (excute_resets,
\* mangoh_bridge_reset), for every list of resets.
THEOREM ResetIsComplete == Spec => ResetLeavesNothing
<1>1. Init => ResetProgress
  BY DEF Init, ResetProgress
<1>2. TypeOK /\ ResetProgress /\ [Next]_vars => ResetProgress'
  BY ResetProgressStep
<1>3. TypeOK /\ ResetProgress /\ [Next]_vars
        => [pc = "reset" /\ (replies' # replies \/ closed' # closed)
              => \A i \in DOMAIN resets : resets[i] \notin touched']_vars
  <2> SUFFICES ASSUME TypeOK, ResetProgress, [Next]_vars,
                      pc = "reset", replies' # replies \/ closed' # closed,
                      NEW i \in DOMAIN resets
               PROVE  resets[i] \notin touched'
    OBVIOUS
  <2>1. ResetDone
    BY ResetAnswers
  <2>2. rst = Len(resets) /\ touched' = touched
    BY <2>1 DEF ResetDone
  <2>3. i \in 1..rst
    BY <2>2, RegistryAssumption
  <2> QED
    BY <2>2, <2>3 DEF ResetProgress
<1> QED
  BY <1>1, <1>2, <1>3, TypeCorrect, PTL DEF Spec, ResetLeavesNothing

-----------------------------------------------------------------------------
\* The frames and the responses of the history, typed as far as the proof needs.
HistoryType ==
    /\ handled \in Seq([idx : Byte, body : Seq(Byte), got : SUBSET {"idx", "len", "data", "crc"}])
    /\ replies \in Seq([to : Nat, idx : Byte, body : Seq(Byte), written : BOOLEAN])
    /\ got \subseteq {"idx", "len", "data", "crc"}

\* Past the length check of process_payload_len, the data lies within msg.data.
LengthChecked == pc \in {"data", "crc", "payload", "reset"} => msg.len <= DataSize

\* While a frame is dispatched it is the last one handled, the registers still hold
\* its index, and it has no response yet.
Unanswered ==
    pc \in {"payload", "reset"} =>
        /\ handled # <<>>
        /\ msg.idx = handled[Len(handled)].idx
        /\ \A i \in DOMAIN replies : replies[i].to < Len(handled)

ReplyInv == HistoryType /\ LengthChecked /\ Unanswered /\ OneReplyPerFrame

\* A step that builds a response to the frame being dispatched and is done with it.
LEMMA ResponseStep ==
    ASSUME TypeOK, ReplyInv, pc \in {"payload", "reset"},
           NEW r \in Outputs, sendResult(r), pc' = "idle", UNCHANGED <<handled, got>>
    PROVE  ReplyInv'
<1> DEFINE new == [to |-> Len(handled), idx |-> msg.idx, body |-> r, written |-> serialFd = "open"]
           Reply == [to : Nat, idx : Byte, body : Seq(Byte), written : BOOLEAN]
<1>1. r \in Seq(Byte) /\ msg.idx \in Byte /\ Len(handled) \in Nat /\ replies \in Seq(Reply)
  BY OutputsFit DEF TypeOK, ReplyInv, HistoryType
<1>2. new \in Reply
  BY <1>1
<1>3. replies' = Append(replies, new)
  BY DEF sendResult
<1>4. HistoryType'
  BY <1>1, <1>2, <1>3 DEF ReplyInv, HistoryType
<1>5. handled # <<>> /\ new.idx = handled[Len(handled)].idx
      /\ \A i \in DOMAIN replies : replies[i].to < Len(handled)
  BY DEF ReplyInv, Unanswered
<1>6. new.to \in DOMAIN handled
  BY <1>5 DEF ReplyInv, HistoryType
<1>7. OneReplyPerFrame'
  <2> SUFFICES ASSUME NEW i \in DOMAIN replies'
               PROVE  /\ replies'[i].to \in DOMAIN handled
                      /\ replies'[i].idx = handled[replies'[i].to].idx
                      /\ i > 1 => replies'[i - 1].to < replies'[i].to
    BY DEF OneReplyPerFrame
  <2>1. CASE i \in DOMAIN replies
    <3>1. replies'[i] = replies[i] /\ (i > 1 => replies'[i - 1] = replies[i - 1])
      BY <1>1, <1>2, <1>3, <2>1
    <3> QED
      BY <2>1, <3>1 DEF ReplyInv, OneReplyPerFrame
  <2>2. CASE i = Len(replies) + 1
    <3>1. replies'[i] = new
      BY <1>1, <1>2, <1>3, <2>2
    <3>2. i > 1 => i - 1 \in DOMAIN replies /\ replies'[i - 1] = replies[i - 1]
      BY <1>1, <1>2, <1>3, <2>2
    <3> QED
      BY <1>5, <1>6, <3>1, <3>2
  <2>3. i \in DOMAIN replies \/ i = Len(replies) + 1
    <3>1. Len(replies') = Len(replies) + 1 /\ replies' \in Seq(Reply) /\ Len(replies) \in Nat
      BY <1>1, <1>2, <1>3
    <3>2. i \in 1..Len(replies) + 1
      BY <3>1
    <3> QED
      BY <1>1, <3>1, <3>2
  <2> QED
    BY <2>1, <2>2, <2>3
<1> QED
  BY <1>4, <1>7 DEF ReplyInv, LengthChecked, Unanswered

\* A step that changes neither the history nor the frame being dispatched.
LEMMA QuietStep ==
    ASSUME ReplyInv, UNCHANGED <<handled, replies>>, got' \subseteq {"idx", "len", "data", "crc"},
           \/ pc' \notin {"data", "crc", "payload", "reset"}
           \/ pc' = pc /\ msg' = msg
           \/ pc = "payload" /\ pc' = "reset" /\ msg' = msg
    PROVE  ReplyInv'
<1>1. HistoryType' /\ OneReplyPerFrame'
  BY DEF ReplyInv, HistoryType, OneReplyPerFrame
<1>2. LengthChecked' /\ Unanswered'
  BY DEF ReplyInv, LengthChecked, Unanswered
<1> QED
  BY <1>1, <1>2 DEF ReplyInv

\* The steps that read a frame up to its CRC.
LEMMA FieldStep ==
    ASSUME TypeOK, ReplyInv,
           ReadStart \/ process_msg_idx \/ process_payload_len \/ process_payload_data
    PROVE  ReplyInv'
<1>1. UNCHANGED <<handled, replies>> /\ got' \subseteq {"idx", "len", "data", "crc"}
  BY DEF ReplyInv, HistoryType, ReadStart, process_msg_idx, process_payload_len, process_payload_data
<1>2. CASE ReadStart \/ process_msg_idx
  <2>1. pc' \in {"idle", "idx", "len"}
    BY <1>2 DEF ReadStart, process_msg_idx
  <2> QED
    BY <1>1, <2>1, QuietStep
<1>3. CASE process_payload_len \/ process_payload_data
  <2>1. pc' \in {"idle", "data", "crc"}
    BY <1>3 DEF process_payload_len, process_payload_data
  <2>2. pc' # "idle" => msg'.len <= DataSize
    <3>1. CASE process_payload_len
      <4>1. TypeOK'
        BY <3>1, ReadingType
      <4>2. msg'.len \in Nat /\ DataSize \in Nat
        BY <4>1, ByteWord DEF TypeOK
      <4> QED
        BY <3>1, <4>2 DEF process_payload_len
    <3>2. CASE process_payload_data
      <4>1. msg'.len = msg.len
        BY <3>2 DEF process_payload_data, TypeOK
      <4> QED
        BY <3>2, <4>1 DEF process_payload_data, ReplyInv, LengthChecked
    <3> QED
      BY <1>3, <3>1, <3>2
  <2>3. LengthChecked' /\ Unanswered'
    BY <2>1, <2>2 DEF LengthChecked, Unanswered
  <2> QED
    BY <1>1, <2>3 DEF ReplyInv, HistoryType, OneReplyPerFrame
<1> QED
  BY <1>2, <1>3

\* The frame that passes the CRC check becomes the last one handled, unanswered.
LEMMA CrcStep ==
    ASSUME TypeOK, ReplyInv, process_crc
    PROVE  ReplyInv'
<1> DEFINE Frame == [idx : Byte, body : Seq(Byte), got : SUBSET {"idx", "len", "data", "crc"}]
           new == [idx |-> msg.idx, body |-> Body(msg), got |-> got']
<1>1. got' \subseteq {"idx", "len", "data", "crc"} /\ replies' = replies
  BY DEF process_crc, ReplyInv, HistoryType
<1>2. msg'.idx = msg.idx /\ msg'.len = msg.len /\ msg.len <= DataSize
  BY DEF process_crc, TypeOK, ReplyInv, LengthChecked
<1>3. new \in Frame
  <2>1. msg.data \in [1..DataSize -> Byte] /\ msg.len \in Nat /\ DataSize \in Nat /\ msg.idx \in Byte
    BY ByteWord DEF TypeOK
  <2>2. Body(msg) \in Seq(Byte)
    <3>1. Body(msg) = [i \in 1..msg.len |-> msg.data[i]]
      BY <2>1 DEF Body
    <3>2. \A i \in 1..msg.len : msg.data[i] \in Byte
      BY <1>2, <2>1
    <3> QED
      BY <2>1, <3>1, <3>2
  <2> QED
    BY <1>1, <2>1, <2>2
<1>4. CASE CrcMatches(msg')
  <2>1. handled' = Append(handled, new) /\ pc' = "payload"
    BY <1>4 DEF process_crc
  <2>2. handled \in Seq(Frame) /\ handled' \in Seq(Frame)
    BY <1>3, <2>1 DEF ReplyInv, HistoryType
  <2>3. Len(handled') = Len(handled) + 1 /\ handled'[Len(handled')] = new
        /\ \A i \in DOMAIN handled : i \in DOMAIN handled' /\ handled'[i] = handled[i]
    BY <1>3, <2>1, <2>2
  <2>4. \A i \in DOMAIN replies : replies[i].to \in DOMAIN handled
    BY DEF ReplyInv, OneReplyPerFrame
  <2>5. OneReplyPerFrame'
    BY <1>1, <2>3, <2>4 DEF ReplyInv, OneReplyPerFrame
  <2>6. Unanswered'
    BY <1>1, <1>2, <2>1, <2>2, <2>3, <2>4 DEF Unanswered
  <2>7. HistoryType'
    BY <1>1, <2>2 DEF ReplyInv, HistoryType
  <2> QED
    BY <1>2, <2>5, <2>6, <2>7 DEF ReplyInv, LengthChecked
<1>5. CASE ~CrcMatches(msg')
  <2>1. handled' = handled /\ pc' = "idle"
    BY <1>5 DEF process_crc
  <2> QED
    BY <1>1, <2>1, QuietStep
<1> QED
  BY <1>4, <1>5

\* The steps that dispatch a frame.
LEMMA DispatchStep ==
    ASSUME TypeOK, ReplyInv,
           \/ RejectWhenClosed \/ close \/ ResetRefused \/ ResetAccepted
           \/ ResetModule \/ ResetDone \/ UnknownCommand \/ process_cmd
    PROVE  ReplyInv'
<1> USE DEF Payload, link, hist
<1>0. got \subseteq {"idx", "len", "data", "crc"}
  BY DEF ReplyInv, HistoryType
<1>1. <<ACK>> \in Outputs /\ <<NACK>> \in Outputs /\ <<0>> \o Version \in Outputs
      /\ \A r \in Results : r \in Outputs
  BY DEF Outputs
<1>2. CASE RejectWhenClosed
  BY <1>0, <1>2, QuietStep DEF RejectWhenClosed
<1>3. CASE close
  <2>1. CASE sendResult(<<ACK>>)
    BY <1>1, <1>3, <2>1, ResponseStep DEF close
  <2>2. CASE UNCHANGED <<msg, closed, replies>>
    BY <1>0, <1>3, <2>2, QuietStep DEF close
  <2> QED
    BY <1>3, <2>1, <2>2 DEF close
<1>4. CASE ResetRefused
  BY <1>1, <1>4, ResponseStep DEF ResetRefused
<1>5. CASE ResetAccepted
  BY <1>0, <1>5, QuietStep DEF ResetAccepted
<1>6. CASE ResetModule
  BY <1>0, <1>6, QuietStep DEF ResetModule
<1>7. CASE ResetDone
  BY <1>1, <1>7, ResponseStep DEF ResetDone
<1>8. CASE UnknownCommand
  BY <1>1, <1>8, ResponseStep DEF UnknownCommand
<1>9. CASE process_cmd
  <2>1. CASE \E r \in Results : sendResult(r)
    BY <1>1, <1>9, <2>1, ResponseStep DEF process_cmd
  <2>2. CASE UNCHANGED <<msg, replies>>
    BY <1>0, <1>9, <2>2, QuietStep DEF process_cmd
  <2> QED
    BY <1>9, <2>1, <2>2 DEF process_cmd
<1> QED
  BY <1>2, <1>3, <1>4, <1>5, <1>6, <1>7, <1>8, <1>9

\* The device goes away: a register may be left half read, but not the index, nor the
\* length once it was checked.
LEMMA UnplugStep ==
    ASSUME TypeOK, ReplyInv, Unplug
    PROVE  ReplyInv'
<1> USE DEF hist
<1>1. UNCHANGED <<pc, handled, replies, got>>
  BY DEF Unplug
<1>2. HistoryType' /\ OneReplyPerFrame'
  BY <1>1 DEF ReplyInv, HistoryType, OneReplyPerFrame
<1>3. msg'.idx = msg.idx /\ (pc # "len" => msg'.len = msg.len)
  BY DEF Unplug, Interrupted, TypeOK
<1>4. LengthChecked' /\ Unanswered'
  BY <1>1, <1>3 DEF ReplyInv, LengthChecked, Unanswered
<1> QED
  BY <1>2, <1>4 DEF ReplyInv

\* The steps of the port, of the event loop and of the outside world.
LEMMA OtherStep ==
    ASSUME TypeOK, ReplyInv,
           ReadFails \/ Reopen \/ EventHandler \/ World \/ UNCHANGED vars
    PROVE  ReplyInv'
<1> USE DEF link, hist, bridge
<1>0. got \subseteq {"idx", "len", "data", "crc"}
  BY DEF ReplyInv, HistoryType
<1>1. CASE ReadFails
  BY <1>0, <1>1, QuietStep DEF ReadFails
<1>2. CASE Reopen \/ EventHandler
  BY <1>0, <1>2, QuietStep DEF Reopen, EventHandler
<1>3. CASE \E f \in Requests : Send(f)
  BY <1>0, <1>3, QuietStep DEF Send
<1>4. CASE SigTermEventHandler \/ Abort \/ Restart
  BY <1>0, <1>4, QuietStep DEF SigTermEventHandler, Abort, Restart
<1>5. CASE Lose \/ Unplug \/ Plug
  BY <1>0, <1>5, UnplugStep, QuietStep DEF Lose, Plug
<1>6. CASE UNCHANGED vars
  BY <1>0, <1>6, QuietStep DEF vars
<1> QED
  BY <1>1, <1>2, <1>3, <1>4, <1>5, <1>6 DEF World

\* What is known of the responses is invariant.
LEMMA ReplyInvariant == Spec => [](TypeOK /\ ReplyInv)
<1>1. Init => ReplyInv
  BY DEF Init, ReplyInv, HistoryType, LengthChecked, Unanswered, OneReplyPerFrame
<1>2. TypeOK /\ ReplyInv /\ [Next]_vars => ReplyInv'
  BY FieldStep, CrcStep, DispatchStep, OtherStep DEF Next, Program
<1> QED
  BY <1>1, <1>2, TypeCorrect, PTL DEF Spec

\* Every response answers the frame handled last, with its index, and no frame is
\* answered twice, however requests are cut, lost, late or repeated and however
\* often the port and the program fail (process_payload, initResponse).
THEOREM RepliesMatch == Spec => []OneReplyPerFrame
<1>1. ReplyInv => OneReplyPerFrame
  BY DEF ReplyInv
<1> QED
  BY <1>1, ReplyInvariant, PTL

-----------------------------------------------------------------------------
\* The bridge as a service.  While the port is there no byte is lost, late or cut off, and
\* closing a port that hung up succeeds; the device, the program and the configuration of
\* the port may fail.
WholeFrames == FaultKinds \subseteq {"unplug", "abort", "config", "sigterm"}

\* The bytes of the frame being read that have been taken from the line.
Consumed ==
    CASE pc = "idx" -> 1 [] pc = "len" -> 2 [] pc = "data" -> 4 [] pc = "crc" -> 4 + msg.len
      [] OTHER -> 0

\* The line holds the requests sent from the k-th on, whole, but for the first c bytes of
\* the k-th; e[j] bytes of the line come before the j-th, -c before the k-th.
OnLine(k, c, e) ==
    /\ e[k] = 0 - c
    /\ e[Len(sent) + 1] = Len(line)
    /\ \A j \in k..Len(sent) :
          /\ e[j + 1] = e[j] + Len(Encode(sent[j]))
          /\ e[j + 1] <= Len(line)
          /\ \A p \in 1..Len(Encode(sent[j])) :
                e[j] + p > 0 => line[e[j] + p] = Encode(sent[j])[p]

\* The registers hold what was read of the k-th request.
Registers(k) ==
    pc \in {"idx", "len", "data", "crc"} =>
        /\ k \in DOMAIN sent
        /\ pc # "idx" => msg.idx = sent[k].idx
        /\ pc \in {"data", "crc"} => msg.len = Len(sent[k].body)
        /\ pc = "crc" => msg.data = Overlay(sent[k].body, Zeros)

\* The frames handled are, in order, some of the requests before the k-th.
Taken(k) ==
    \E at \in [DOMAIN handled -> DOMAIN sent] :
        /\ \A i \in DOMAIN handled : /\ at[i] < k
                                     /\ sent[at[i]].idx = handled[i].idx
                                     /\ sent[at[i]].body = handled[i].body
        /\ \A i, j \in DOMAIN handled : i < j => at[i] < at[j]

\* While the port is open, reading is in step with the frames on the line.
InStep ==
    serialFd = "open" =>
        \E k \in 1..Len(sent) + 1, e \in [1..Len(sent) + 1 -> Int] :
            OnLine(k, Consumed, e) /\ Registers(k) /\ Taken(k)

\* What is dispatched is the frame handled last, with zeros behind it, and no command ran
\* for it yet.
Dispatched ==
    /\ \A r \in ran : r.at \in Nat /\ r.at <= Len(handled)
    /\ pc \in {"payload", "reset"} =>
          LET body == handled[Len(handled)].body
          IN  /\ body # <<>> /\ Len(body) <= DataSize
              /\ msg.len = Len(body) /\ msg.data = Overlay(body, Zeros)
              /\ pc = "payload" => \A r \in ran : r.at < Len(handled)
              /\ pc = "reset" => Kind(body) = "reset"

\* What is invariant besides the types and ReplyInv.
ServiceInv ==
    /\ sent \in Seq(Requests)
    /\ Taken(Len(sent) + 1)
    /\ InStep
    /\ Dispatched

\* The two bytes of a number make it up again.
LEMMA SplitWord ==
    ASSUME NEW n \in Nat
    PROVE  (n \div 256) * 256 + (n % 256) = n
BY SMT

\* Joining sequences of bytes.
LEMMA Joined ==
    ASSUME NEW s \in Seq(Byte), NEW t \in Seq(Byte)
    PROVE  /\ s \o t \in Seq(Byte) /\ Len(s \o t) = Len(s) + Len(t)
           /\ \A i \in 1..Len(s) : (s \o t)[i] = s[i]
           /\ \A i \in 1..Len(t) : (s \o t)[Len(s) + i] = t[i]
<1>1. s \o t \in Seq(Byte) /\ Len(s \o t) = Len(s) + Len(t)
  OBVIOUS
<1>2. \A i \in 1..Len(s) : (s \o t)[i] = s[i]
  OBVIOUS
<1>3. \A i \in 1..Len(t) : (s \o t)[Len(s) + i] = t[i]
  OBVIOUS
<1> QED
  BY <1>1, <1>2, <1>3

\* Taking from the front.
LEMMA TakeRest ==
    ASSUME NEW s \in Seq(Byte), NEW n \in Nat, n <= Len(s)
    PROVE  LET t == SubSeq(s, n + 1, Len(s))
           IN  /\ t \in Seq(Byte) /\ Len(t) = Len(s) - n
               /\ \A q \in 1..Len(s) - n : t[q] = s[n + q]
<1> DEFINE t == SubSeq(s, n + 1, Len(s))
<1>1. t \in Seq(Byte)
  OBVIOUS
<1>2. Len(t) = Len(s) - n
  OBVIOUS
<1>3. \A q \in 1..Len(s) - n : t[q] = s[n + q]
  OBVIOUS
<1> QED
  BY <1>1, <1>2, <1>3

\* The frame of a request: start, index, length, data and CRC (mangoh_bridge_packet_t).
LEMMA EncodeBytes ==
    ASSUME NEW f \in Requests
    PROVE  LET E == Encode(f)
               n == Len(f.body)
           IN  /\ n \in Nat /\ n > 0 /\ n <= DataSize /\ E \in Seq(Byte) /\ Len(E) = n + 6
               /\ E[1] = START /\ E[2] = f.idx /\ E[3] * 256 + E[4] = n
               /\ \A p \in 1..n : E[4 + p] = f.body[p]
               /\ E[n + 5] * 256 + E[n + 6] = Crc(Covered(f.idx, f.body))
<1>1. /\ f.idx \in Byte /\ f.body \in Seq(Byte) /\ Len(f.body) \in Word /\ Len(f.body) \in Nat
      /\ Len(f.body) > 0 /\ Len(f.body) <= DataSize
  BY TrafficAssumption, ProtocolAssumption, ByteWord
<1>2. Crc(Covered(f.idx, f.body)) \in Word
  BY <1>1, CrcAssumption
<1>3. PICK l1 \in Byte, l2 \in Byte : /\ l1 = Len(f.body) \div 256 /\ l2 = Len(f.body) % 256
                                     /\ l1 * 256 + l2 = Len(f.body)
  <2>1. Len(f.body) \div 256 \in Byte /\ Len(f.body) % 256 \in Byte
    BY <1>1, WordBytes
  <2>2. (Len(f.body) \div 256) * 256 + (Len(f.body) % 256) = Len(f.body)
    BY <1>1, SplitWord
  <2> QED
    BY <2>1, <2>2, ZenonT(40)
<1>4. PICK c \in Word, c1 \in Byte, c2 \in Byte :
         /\ c = Crc(Covered(f.idx, f.body))
         /\ c1 = c \div 256 /\ c2 = c % 256 /\ c1 * 256 + c2 = c
  <2>1. PICK c \in Word : c = Crc(Covered(f.idx, f.body)) /\ c \in Nat
    BY <1>2, ByteWord
  <2>2. c \div 256 \in Byte /\ c % 256 \in Byte /\ (c \div 256) * 256 + (c % 256) = c
    BY <2>1, WordBytes, SplitWord
  <2> QED
    BY <2>1, <2>2
<1>5. PICK b \in Seq(Byte), i \in Byte : b = f.body /\ i = f.idx /\ START \in Byte
  BY <1>1, ByteWord
<1>6. /\ Encode(f) \in Seq(Byte) /\ Len(Encode(f)) = Len(b) + 6
      /\ Encode(f)[1] = START /\ Encode(f)[2] = i /\ Encode(f)[3] = l1 /\ Encode(f)[4] = l2
      /\ \A p \in 1..Len(b) : Encode(f)[4 + p] = b[p]
      /\ Encode(f)[Len(b) + 5] = c1 /\ Encode(f)[Len(b) + 6] = c2
  <2> DEFINE H == <<START, i, l1, l2>>
             T == <<c1, c2>>
  <2>1. H \in Seq(Byte) /\ Len(H) = 4 /\ H[1] = START /\ H[2] = i /\ H[3] = l1 /\ H[4] = l2
    BY <1>5
  <2>2. T \in Seq(Byte) /\ Len(T) = 2 /\ T[1] = c1 /\ T[2] = c2
    OBVIOUS
  <2> DEFINE D == H \o b
             E == D \o T
  <2> HIDE DEF H, T
  <2>3. /\ D \in Seq(Byte) /\ Len(D) = Len(b) + 4
        /\ \A p \in 1..4 : D[p] = H[p]
        /\ \A p \in 1..Len(b) : D[4 + p] = b[p]
    <3>1. /\ D \in Seq(Byte) /\ Len(D) = Len(H) + Len(b)
          /\ \A p \in 1..Len(H) : D[p] = H[p]
          /\ \A p \in 1..Len(b) : D[Len(H) + p] = b[p]
      BY <2>1, Joined
    <3>2. 4 + Len(b) = Len(b) + 4
      OBVIOUS
    <3> QED
      BY <2>1, <3>1, <3>2
  <2> HIDE DEF D
  <2>4. /\ E \in Seq(Byte) /\ Len(E) = Len(b) + 6
        /\ \A p \in 1..Len(b) + 4 : E[p] = D[p]
        /\ \A p \in 1..2 : E[Len(b) + 4 + p] = T[p]
    <3>1. /\ E \in Seq(Byte) /\ Len(E) = Len(D) + Len(T)
          /\ \A p \in 1..Len(D) : E[p] = D[p]
          /\ \A p \in 1..Len(T) : E[Len(D) + p] = T[p]
      BY <2>2, <2>3, Joined
    <3>2. Len(b) + 4 + 2 = Len(b) + 6
      OBVIOUS
    <3> QED
      BY <2>2, <2>3, <3>1, <3>2
  <2> HIDE DEF E
  <2>8. Encode(f) = E
    <3>1. Covered(i, b) = D
      BY <1>3, <1>5 DEF Covered, D, H
    <3>2. Encode(f) = Covered(i, b) \o T
      BY <1>4, <1>5 DEF Encode, T
    <3> QED
      BY <3>1, <3>2 DEF E
  <2>5. E[1] = START /\ E[2] = i /\ E[3] = l1 /\ E[4] = l2
    BY <2>1, <2>3, <2>4
  <2>6. \A p \in 1..Len(b) : E[4 + p] = b[p]
    BY <2>3, <2>4
  <2>7. E[Len(b) + 5] = c1 /\ E[Len(b) + 6] = c2
    <3>1. Len(b) + 5 = Len(b) + 4 + 1 /\ Len(b) + 6 = Len(b) + 4 + 2
      OBVIOUS
    <3> QED
      BY <2>2, <2>4, <3>1
  <2> QED
    BY <2>4, <2>5, <2>6, <2>7, <2>8
<1> QED
  BY <1>1, <1>3, <1>4, <1>5, <1>6

\* A place in a part is a place in the whole.
LEMMA Within ==
    ASSUME NEW x \in Int, NEW y \in Int, NEW l \in Nat, NEW m \in Nat, NEW p \in 1..l,
           y = x + l, y <= m, x + p > 0
    PROVE  x + p \in 1..m
OBVIOUS

\* Taking bytes of the k-th request from the line.
LEMMA LineShift ==
    ASSUME TypeOK, sent \in Seq(Requests), UNCHANGED sent,
           NEW k \in DOMAIN sent, NEW c \in Nat, NEW n \in Nat, n > 0,
           NEW e \in [1..Len(sent) + 1 -> Int], OnLine(k, c, e),
           Got(n), c + n <= Len(Encode(sent[k]))
    PROVE  \E d \in [1..Len(sent) + 1 -> Int] : OnLine(k, c + n, d)'
<1> DEFINE L(j) == Len(Encode(sent[j]))
<1>1. /\ line \in Seq(Byte) /\ n <= Len(line) /\ line' = SubSeq(line, n + 1, Len(line))
      /\ Len(sent) \in Nat /\ k \in 1..Len(sent)
      /\ e[k] = 0 - c /\ e[Len(sent) + 1] = Len(line)
  BY DEF TypeOK, Got, OnLine
<1>2. \A j \in 1..Len(sent) : L(j) \in Nat
  BY EncodeBytes
<1>4. /\ line' \in Seq(Byte) /\ Len(line') = Len(line) - n /\ Len(line) \in Nat
      /\ \A q \in 1..Len(line) - n : line'[q] = line[n + q]
  BY <1>1, TakeRest
<1>5. PICK d \in [1..Len(sent) + 1 -> Int] : \A j \in 1..Len(sent) + 1 : d[j] = e[j] - n
  <2> WITNESS [j \in 1..Len(sent) + 1 |-> e[j] - n] \in [1..Len(sent) + 1 -> Int]
  <2> QED
    OBVIOUS
<1>6. d[k] = 0 - (c + n) /\ d[Len(sent) + 1] = Len(line')
  <2>1. k \in 1..Len(sent) + 1 /\ Len(sent) + 1 \in 1..Len(sent) + 1
    BY <1>1
  <2>2. d[k] = e[k] - n /\ d[Len(sent) + 1] = e[Len(sent) + 1] - n
    BY <1>5, <2>1
  <2>3. 0 - c - n = 0 - (c + n)
    OBVIOUS
  <2> QED
    BY <1>1, <1>4, <2>2, <2>3
<1>7. ASSUME NEW j \in k..Len(sent)
      PROVE  /\ d[j + 1] = d[j] + L(j)
             /\ d[j + 1] <= Len(line')
             /\ \A p \in 1..L(j) : d[j] + p > 0 => line'[d[j] + p] = Encode(sent[j])[p]
  <2>1. j \in 1..Len(sent) /\ j \in 1..Len(sent) + 1 /\ j + 1 \in 1..Len(sent) + 1
    BY <1>1
  <2>2. e[j + 1] = e[j] + L(j) /\ e[j + 1] <= Len(line)
    BY DEF OnLine
  <2>3. e[j] \in Int /\ e[j + 1] \in Int /\ L(j) \in Nat /\ d[j] = e[j] - n /\ d[j + 1] = e[j + 1] - n
    BY <1>2, <1>5, <2>1
  <2>5. d[j + 1] = d[j] + L(j) /\ d[j + 1] <= Len(line') /\ d[j] \in Int /\ d[j + 1] \in Int
        /\ Len(line') \in Nat
    <3>1. PICK x \in Int, y \in Int, l \in Nat, m \in Nat :
             x = e[j] /\ y = e[j + 1] /\ l = L(j) /\ m = Len(line)
      BY <1>4, <2>3
    <3>2. y = x + l /\ y <= m
      BY <2>2, <3>1
    <3>3. y - n = (x - n) + l /\ y - n <= m - n /\ x - n \in Int /\ y - n \in Int
      BY <3>2
    <3>4. d[j] = x - n /\ d[j + 1] = y - n /\ Len(line') = m - n
      BY <1>4, <2>3, <3>1
    <3> QED
      BY <1>4, <3>1, <3>3, <3>4
  <2>4. ASSUME NEW p \in 1..L(j), d[j] + p > 0
        PROVE  line'[d[j] + p] = Encode(sent[j])[p]
    <3>1. p \in Int /\ d[j] \in Int /\ e[j] \in Int
      BY <2>3
    <3>2. e[j] + p > 0 /\ n + (d[j] + p) = e[j] + p
      <4>1. PICK x \in Int, q \in Int : x = e[j] /\ q = p
        BY <3>1
      <4>2. d[j] = x - n /\ (x - n) + q > 0
        BY <2>3, <2>4, <4>1
      <4>3. x + q > 0 /\ n + ((x - n) + q) = x + q
        BY <4>2
      <4> QED
        BY <4>1, <4>2, <4>3
    <3>4. d[j] + p \in 1..Len(line')
      BY <1>4, <2>3, <2>4, <2>5, Within
    <3>3. line[e[j] + p] = Encode(sent[j])[p]
      BY <3>2 DEF OnLine
    <3> QED
      BY <1>4, <3>2, <3>3, <3>4
  <2> QED
    BY <2>4, <2>5
<1>8. OnLine(k, c + n, d)'
  BY <1>6, <1>7 DEF OnLine
<1> QED
  BY <1>5, <1>8

\* When the k-th request is read, the line begins with the next one.
LEMMA FrameDone ==
    ASSUME sent' \in Seq(Requests), NEW k \in DOMAIN sent', NEW n \in Nat,
           n = Len(Encode(sent'[k])), NEW e, OnLine(k, n, e)'
    PROVE  OnLine(k + 1, 0, e)'
<1>1. k \in k..Len(sent') /\ \A j \in k + 1..Len(sent') : j \in k..Len(sent')
  OBVIOUS
<1>2. e[k] = 0 - n /\ e[k + 1] = e[k] + n
  BY <1>1 DEF OnLine
<1>3. e[k + 1] = 0 - 0
  BY <1>2
<1> QED
  BY <1>1, <1>3 DEF OnLine

\* A request sent is added to the line.
LEMMA LineGrows ==
    ASSUME TypeOK, sent \in Seq(Requests), NEW f \in Requests, sent' = Append(sent, f),
           line' = line \o Encode(f), NEW k \in 1..Len(sent) + 1, NEW c \in Nat,
           NEW e \in [1..Len(sent) + 1 -> Int], OnLine(k, c, e)
    PROVE  \E d \in [1..Len(sent') + 1 -> Int] : OnLine(k, c, d)'
<1>0. PICK n \in Nat : n = Len(sent)
  OBVIOUS
<1>1. /\ sent' \in Seq(Requests) /\ Len(sent') = n + 1 /\ sent'[n + 1] = f
      /\ \A j \in 1..n : sent'[j] = sent[j]
  BY <1>0
<1>2. /\ Encode(f) \in Seq(Byte) /\ line \in Seq(Byte)
      /\ Len(line) \in Nat /\ Len(Encode(f)) \in Nat
      /\ \A j \in 1..n : Len(Encode(sent[j])) \in Nat
  BY <1>0, EncodeBytes DEF TypeOK
<1>3. /\ Len(line') = Len(line) + Len(Encode(f))
      /\ \A q \in 1..Len(line) : line'[q] = line[q]
      /\ \A q \in 1..Len(Encode(f)) : line'[Len(line) + q] = Encode(f)[q]
  BY <1>2, Joined
<1>4. PICK d \in [1..n + 2 -> Int] : /\ d[n + 2] = Len(line) + Len(Encode(f))
                                    /\ \A j \in 1..n + 1 : d[j] = e[j]
  <2> DEFINE g == [j \in 1..n + 2 |-> IF j = n + 2 THEN Len(line) + Len(Encode(f)) ELSE e[j]]
  <2>1. \A j \in 1..n + 1 : j \in 1..n + 2 /\ j # n + 2 /\ e[j] \in Int
    BY <1>0
  <2>2. \A j \in 1..n + 2 : j = n + 2 \/ j \in 1..n + 1
    BY <1>0
  <2>3. n + 2 \in 1..n + 2
    BY <1>0
  <2>4. g \in [1..n + 2 -> Int]
    BY <1>2, <2>1, <2>2
  <2>5. g[n + 2] = Len(line) + Len(Encode(f)) /\ \A j \in 1..n + 1 : g[j] = e[j]
    BY <2>1, <2>3
  <2> QED
    BY <2>4, <2>5
<1>5. d[k] = 0 - c /\ d[Len(sent') + 1] = Len(line')
  <2>1. k \in 1..n + 1 /\ e[k] = 0 - c /\ n + 1 + 1 = n + 2
    BY <1>0 DEF OnLine
  <2> QED
    BY <1>1, <1>3, <1>4, <2>1
<1>6. ASSUME NEW j \in k..Len(sent')
      PROVE  /\ d[j + 1] = d[j] + Len(Encode(sent'[j]))
             /\ d[j + 1] <= Len(line')
             /\ \A p \in 1..Len(Encode(sent'[j])) :
                   d[j] + p > 0 => line'[d[j] + p] = Encode(sent'[j])[p]
  <2>1. CASE j = n + 1
    <3>1. /\ d[j] = Len(line) /\ d[j + 1] = Len(line) + Len(Encode(f)) /\ sent'[j] = f
      <4>1. e[n + 1] = Len(line) /\ n + 1 \in 1..n + 1 /\ n + 1 + 1 = n + 2
        BY <1>0 DEF OnLine
      <4> QED
        BY <1>1, <1>4, <2>1, <4>1
    <3>2. d[j + 1] = d[j] + Len(Encode(f)) /\ d[j + 1] <= Len(line')
      BY <1>2, <1>3, <3>1
    <3>3. \A p \in 1..Len(Encode(f)) : line'[d[j] + p] = Encode(f)[p]
      BY <1>3, <3>1
    <3> QED
      BY <3>1, <3>2, <3>3
  <2>2. CASE j \in k..n
    <3>1. j \in 1..n /\ j + 1 \in 1..n + 1 /\ j \in 1..n + 1
      BY <1>0, <2>2
    <3>2. /\ d[j] = e[j] /\ d[j + 1] = e[j + 1] /\ sent'[j] = sent[j] /\ e[j] \in Int
      BY <1>0, <1>1, <1>4, <3>1
    <3>3. /\ e[j + 1] = e[j] + Len(Encode(sent[j])) /\ e[j + 1] <= Len(line)
          /\ \A p \in 1..Len(Encode(sent[j])) :
                e[j] + p > 0 => line[e[j] + p] = Encode(sent[j])[p]
      BY <1>0, <2>2 DEF OnLine
    <3>4. ASSUME NEW p \in 1..Len(Encode(sent[j])), e[j] + p > 0
          PROVE  line'[e[j] + p] = Encode(sent[j])[p]
      <4>1. Len(Encode(sent[j])) \in Nat /\ e[j + 1] \in Int
        BY <1>0, <1>2, <3>1
      <4>2. e[j] + p \in 1..Len(line)
        BY <1>2, <3>2, <3>3, <3>4, <4>1, Within
      <4> QED
        BY <1>3, <3>3, <3>4, <4>2
    <3>5. d[j + 1] <= Len(line')
      BY <1>2, <1>3, <3>2, <3>3
    <3> QED
      BY <3>2, <3>3, <3>4, <3>5
  <2>3. j = n + 1 \/ j \in k..n
    <3>1. k \in Nat /\ j \in k..n + 1
      BY <1>0, <1>1
    <3> QED
      BY <3>1
  <2> QED
    BY <2>1, <2>2, <2>3
<1>7. d \in [1..Len(sent') + 1 -> Int]
  <2>1. n + 1 + 1 = n + 2
    OBVIOUS
  <2> QED
    BY <1>1, <2>1
<1> QED
  BY <1>5, <1>6, <1>7 DEF OnLine

\* What was taken before a request was taken before a later one.
LEMMA TakenOn ==
    ASSUME sent \in Seq(Requests), NEW k \in Int, NEW m \in Int, k <= m, Taken(k)
    PROVE  Taken(m)
<1>1. PICK at \in [DOMAIN handled -> DOMAIN sent] :
         /\ \A i \in DOMAIN handled : /\ at[i] < k
                                      /\ sent[at[i]].idx = handled[i].idx
                                      /\ sent[at[i]].body = handled[i].body
         /\ \A i, j \in DOMAIN handled : i < j => at[i] < at[j]
  BY DEF Taken
<1>2. \A i \in DOMAIN handled : at[i] \in Int
  OBVIOUS
<1>3. \A i \in DOMAIN handled : at[i] < m
  BY <1>1, <1>2
<1> QED
  BY <1>1, <1>3 DEF Taken

\* When nothing or one more request is sent.
LEMMA TakenSent ==
    ASSUME sent \in Seq(Requests), NEW k \in Int, Taken(k), UNCHANGED handled,
           \/ UNCHANGED sent
           \/ \E f \in Requests : sent' = Append(sent, f)
    PROVE  Taken(k)'
<1>1. CASE UNCHANGED sent
  BY <1>1 DEF Taken
<1>2. CASE \E f \in Requests : sent' = Append(sent, f)
  <2>1. PICK f \in Requests : sent' = Append(sent, f)
    BY <1>2
  <2>2. DOMAIN sent \subseteq DOMAIN sent' /\ \A i \in DOMAIN sent : sent'[i] = sent[i]
    BY <2>1
  <2>3. PICK at \in [DOMAIN handled -> DOMAIN sent] :
           /\ \A i \in DOMAIN handled : /\ at[i] < k
                                        /\ sent[at[i]].idx = handled[i].idx
                                        /\ sent[at[i]].body = handled[i].body
           /\ \A i, j \in DOMAIN handled : i < j => at[i] < at[j]
    BY DEF Taken
  <2>4. at \in [DOMAIN handled -> DOMAIN sent'] /\ \A i \in DOMAIN handled : at[i] \in DOMAIN sent
    BY <2>2
  <2>5. \A i \in DOMAIN handled : /\ at[i] < k
                                  /\ sent'[at[i]].idx = handled[i].idx
                                  /\ sent'[at[i]].body = handled[i].body
    BY <2>2, <2>3, <2>4
  <2>6. /\ at \in [DOMAIN handled' -> DOMAIN sent']
        /\ \A i \in DOMAIN handled' : /\ at[i] < k
                                      /\ sent'[at[i]].idx = handled'[i].idx
                                      /\ sent'[at[i]].body = handled'[i].body
        /\ \A i, j \in DOMAIN handled' : i < j => at[i] < at[j]
    <3>1. handled' = handled
      OBVIOUS
    <3> QED
      BY <2>3, <2>4, <2>5, <3>1
  <2> QED
    BY <2>6, Zenon DEF Taken
<1> QED
  BY <1>1, <1>2

\* When the k-th is handled.
LEMMA TakenNext ==
    ASSUME HistoryType, sent \in Seq(Requests), NEW k \in DOMAIN sent, Taken(k),
           NEW m \in Int, k < m,
           NEW h, handled' = Append(handled, h), h.idx = sent[k].idx, h.body = sent[k].body,
           UNCHANGED sent
    PROVE  Taken(m)'
<1>1. PICK n \in Nat : n = Len(handled) /\ DOMAIN handled = 1..n
  BY DEF HistoryType
<1>2. /\ DOMAIN handled' = 1..n + 1 /\ handled'[n + 1] = h
      /\ \A i \in 1..n : handled'[i] = handled[i]
  BY <1>1 DEF HistoryType
<1>3. PICK at \in [1..n -> DOMAIN sent] :
         /\ \A i \in 1..n : /\ at[i] < k
                            /\ sent[at[i]].idx = handled[i].idx
                            /\ sent[at[i]].body = handled[i].body
         /\ \A i, j \in 1..n : i < j => at[i] < at[j]
  BY <1>1 DEF Taken
<1>4. PICK to \in [1..n + 1 -> DOMAIN sent] : to[n + 1] = k /\ \A i \in 1..n : to[i] = at[i]
  <2> DEFINE g == [i \in 1..n + 1 |-> IF i = n + 1 THEN k ELSE at[i]]
  <2>1. \A i \in 1..n + 1 : i = n + 1 \/ i \in 1..n
    OBVIOUS
  <2>2. \A i \in 1..n : i \in 1..n + 1 /\ i # n + 1
    OBVIOUS
  <2>3. g \in [1..n + 1 -> DOMAIN sent]
    BY <2>1
  <2>4. n + 1 \in 1..n + 1
    OBVIOUS
  <2>5. g[n + 1] = k /\ \A i \in 1..n : g[i] = at[i]
    BY <2>2, <2>4
  <2> QED
    BY <2>3, <2>5
<1>5. k \in Int /\ \A i \in 1..n : at[i] \in Int
  OBVIOUS
<1>6. \A i \in 1..n + 1 : i = n + 1 \/ i \in 1..n
  OBVIOUS
<1>7. \A i \in 1..n + 1 : /\ to[i] < m
                          /\ sent[to[i]].idx = handled'[i].idx
                          /\ sent[to[i]].body = handled'[i].body
  BY <1>2, <1>3, <1>4, <1>5, <1>6
<1>8. ASSUME NEW i \in 1..n + 1, NEW j \in 1..n + 1, i < j
      PROVE  to[i] < to[j]
  <2>1. i \in 1..n
    BY <1>8
  <2>2. CASE j \in 1..n
    BY <1>3, <1>4, <1>8, <2>1, <2>2
  <2>3. CASE j = n + 1
    BY <1>3, <1>4, <2>1, <2>3
  <2> QED
    BY <1>6, <2>2, <2>3
<1> QED
  BY <1>2, <1>4, <1>7, <1>8, ZenonT(40) DEF Taken

-----------------------------------------------------------------------------
\* How many bytes have been taken, by where the thread is.
LEMMA ConsumedIs ==
    /\ pc = "idx" => Consumed = 1
    /\ pc = "len" => Consumed = 2
    /\ pc = "data" => Consumed = 4
    /\ pc = "crc" => Consumed = 4 + msg.len
    /\ pc \notin {"idx", "len", "data", "crc"} => Consumed = 0
BY DEF Consumed

\* While the port is open a read in the middle of a frame finds bytes, so none gives up.
LEMMA NeverGivesUp ==
    ASSUME WholeFrames, TypeOK, ServiceInv, pc \in {"idx", "len", "data", "crc"}
    PROVE  ~NotRead
<1>1. SUFFICES ASSUME serialFd = "open", line = <<>>
               PROVE  FALSE
  BY DEF WholeFrames, NotRead, StopFails, Fault
<1>2. PICK k \in 1..Len(sent) + 1, e \in [1..Len(sent) + 1 -> Int] :
         OnLine(k, Consumed, e) /\ Registers(k)
  BY <1>1 DEF ServiceInv, InStep
<1>3. k \in DOMAIN sent /\ k \in 1..Len(sent) /\ k \in k..Len(sent) /\ sent[k] \in Requests
  BY <1>2 DEF Registers, ServiceInv
<1>4. PICK n \in Nat : n = Len(sent[k].body) /\ Len(Encode(sent[k])) = n + 6
  BY <1>3, EncodeBytes
<1>5. Consumed \in Nat /\ Consumed <= n + 4
  <2>1. CASE pc = "crc"
    BY <1>2, <1>4, <2>1, ConsumedIs DEF Registers
  <2>2. CASE pc # "crc"
    BY <2>2, ConsumedIs
  <2> QED
    BY <2>1, <2>2
<1>6. PICK c \in Nat : c = Consumed /\ c <= n + 4
  BY <1>5
<1>7. e[k] = 0 - c /\ e[k + 1] = e[k] + (n + 6) /\ e[k + 1] <= 0
  BY <1>1, <1>2, <1>3, <1>4, <1>6 DEF OnLine
<1> QED
  BY <1>6, <1>7

\* A read of n more bytes of the k-th request.
LEMMA ReadsOn ==
    ASSUME TypeOK, ServiceInv, NEW k \in DOMAIN sent, NEW e \in [1..Len(sent) + 1 -> Int],
           NEW c \in Nat, NEW n \in Nat, n > 0, OnLine(k, c, e), Taken(k), Got(n),
           UNCHANGED <<sent, handled>>, c + n <= Len(Encode(sent[k])),
           Consumed' = c + n, Registers(k)'
    PROVE  InStep'
<1>1. PICK d \in [1..Len(sent) + 1 -> Int] : OnLine(k, c + n, d)'
  BY LineShift DEF ServiceInv
<1>2. Taken(k)' /\ k \in 1..Len(sent) + 1
  BY TakenSent DEF ServiceInv
<1>3. OnLine(k, Consumed, d)'
  BY <1>1 DEF OnLine
<1> QED
  BY <1>1, <1>2, <1>3 DEF InStep

\* What the current request of an open port is, and how many bytes of it are taken.
LEMMA CurrentRequest ==
    ASSUME TypeOK, ServiceInv, serialFd = "open", pc # "start" \/ Got(1),
           pc \in {"start", "idx", "len", "data", "crc"}
    PROVE  \E k \in DOMAIN sent, e \in [1..Len(sent) + 1 -> Int] :
              OnLine(k, Consumed, e) /\ Registers(k) /\ Taken(k)
<1>1. PICK k \in 1..Len(sent) + 1, e \in [1..Len(sent) + 1 -> Int] :
         OnLine(k, Consumed, e) /\ Registers(k) /\ Taken(k)
  BY DEF ServiceInv, InStep
<1>2. k \in DOMAIN sent
  <2>1. CASE pc = "start"
    <3>1. Consumed = 0 /\ Len(line) >= 1 /\ Len(sent) \in Nat
      BY <2>1, ConsumedIs DEF Got, ServiceInv
    <3>2. e[k] = 0 /\ e[Len(sent) + 1] = Len(line)
      BY <1>1, <3>1 DEF OnLine
    <3> QED
      BY <3>1, <3>2 DEF ServiceInv
  <2>2. CASE pc # "start"
    BY <1>1, <2>2 DEF Registers
  <2> QED
    BY <2>1, <2>2
<1> QED
  BY <1>1, <1>2

\* What a read finds on the line.
LEMMA LineBytes ==
    ASSUME sent \in Seq(Requests), NEW k \in DOMAIN sent, NEW c \in Nat,
           NEW e, OnLine(k, c, e), NEW p \in Nat, p > 0, NEW q, q = c + p,
           q <= Len(Encode(sent[k]))
    PROVE  line[p] = Encode(sent[k])[q]
<1>1. k \in k..Len(sent) /\ e[k] = 0 - c /\ Len(Encode(sent[k])) \in Nat
  BY EncodeBytes DEF OnLine
<1>2. q \in 1..Len(Encode(sent[k])) /\ (0 - c) + q = p
  BY <1>1
<1> QED
  BY <1>1, <1>2 DEF OnLine

\* The start byte of a request is read: it is one, so the frame is begun.
LEMMA StartInStep ==
    ASSUME WholeFrames, TypeOK, ServiceInv, ReadStart
    PROVE  InStep'
<1>1. Got(1) /\ msg' = [msg EXCEPT !.start = line[1]] /\ serialFd = "open" /\ pc = "start"
      /\ UNCHANGED <<sent, handled>>
  BY DEF ReadStart, WholeFrames, StopFails, Fault, Got
<1>2. PICK k \in DOMAIN sent, e \in [1..Len(sent) + 1 -> Int] :
         OnLine(k, Consumed, e) /\ Registers(k) /\ Taken(k)
  BY <1>1, CurrentRequest
<1>3. Consumed = 0 /\ sent[k] \in Requests
  BY <1>1, ConsumedIs DEF ServiceInv
<1>4. Len(Encode(sent[k])) \in Nat /\ 1 <= Len(Encode(sent[k])) /\ Encode(sent[k])[1] = START
  BY <1>3, EncodeBytes
<1>5. line[1] = START
  <2>1. OnLine(k, 0, e) /\ sent \in Seq(Requests)
    BY <1>2, <1>3 DEF ServiceInv
  <2>2. \A p \in Nat : \A q : p > 0 /\ q = 0 + p /\ q <= Len(Encode(sent[k])) =>
            line[p] = Encode(sent[k])[q]
    BY <2>1, LineBytes
  <2> QED
    BY <1>4, <2>2
<1>6. pc' = "idx" /\ Consumed' = 1
  <2>1. msg'.start = START
    BY <1>1, <1>5 DEF TypeOK
  <2>2. pc' = "idx"
    BY <2>1 DEF ReadStart
  <2> QED
    BY <2>2 DEF Consumed
<1>7. Registers(k)'
  BY <1>1, <1>6 DEF Registers
<1> QED
  BY <1>1, <1>2, <1>3, <1>4, <1>6, <1>7, ReadsOn

\* Its index.
LEMMA IdxInStep ==
    ASSUME WholeFrames, TypeOK, ServiceInv, process_msg_idx
    PROVE  InStep'
<1>1. /\ Got(1) /\ msg' = [msg EXCEPT !.idx = line[1]] /\ serialFd = "open" /\ pc = "idx"
      /\ pc' = "len" /\ UNCHANGED <<sent, handled>>
  BY NeverGivesUp DEF process_msg_idx, Got
<1>2. PICK k \in DOMAIN sent, e \in [1..Len(sent) + 1 -> Int] :
         OnLine(k, Consumed, e) /\ Registers(k) /\ Taken(k)
  BY <1>1, CurrentRequest
<1>3. Consumed = 1 /\ Consumed' = 2 /\ sent[k] \in Requests
  BY <1>1, ConsumedIs DEF ServiceInv, Consumed
<1>4. Len(Encode(sent[k])) \in Nat /\ 2 <= Len(Encode(sent[k]))
      /\ Encode(sent[k])[2] = sent[k].idx
  BY <1>3, EncodeBytes
<1>5. line[1] = sent[k].idx
  <2>1. OnLine(k, 1, e) /\ sent \in Seq(Requests)
    BY <1>2, <1>3 DEF ServiceInv
  <2>2. \A p \in Nat : \A q : p > 0 /\ q = 1 + p /\ q <= Len(Encode(sent[k])) =>
            line[p] = Encode(sent[k])[q]
    BY <2>1, LineBytes
  <2>3. line[1] = Encode(sent[k])[2]
    BY <1>4, <2>2
  <2> QED
    BY <1>4, <2>3
<1>6. Registers(k)'
  <2>1. msg'.idx = sent[k].idx
    BY <1>1, <1>5 DEF TypeOK
  <2> QED
    BY <1>1, <2>1 DEF Registers
<1> QED
  BY <1>1, <1>2, <1>3, <1>4, <1>6, ReadsOn

\* Its length, which is in range and not zero: the data is read next.
LEMMA LenInStep ==
    ASSUME WholeFrames, TypeOK, ServiceInv, process_payload_len
    PROVE  InStep'
<1>1. /\ Got(2) /\ msg' = AfterLen([msg EXCEPT !.len = line[1] * 256 + line[2]])
      /\ serialFd = "open" /\ pc = "len" /\ UNCHANGED <<sent, handled>>
      /\ pc' = IF msg'.len > DataSize THEN "idle" ELSE IF msg'.len = 0 THEN "crc" ELSE "data"
  BY NeverGivesUp DEF process_payload_len, Got
<1>2. PICK k \in DOMAIN sent, e \in [1..Len(sent) + 1 -> Int] :
         OnLine(k, Consumed, e) /\ Registers(k) /\ Taken(k)
  BY <1>1, CurrentRequest
<1>3. Consumed = 2 /\ sent[k] \in Requests
  BY <1>1, ConsumedIs DEF ServiceInv
<1>4. PICK n \in Nat : /\ n = Len(sent[k].body) /\ n > 0 /\ n <= DataSize
                       /\ Len(Encode(sent[k])) = n + 6
                       /\ Encode(sent[k])[3] * 256 + Encode(sent[k])[4] = n
  BY <1>3, EncodeBytes
<1>5. line[1] * 256 + line[2] = n
  <2>1. OnLine(k, 2, e) /\ sent \in Seq(Requests) /\ 4 <= Len(Encode(sent[k]))
    BY <1>2, <1>3, <1>4 DEF ServiceInv
  <2>2. \A p \in Nat : \A q : p > 0 /\ q = 2 + p /\ q <= Len(Encode(sent[k])) =>
            line[p] = Encode(sent[k])[q]
    BY <2>1, LineBytes
  <2>3. line[1] = Encode(sent[k])[3] /\ line[2] = Encode(sent[k])[4]
    BY <2>1, <2>2
  <2> QED
    BY <1>4, <2>3
<1>6. msg'.len = n /\ msg'.idx = msg.idx
  <2> DEFINE m == [msg EXCEPT !.len = n]
  <2>1. m.len = n /\ m.idx = msg.idx /\ [m EXCEPT !.data = Zeros].len = n
        /\ [m EXCEPT !.data = Zeros].idx = msg.idx
    BY DEF TypeOK
  <2>2. msg' = m \/ msg' = [m EXCEPT !.data = Zeros]
    BY <1>1, <1>5 DEF AfterLen
  <2> QED
    BY <2>1, <2>2
<1>7. pc' = "data" /\ Consumed' = 4
  <2>1. pc' = "data"
    BY <1>1, <1>4, <1>6, ByteWord
  <2> QED
    BY <2>1 DEF Consumed
<1>8. Registers(k)'
  BY <1>1, <1>2, <1>4, <1>6, <1>7 DEF Registers
<1>9. OnLine(k, 2, e) /\ 2 + 2 <= Len(Encode(sent[k])) /\ Consumed' = 2 + 2
  BY <1>2, <1>3, <1>4, <1>7
<1> QED
  BY <1>1, <1>2, <1>8, <1>9, ReadsOn

\* Its data, with zeros behind it.
LEMMA DataInStep ==
    ASSUME WholeFrames, TypeOK, ServiceInv, process_payload_data
    PROVE  InStep'
<1>1. /\ Got(msg.len) /\ msg' = [msg EXCEPT !.data = Overlay(SubSeq(line, 1, msg.len), Zeros)]
      /\ serialFd = "open" /\ pc = "data" /\ pc' = "crc" /\ UNCHANGED <<sent, handled>>
  BY NeverGivesUp DEF process_payload_data, Got
<1>2. PICK k \in DOMAIN sent, e \in [1..Len(sent) + 1 -> Int] :
         OnLine(k, Consumed, e) /\ Registers(k) /\ Taken(k)
  BY <1>1, CurrentRequest
<1>3. Consumed = 4 /\ sent[k] \in Requests
  BY <1>1, ConsumedIs DEF ServiceInv
<1>4. PICK n \in Nat : /\ n = Len(sent[k].body) /\ n > 0 /\ Len(Encode(sent[k])) = n + 6
                       /\ \A p \in 1..n : Encode(sent[k])[4 + p] = sent[k].body[p]
  BY <1>3, EncodeBytes
<1>5. msg.len = n /\ msg.idx = sent[k].idx
  BY <1>1, <1>2, <1>4 DEF Registers
<1>6. SubSeq(line, 1, n) = sent[k].body
  <2>5. OnLine(k, 4, e) /\ 4 + n <= Len(Encode(sent[k])) /\ sent \in Seq(Requests) /\ Got(n)
    BY <1>1, <1>2, <1>3, <1>4, <1>5 DEF ServiceInv
  <2>1. ASSUME NEW p \in 1..n
        PROVE  line[p] = sent[k].body[p]
    <3>1. p \in Nat /\ p > 0 /\ 4 + p <= Len(Encode(sent[k]))
      BY <1>4
    <3>2. line[p] = Encode(sent[k])[4 + p]
      BY <2>5, <3>1, LineBytes
    <3> QED
      BY <1>4, <3>2
  <2>2. line \in Seq(Byte) /\ sent[k].body \in Seq(Byte) /\ n <= Len(line)
    BY <1>1, <1>3, <1>5, TrafficAssumption DEF TypeOK, Got
  <2>3. SubSeq(line, 1, n) = [p \in 1..n |-> line[p]]
    BY <2>2
  <2>4. sent[k].body = [p \in 1..n |-> sent[k].body[p]]
    BY <1>4, <2>2
  <2> QED
    BY <2>1, <2>3, <2>4
<1>7. msg'.data = Overlay(sent[k].body, Zeros) /\ msg'.idx = msg.idx /\ msg'.len = n
  BY <1>1, <1>5, <1>6 DEF TypeOK
<1>8. Consumed' = 4 + n
  BY <1>1, <1>7 DEF Consumed
<1>9. Registers(k)'
  BY <1>1, <1>4, <1>5, <1>7 DEF Registers
<1>10. OnLine(k, 4, e) /\ 4 + n <= Len(Encode(sent[k])) /\ Got(n)
  BY <1>1, <1>2, <1>3, <1>4, <1>5
<1> QED
  BY <1>1, <1>2, <1>4, <1>8, <1>9, <1>10, ReadsOn

\* The CRC of a request is read: it matches, and the request is the next one handled.
LEMMA CrcInStep ==
    ASSUME WholeFrames, TypeOK, ReplyInv, ServiceInv, process_crc
    PROVE  /\ InStep' /\ Taken(Len(sent) + 1)' /\ Dispatched'
           /\ \E f \in Requests : handled' = Append(handled, [idx |-> f.idx, body |-> f.body,
                                                              got |-> got'])
<1>1. /\ Got(2) /\ msg' = [msg EXCEPT !.crc = line[1] * 256 + line[2]]
      /\ serialFd = "open" /\ pc = "crc" /\ UNCHANGED <<sent, ran>>
  BY NeverGivesUp DEF process_crc, Got
<1>2. PICK k \in DOMAIN sent, e \in [1..Len(sent) + 1 -> Int] :
         OnLine(k, Consumed, e) /\ Registers(k) /\ Taken(k)
  BY <1>1, CurrentRequest
<1>3. sent[k] \in Requests /\ k \in 1..Len(sent) /\ Len(sent) \in Nat /\ sent \in Seq(Requests)
  BY DEF ServiceInv
<1>4. PICK b \in Seq(Byte), n \in Nat :
         /\ b = sent[k].body /\ n = Len(b) /\ n > 0 /\ n <= DataSize
         /\ Len(Encode(sent[k])) = n + 6
         /\ Encode(sent[k])[n + 5] * 256 + Encode(sent[k])[n + 6] = Crc(Covered(sent[k].idx, b))
  <2>1. /\ sent[k].body \in Seq(Byte) /\ Len(sent[k].body) \in Nat /\ Len(sent[k].body) > 0
        /\ Len(sent[k].body) <= DataSize /\ Len(Encode(sent[k])) = Len(sent[k].body) + 6
        /\ Encode(sent[k])[Len(sent[k].body) + 5] * 256 + Encode(sent[k])[Len(sent[k].body) + 6]
              = Crc(Covered(sent[k].idx, sent[k].body))
    BY <1>3, EncodeBytes, TrafficAssumption
  <2> QED
    BY <2>1, Zenon
<1>5. /\ Consumed = 4 + n /\ msg.len = n /\ msg.idx = sent[k].idx /\ msg.data = Overlay(b, Zeros)
  BY <1>1, <1>2, <1>4, ConsumedIs DEF Registers
<1> DEFINE c == 4 + n
<1>0. c \in Nat /\ c + 1 = n + 5 /\ c + 2 = n + 6 /\ c = Consumed
  BY <1>5
<1> HIDE DEF c
<1>6. Body(msg) = b /\ b # <<>>
  <2>1. msg.data \in [1..DataSize -> Byte] /\ DataSize \in Nat
    BY ByteWord DEF TypeOK
  <2>2. Body(msg) = [i \in 1..Len(b) |-> msg.data[i]]
    BY <1>4, <1>5, <2>1 DEF Body
  <2>3. \A i \in 1..Len(b) : msg.data[i] = b[i]
    BY <1>4, <1>5, <2>1 DEF Overlay
  <2>4. b = [i \in 1..Len(b) |-> b[i]]
    OBVIOUS
  <2>5. b # <<>>
    <3>1. Len(b) > 0
      BY <1>4
    <3> QED
      BY <3>1
  <2>6. Body(msg) = b
    BY <2>2, <2>3, <2>4
  <2> QED
    BY <2>5, <2>6
<1>7. OnLine(k, c, e) /\ c + 2 <= Len(Encode(sent[k]))
  BY <1>0, <1>2, <1>4
<1>8. line[1] * 256 + line[2] = Crc(Covered(sent[k].idx, b))
  <2>1. c + 1 <= Len(Encode(sent[k]))
    BY <1>0, <1>7, <1>4
  <2>2. line[1] = Encode(sent[k])[n + 5]
    BY <1>0, <1>3, <1>7, <2>1, LineBytes
  <2>3. line[2] = Encode(sent[k])[n + 6]
    BY <1>0, <1>3, <1>7, <2>1, LineBytes
  <2> QED
    BY <1>4, <2>2, <2>3
<1>9. /\ msg'.idx = msg.idx /\ msg'.len = msg.len /\ msg'.data = msg.data
      /\ msg'.crc = line[1] * 256 + line[2]
  BY <1>1 DEF TypeOK
<1>10. CrcMatches(msg')
  <2>1. Body(msg') = b
    BY <1>6, <1>9 DEF Body
  <2> QED
    BY <1>5, <1>8, <1>9, <2>1 DEF CrcMatches
<1>11. /\ pc' = "payload"
       /\ handled' = Append(handled, [idx |-> sent[k].idx, body |-> b, got |-> got'])
  BY <1>5, <1>6, <1>10 DEF process_crc
<1> DEFINE h == [idx |-> sent[k].idx, body |-> b, got |-> got']
<1>12. h.idx = sent[k].idx /\ h.body = sent[k].body
  BY <1>4
<1> HIDE DEF h
<1>13. \A m \in Int : k < m => Taken(m)'
  BY <1>1, <1>2, <1>3, <1>11, <1>12, TakenNext DEF ReplyInv, h
<1>14. PICK d \in [1..Len(sent) + 1 -> Int] : OnLine(k, c + 2, d)'
  <2>1. 2 \in Nat /\ 2 > 0 /\ k \in DOMAIN sent /\ e \in [1..Len(sent) + 1 -> Int]
        /\ UNCHANGED sent
    BY <1>1, <1>2
  <2> QED
    BY <1>0, <1>1, <1>3, <1>7, <2>1, LineShift
<1>15. OnLine(k + 1, 0, d)'
  <2>1. c + 2 = Len(Encode(sent'[k])) /\ c + 2 \in Nat /\ sent' \in Seq(Requests)
        /\ k \in DOMAIN sent'
    BY <1>0, <1>1, <1>3, <1>4
  <2> QED
    BY <1>14, <2>1, FrameDone
<1>16. InStep'
  <2>1. Consumed' = 0 /\ Registers(k + 1)'
    BY <1>11 DEF Consumed, Registers
  <2>2. OnLine(k + 1, Consumed, d)'
    BY <1>15, <2>1 DEF OnLine
  <2>4. Taken(k + 1)'
    BY <1>3, <1>13
  <2>3. k + 1 \in 1..Len(sent') + 1 /\ d \in [1..Len(sent') + 1 -> Int]
    BY <1>1, <1>3
  <2> QED
    BY <2>1, <2>2, <2>3, <2>4 DEF InStep
<1>17. Taken(Len(sent) + 1)'
  <2>1. Len(sent) + 1 \in Int /\ k < Len(sent) + 1 /\ Len(sent') = Len(sent)
    BY <1>1, <1>3
  <2>2. PICK m \in Int : m = Len(sent) + 1 /\ k < m
    BY <2>1
  <2>3. Taken(m)' /\ m = Len(sent') + 1
    BY <1>13, <2>1, <2>2
  <2> QED
    BY <2>3 DEF Taken
<1>18. Dispatched'
  <2>1. Len(handled') = Len(handled) + 1 /\ handled'[Len(handled')] = h /\ Len(handled) \in Nat
    BY <1>11 DEF ReplyInv, HistoryType, h
  <2>2. \A r \in ran' : r.at \in Nat /\ r.at <= Len(handled)
    BY <1>1 DEF ServiceInv, Dispatched
  <2>3. handled'[Len(handled')].body = b
    BY <1>4, <1>12, <2>1
  <2> QED
    BY <1>4, <1>5, <1>6, <1>9, <1>11, <2>1, <2>2, <2>3 DEF Dispatched
<1> QED
  BY <1>3, <1>4, <1>11, <1>16, <1>17, <1>18

MidFrame == {"idx", "len", "data", "crc"}

\* What is dispatched does not change when nothing is handled or run and no payload is
\* looked at next.
LEMMA KeepsDispatched ==
    ASSUME Dispatched, UNCHANGED <<handled, ran>>, pc' \notin {"payload", "reset"}
    PROVE  Dispatched'
BY DEF Dispatched

\* No request before the last is forgotten when none is sent or handled.
LEMMA KeepsTaken ==
    ASSUME ServiceInv, UNCHANGED <<sent, handled>>
    PROVE  (sent \in Seq(Requests) /\ Taken(Len(sent) + 1))'
BY DEF ServiceInv, Taken

\* Reading stays in step when the line and the registers of the frame do not change.
LEMMA KeepsInStep ==
    ASSUME InStep, UNCHANGED <<serialFd, line, sent, handled>>,
           \/ UNCHANGED <<pc, msg>>
           \/ pc \notin MidFrame /\ pc' \notin MidFrame
    PROVE  InStep'
<1>1. SUFFICES ASSUME serialFd = "open"
               PROVE  \E k \in 1..Len(sent) + 1, e \in [1..Len(sent) + 1 -> Int] :
                         (OnLine(k, Consumed, e) /\ Registers(k) /\ Taken(k))'
  BY DEF InStep
<1>2. PICK k \in 1..Len(sent) + 1, e \in [1..Len(sent) + 1 -> Int] :
         OnLine(k, Consumed, e) /\ Registers(k) /\ Taken(k)
  BY <1>1 DEF InStep
<1>3. Consumed' = Consumed
  <2>1. CASE UNCHANGED <<pc, msg>>
    BY <2>1 DEF Consumed
  <2>2. CASE pc \notin MidFrame /\ pc' \notin MidFrame
    BY <2>2 DEF MidFrame, Consumed
  <2> QED
    BY <2>1, <2>2
<1>4. OnLine(k, Consumed, e)'
  BY <1>2, <1>3 DEF OnLine
<1>5. Registers(k)'
  BY <1>2 DEF Registers, MidFrame
<1>6. Taken(k)'
  BY <1>2 DEF Taken
<1> QED
  BY <1>2, <1>4, <1>5, <1>6

\* Nothing is sent and nothing handled at first, and the port is not open.
LEMMA ServiceInit ==
    ASSUME Init
    PROVE  ServiceInv
<1>1. sent \in Seq(Requests) /\ handled = <<>> /\ ran = {} /\ serialFd = "none" /\ pc = "reopen"
  BY DEF Init
<1>2. Taken(Len(sent) + 1)
  <2>1. DOMAIN handled = {}
    BY <1>1
  <2>2. [i \in {} |-> i] \in [{} -> DOMAIN sent]
    OBVIOUS
  <2> QED
    BY <2>1, <2>2 DEF Taken
<1> QED
  BY <1>1, <1>2 DEF ServiceInv, InStep, Dispatched

\* The port is opened: what it had is gone, the next request sent is read whole.
LEMMA ReopenInStep ==
    ASSUME ServiceInv, Reopen
    PROVE  InStep'
<1>1. /\ line' = <<>> /\ pc' = "idle" /\ UNCHANGED <<sent, handled>> /\ sent \in Seq(Requests)
      /\ Taken(Len(sent) + 1)
  BY DEF Reopen, hist, ServiceInv
<1>2. PICK n \in Nat : n = Len(sent) /\ n = Len(sent')
  BY <1>1
<1>3. PICK e \in [1..n + 1 -> Int] : e[n + 1] = 0
  <2>1. [j \in 1..n + 1 |-> 0] \in [1..n + 1 -> Int] /\ n + 1 \in 1..n + 1
    OBVIOUS
  <2> QED
    BY <2>1
<1>4. Consumed' = 0 /\ Registers(n + 1)'
  BY <1>1 DEF Consumed, Registers
<1>5. OnLine(n + 1, Consumed, e)'
  <2>1. (n + 1)..n = {}
    OBVIOUS
  <2>2. Len(line') = 0
    BY <1>1
  <2> QED
    BY <1>2, <1>3, <1>4, <2>1, <2>2 DEF OnLine
<1>6. Taken(n + 1)'
  BY <1>1, <1>2 DEF Taken
<1>7. n + 1 \in 1..n + 1
  OBVIOUS
<1> QED
  BY <1>2, <1>3, <1>4, <1>5, <1>6, <1>7 DEF InStep

\* The microcontroller sends another request, whole.
LEMMA SendService ==
    ASSUME WholeFrames, TypeOK, ServiceInv, NEW f \in Requests, Send(f)
    PROVE  ServiceInv'
<1>1. /\ sent' = Append(sent, f) /\ line' = line \o Encode(f)
      /\ UNCHANGED <<pc, msg, serialFd, handled, ran>>
  BY DEF Send, WholeFrames, Fault, bridge
<1>2. PICK n \in Nat : n = Len(sent) /\ Len(sent') = n + 1
  BY <1>1 DEF ServiceInv
<1>3. sent' \in Seq(Requests) /\ \A j \in 1..n : sent'[j] = sent[j]
  BY <1>1, <1>2 DEF ServiceInv
<1>4. Taken(Len(sent) + 1)'
  <2>1. PICK m \in Int : m = n + 2 /\ n + 1 <= m /\ n + 1 \in Int
    OBVIOUS
  <2>2. Taken(n + 1)
    BY <1>2 DEF ServiceInv
  <2>3. Taken(m)
    BY <2>1, <2>2, TakenOn DEF ServiceInv
  <2>4. Taken(m)'
    BY <1>1, <2>3, TakenSent DEF ServiceInv
  <2>5. Len(sent') + 1 = m
    BY <1>2, <2>1
  <2> QED
    BY <2>4, <2>5 DEF Taken
<1>5. InStep'
  <2>1. SUFFICES ASSUME serialFd = "open"
                 PROVE  InStep'
    BY <1>1 DEF InStep
  <2>2. PICK k \in 1..Len(sent) + 1, e \in [1..Len(sent) + 1 -> Int] :
           OnLine(k, Consumed, e) /\ Registers(k) /\ Taken(k)
    BY <2>1 DEF ServiceInv, InStep
  <2>3. PICK c \in Nat : c = Consumed /\ c = Consumed'
    <3>1. Consumed \in Nat
      <4>1. msg.len \in Nat
        BY ByteWord DEF TypeOK
      <4> QED
        BY <4>1 DEF Consumed
    <3>2. Consumed' = Consumed
      BY <1>1 DEF Consumed
    <3> QED
      BY <3>1, <3>2
  <2>4. PICK d \in [1..Len(sent') + 1 -> Int] : OnLine(k, c, d)'
    <3>1. OnLine(k, c, e)
      BY <2>2, <2>3
    <3> QED
      BY <1>1, <2>2, <3>1, LineGrows DEF ServiceInv
  <2>5. OnLine(k, Consumed, d)'
    BY <2>3, <2>4 DEF OnLine
  <2>6. Registers(k)'
    <3>1. DOMAIN sent = 1..n /\ DOMAIN sent' = 1..n + 1 /\ 1..n \subseteq 1..n + 1
      BY <1>2, <1>3 DEF ServiceInv
    <3> QED
      BY <1>1, <1>3, <2>2, <3>1 DEF Registers
  <2>7. Taken(k)'
    <3>1. k \in Int
      BY <2>2
    <3> QED
      BY <1>1, <2>2, <3>1, TakenSent DEF ServiceInv
  <2>8. k \in 1..Len(sent') + 1
    BY <1>2, <2>2
  <2> QED
    BY <2>4, <2>5, <2>6, <2>7, <2>8 DEF InStep
<1>6. Dispatched'
  BY <1>1 DEF ServiceInv, Dispatched
<1> QED
  BY <1>3, <1>4, <1>5, <1>6 DEF ServiceInv

\* memcmp on msg.data, which has zeros behind the payload, finds the beginning of the
\* payload itself.
LEMMA PrefixOfPayload ==
    ASSUME NEW b \in Seq(Byte), Len(b) <= DataSize, msg.data = Overlay(b, Zeros),
           NEW s \in Seq(Byte), Len(s) <= DataSize, \A i \in DOMAIN s : s[i] # 0
    PROVE  HasPrefix(msg, s) <=> (Len(b) >= Len(s) /\ SubSeq(b, 1, Len(s)) = s)
<1>1. PICK n \in Nat, m \in Nat : n = Len(s) /\ m = Len(b) /\ n <= DataSize /\ DataSize \in Nat
  <2>1. Len(s) \in Nat /\ Len(b) \in Nat /\ Len(s) <= DataSize /\ DataSize \in Nat
    BY ByteWord
  <2> QED
    BY <2>1, Zenon
<1>2. \A i \in 1..n : msg.data[i] = IF i <= m THEN b[i] ELSE 0
  BY <1>1 DEF Overlay, Zeros
<1>3. ASSUME HasPrefix(msg, s)
      PROVE  m >= n /\ SubSeq(b, 1, n) = s
  <2>1. \A i \in 1..n : i <= m /\ b[i] = s[i]
    BY <1>1, <1>2, <1>3 DEF HasPrefix
  <2>2. m >= n
    BY <2>1
  <2>3. SubSeq(b, 1, n) = [i \in 1..n |-> b[i]] /\ s = [i \in 1..n |-> s[i]]
    BY <1>1, <2>2
  <2> QED
    BY <2>1, <2>2, <2>3
<1>4. ASSUME m >= n, SubSeq(b, 1, n) = s
      PROVE  HasPrefix(msg, s)
  <2>1. \A i \in 1..n : b[i] = s[i] /\ i <= m
    BY <1>1, <1>4
  <2> QED
    BY <1>1, <1>2, <2>1 DEF HasPrefix
<1> QED
  BY <1>1, <1>3, <1>4

\* What is compared is text that fits.
LEMMA ProtocolText ==
    /\ Close \in Seq(Byte) /\ Len(Close) <= DataSize /\ \A i \in DOMAIN Close : Close[i] # 0
    /\ Reset \in Seq(Byte) /\ Len(Reset) <= DataSize /\ \A i \in DOMAIN Reset : Reset[i] # 0
    /\ Version \in Seq(Byte)
<1>1. Reset \in Seq(Byte) /\ Version \in Seq(Byte) /\ Len(Reset) + Len(Version) <= DataSize
  BY CommandAssumption
<1>2. Len(Reset) <= DataSize
  BY <1>1, ByteWord
<1> QED
  BY <1>1, <1>2, CommandAssumption, ProtocolAssumption

\* The kind of a request is the branch process_payload takes.
LEMMA KindOfPayload ==
    ASSUME NEW b \in Seq(Byte), Len(b) <= DataSize, msg.data = Overlay(b, Zeros)
    PROVE  /\ HasPrefix(msg, Close) => Kind(b) = "close"
           /\ ~HasPrefix(msg, Close) /\ HasPrefix(msg, Reset) => Kind(b) = "reset"
           /\ ~HasPrefix(msg, Close) /\ ~HasPrefix(msg, Reset) => Kind(b) = "command"
<1>1. HasPrefix(msg, Close) <=> (Len(b) >= Len(Close) /\ SubSeq(b, 1, Len(Close)) = Close)
  BY ProtocolText, PrefixOfPayload
<1>2. HasPrefix(msg, Reset) <=> (Len(b) >= Len(Reset) /\ SubSeq(b, 1, Len(Reset)) = Reset)
  BY ProtocolText, PrefixOfPayload
<1> QED
  BY <1>1, <1>2 DEF Kind

\* An accepted RESET is not also a CLOSE.
LEMMA ResetIsNoClose ==
    ASSUME NEW b \in Seq(Byte), Len(b) <= DataSize, msg.data = Overlay(b, Zeros),
           msg.len = Len(b), msg.len = Len(Reset) + Len(Version),
           HasPrefix(msg, Reset), HasVersion(msg)
    PROVE  ~HasPrefix(msg, Close)
<1>1. PICK r \in Nat, v \in Nat, n \in Nat :
         r = Len(Reset) /\ v = Len(Version) /\ n = Len(Close)
  BY ProtocolText
<1>2. SUFFICES ASSUME HasPrefix(msg, Close)
               PROVE  FALSE
  OBVIOUS
<1>3. Len(b) >= n
  BY <1>1, <1>2, ProtocolText, PrefixOfPayload
<1>4. n <= r + v
  BY <1>1, <1>3
<1>5. /\ Reset \o Version \in Seq(Byte) /\ Len(Reset \o Version) = r + v
      /\ \A i \in 1..r : (Reset \o Version)[i] = Reset[i]
      /\ \A i \in 1..v : (Reset \o Version)[r + i] = Version[i]
  BY <1>1, ProtocolText, Joined
<1>6. ASSUME NEW i \in 1..n
      PROVE  (Reset \o Version)[i] = Close[i]
  <2>1. msg.data[i] = Close[i]
    BY <1>1, <1>2 DEF HasPrefix
  <2>2. CASE i <= r
    <3>1. i \in 1..r
      BY <2>2
    <3>2. msg.data[i] = Reset[i]
      BY <1>1, <3>1 DEF HasPrefix
    <3> QED
      BY <1>5, <2>1, <3>1, <3>2
  <2>3. CASE i > r
    <3>1. i - r \in 1..v /\ r + (i - r) = i
      BY <1>4, <2>3
    <3>2. msg.data[i] = Version[i - r]
      BY <1>1, <3>1 DEF HasVersion
    <3> QED
      BY <1>5, <2>1, <3>1, <3>2
  <2>4. i <= r \/ i > r
    OBVIOUS
  <2> QED
    BY <2>2, <2>3, <2>4
<1>7. SubSeq(Reset \o Version, 1, n) = Close
  <2>1. SubSeq(Reset \o Version, 1, n) = [i \in 1..n |-> (Reset \o Version)[i]]
    BY <1>4, <1>5
  <2>2. Close = [i \in 1..n |-> Close[i]]
    BY <1>1, ProtocolText
  <2> QED
    BY <1>6, <2>1, <2>2
<1> QED
  BY <1>1, <1>4, <1>7, ProtocolAssumption

\* The frame being dispatched: its body is in the registers, it has no answer yet.
LEMMA CurrentPayload ==
    ASSUME TypeOK, ReplyInv, ServiceInv, pc \in {"payload", "reset"}
    PROVE  \E n \in Nat, b \in Seq(Byte) :
              /\ n = Len(handled) /\ n \in DOMAIN handled /\ b = handled[n].body
              /\ b # <<>> /\ Len(b) <= DataSize
              /\ msg.len = Len(b) /\ msg.data = Overlay(b, Zeros) /\ msg.idx = handled[n].idx
              /\ \A i \in DOMAIN replies : replies[i].to < n
              /\ pc = "payload" => \A r \in ran : r.at < n
              /\ pc = "reset" => Kind(b) = "reset"
<1>1. Len(handled) \in Nat /\ Len(handled) \in DOMAIN handled
      /\ handled[Len(handled)].body \in Seq(Byte)
  <2>1. handled # <<>>
    BY DEF ReplyInv, Unanswered
  <2>2. PICK R : handled \in Seq(R) /\ \A h \in R : h.body \in Seq(Byte)
    <3>1. \A h \in [idx : Byte, body : Seq(Byte),
                    got : SUBSET {"idx", "len", "data", "crc"}] : h.body \in Seq(Byte)
      OBVIOUS
    <3> QED
      BY <3>1 DEF ReplyInv, HistoryType
  <2>3. Len(handled) \in Nat /\ Len(handled) \in DOMAIN handled
        /\ handled[Len(handled)] \in R
    BY <2>1, <2>2
  <2> QED
    BY <2>2, <2>3
<1>2. /\ handled[Len(handled)].body # <<>> /\ Len(handled[Len(handled)].body) <= DataSize
      /\ msg.len = Len(handled[Len(handled)].body)
      /\ msg.data = Overlay(handled[Len(handled)].body, Zeros)
      /\ msg.idx = handled[Len(handled)].idx
      /\ \A i \in DOMAIN replies : replies[i].to < Len(handled)
      /\ pc = "payload" => \A r \in ran : r.at < Len(handled)
      /\ pc = "reset" => Kind(handled[Len(handled)].body) = "reset"
  BY DEF ServiceInv, Dispatched, ReplyInv, Unanswered
<1> QED
  BY <1>1, <1>2, Zenon

\* The steps that dispatch a frame keep what is invariant.
LEMMA DispatchKeepsService ==
    ASSUME TypeOK, ReplyInv, ServiceInv,
           \/ RejectWhenClosed \/ close \/ ResetRefused \/ ResetAccepted
           \/ ResetModule \/ ResetDone \/ UnknownCommand \/ process_cmd
    PROVE  ServiceInv'
<1>1. /\ UNCHANGED <<serialFd, line, sent, handled>>
      /\ pc \in {"payload", "reset"} /\ pc' \in {"idle", "reset"}
  BY DEF RejectWhenClosed, close, ResetRefused, ResetAccepted, ResetModule, ResetDone,
         UnknownCommand, process_cmd, Payload, link, hist
<1>2. (sent \in Seq(Requests) /\ Taken(Len(sent) + 1))'
  BY <1>1, KeepsTaken
<1>3. InStep'
  <2>1. pc \notin MidFrame /\ pc' \notin MidFrame
    BY <1>1 DEF MidFrame
  <2> QED
    BY <1>1, <2>1, KeepsInStep DEF ServiceInv
<1>4. Dispatched'
  <2>1. CASE RejectWhenClosed \/ close \/ ResetRefused \/ ResetDone \/ UnknownCommand
    <3>1. UNCHANGED ran /\ pc' = "idle"
      BY <2>1 DEF RejectWhenClosed, close, ResetRefused, ResetDone, UnknownCommand
    <3> QED
      BY <1>1, <3>1, KeepsDispatched DEF ServiceInv
  <2>2. CASE ResetAccepted
    <3>1. PICK n \in Nat, b \in Seq(Byte) :
             /\ n = Len(handled) /\ b = handled[n].body /\ b # <<>> /\ Len(b) <= DataSize
             /\ msg.len = Len(b) /\ msg.data = Overlay(b, Zeros)
      BY <1>1, CurrentPayload
    <3>2. /\ msg.len = Len(Reset) + Len(Version) /\ HasPrefix(msg, Reset) /\ HasVersion(msg)
          /\ UNCHANGED <<msg, ran>> /\ pc' = "reset"
      BY <2>2 DEF ResetAccepted, IsReset
    <3>3. Kind(b) = "reset"
      BY <3>1, <3>2, ResetIsNoClose, KindOfPayload
    <3>4. handled'[Len(handled')].body = b
      BY <1>1, <3>1
    <3> QED
      BY <1>1, <3>1, <3>2, <3>3, <3>4 DEF ServiceInv, Dispatched
  <2>3. CASE ResetModule
    <3>1. UNCHANGED <<msg, handled, ran>> /\ pc = "reset" /\ pc' \in {"reset", "idle"}
      BY <2>3 DEF ResetModule, hist
    <3> QED
      BY <3>1 DEF ServiceInv, Dispatched
  <2>4. CASE process_cmd
    <3>1. /\ ran' = ran \cup {[at |-> Len(handled), cmd |-> msg.data[1], len |-> msg.len]}
          /\ pc' = "idle"
      BY <2>4 DEF process_cmd
    <3>2. Len(handled) \in Nat
      BY DEF ReplyInv, HistoryType
    <3>3. \A r \in ran' : r.at \in Nat /\ r.at <= Len(handled)
      BY <3>1, <3>2 DEF ServiceInv, Dispatched
    <3> QED
      BY <1>1, <3>1, <3>3 DEF Dispatched
  <2> QED
    BY <2>1, <2>2, <2>3, <2>4
<1> QED
  BY <1>2, <1>3, <1>4 DEF ServiceInv

\* So do the steps after which the port is not open, and those that read nothing.
LEMMA OutsideKeepsService ==
    ASSUME WholeFrames, TypeOK, ServiceInv,
           \/ ReadFails \/ Reopen \/ EventHandler \/ SigTermEventHandler
           \/ Abort \/ Restart \/ Unplug \/ Plug
    PROVE  ServiceInv'
<1>1. UNCHANGED <<sent, handled, ran>>
  BY DEF ReadFails, Reopen, EventHandler, SigTermEventHandler, Abort, Restart, Unplug, Plug,
         bridge, hist
<1>2. (sent \in Seq(Requests) /\ Taken(Len(sent) + 1))'
  BY <1>1, KeepsTaken
<1>3. InStep'
  <2>1. CASE ReadFails \/ SigTermEventHandler \/ Restart \/ Unplug
    <3>1. serialFd' # "open"
      BY <2>1 DEF ReadFails, SigTermEventHandler, Restart, Unplug
    <3> QED
      BY <3>1 DEF InStep
  <2>2. CASE Reopen
    BY <2>2, ReopenInStep
  <2>3. CASE EventHandler \/ Abort \/ Plug
    <3>1. UNCHANGED <<serialFd, line>>
      BY <2>3 DEF EventHandler, Abort, Plug, link, bridge
    <3>2. UNCHANGED <<pc, msg>> \/ (pc \notin MidFrame /\ pc' \notin MidFrame)
      <4>1. CASE EventHandler
        BY <4>1 DEF EventHandler, MidFrame
      <4>2. CASE Abort
        BY <4>2 DEF Abort, MidFrame
      <4>3. CASE Plug
        BY <4>3 DEF Plug, bridge
      <4> QED
        BY <2>3, <4>1, <4>2, <4>3
    <3> QED
      BY <1>1, <3>1, <3>2, KeepsInStep DEF ServiceInv
  <2> QED
    BY <2>1, <2>2, <2>3
<1>4. Dispatched'
  <2>1. CASE ReadFails \/ Reopen \/ EventHandler \/ SigTermEventHandler \/ Abort \/ Restart
    <3>1. pc' \notin {"payload", "reset"}
      BY <2>1 DEF ReadFails, Reopen, EventHandler, SigTermEventHandler, Abort, Restart
    <3> QED
      BY <1>1, <3>1, KeepsDispatched DEF ServiceInv
  <2>2. CASE Unplug \/ Plug
    <3>1. UNCHANGED <<pc, handled, ran>> /\ (pc \in {"payload", "reset"} => UNCHANGED msg)
      BY <1>1, <2>2 DEF Unplug, Plug, Interrupted, bridge
    <3> QED
      BY <3>1 DEF ServiceInv, Dispatched
  <2> QED
    BY <2>1, <2>2
<1> QED
  BY <1>2, <1>3, <1>4 DEF ServiceInv

\* And reading a frame.
LEMMA ReadingKeepsService ==
    ASSUME WholeFrames, TypeOK, ReplyInv, ServiceInv,
           \/ ReadStart \/ process_msg_idx \/ process_payload_len \/ process_payload_data
           \/ process_crc
    PROVE  ServiceInv'
<1>1. CASE process_crc
  <2>1. UNCHANGED sent
    BY <1>1 DEF process_crc
  <2> QED
    BY <1>1, <2>1, CrcInStep DEF ServiceInv
<1>2. CASE ReadStart \/ process_msg_idx \/ process_payload_len \/ process_payload_data
  <2>1. UNCHANGED <<sent, handled, ran>> /\ pc' \notin {"payload", "reset"}
    BY <1>2 DEF ReadStart, process_msg_idx, process_payload_len, process_payload_data
  <2>2. InStep'
    BY <1>2, StartInStep, IdxInStep, LenInStep, DataInStep
  <2>3. (sent \in Seq(Requests) /\ Taken(Len(sent) + 1))' /\ Dispatched'
    BY <2>1, KeepsTaken, KeepsDispatched DEF ServiceInv
  <2> QED
    BY <2>2, <2>3 DEF ServiceInv
<1> QED
  BY <1>1, <1>2

\* Every step keeps reading in step and dispatches what was read.
LEMMA ServiceStep ==
    ASSUME WholeFrames, TypeOK, ReplyInv, ServiceInv, [Next]_vars
    PROVE  ServiceInv'
<1>1. CASE Program
  BY <1>1, ReadingKeepsService, DispatchKeepsService, OutsideKeepsService DEF Program
<1>2. CASE World
  <2>1. ~Lose
    BY DEF WholeFrames, Lose, Fault
  <2> QED
    BY <1>2, <2>1, SendService, OutsideKeepsService DEF World
<1>3. CASE UNCHANGED vars
  <2>1. /\ UNCHANGED <<serialFd, line, sent, handled, ran, pc, msg>>
    BY <1>3 DEF vars, link, hist
  <2>2. Dispatched'
    BY <2>1 DEF ServiceInv, Dispatched
  <2> QED
    BY <2>1, <2>2, KeepsTaken, KeepsInStep DEF ServiceInv
<1> QED
  BY <1>1, <1>2, <1>3 DEF Next

\* The requests accepted are the frames handled, and the last is the current one.
LEMMA AcceptedLen ==
    ASSUME HistoryType
    PROVE  Accepted \in Seq([idx : Byte, body : Seq(Byte)]) /\ Len(Accepted) = Len(handled)
<1>1. PICK n \in Nat : n = Len(handled) /\ DOMAIN handled = 1..n
  BY DEF HistoryType
<1>2. \A i \in 1..n : handled[i].idx \in Byte /\ handled[i].body \in Seq(Byte)
  <2>1. \A h \in [idx : Byte, body : Seq(Byte), got : SUBSET {"idx", "len", "data", "crc"}] :
           h.idx \in Byte /\ h.body \in Seq(Byte)
    OBVIOUS
  <2>2. PICK R : handled \in Seq(R) /\ \A h \in R : h.idx \in Byte /\ h.body \in Seq(Byte)
    BY <2>1 DEF HistoryType
  <2>3. \A i \in 1..n : handled[i] \in R
    BY <1>1, <2>2
  <2> QED
    BY <2>2, <2>3
<1>3. Accepted = [i \in 1..n |-> [idx |-> handled[i].idx, body |-> handled[i].body]]
  BY <1>1 DEF Accepted
<1>4. \A i \in 1..n : [idx |-> handled[i].idx, body |-> handled[i].body]
                        \in [idx : Byte, body : Seq(Byte)]
  BY <1>2
<1> QED
  BY <1>1, <1>3, <1>4

\* What the service knows of the frame being dispatched.
LEMMA CurrentOfService ==
    ASSUME TypeOK, ReplyInv, ServiceInv, pc \in {"payload", "reset"}
    PROVE  /\ Accepted # <<>>
           /\ Service!Current.idx = msg.idx
           /\ Service!Current.body \in Seq(Byte) /\ Service!Current.body # <<>>
           /\ Len(Service!Current.body) <= DataSize
           /\ msg.len = Len(Service!Current.body)
           /\ msg.data = Overlay(Service!Current.body, Zeros)
           /\ \A a \in Answers : a.to < Len(Accepted)
           /\ pc = "payload" => \A r \in Ran : r.at < Len(Accepted)
           /\ pc = "reset" => Kind(Service!Current.body) = "reset"
<1>1. PICK n \in Nat, b \in Seq(Byte) :
         /\ n = Len(handled) /\ n \in DOMAIN handled /\ b = handled[n].body
         /\ b # <<>> /\ Len(b) <= DataSize
         /\ msg.len = Len(b) /\ msg.data = Overlay(b, Zeros) /\ msg.idx = handled[n].idx
         /\ \A i \in DOMAIN replies : replies[i].to < n
         /\ pc = "payload" => \A r \in ran : r.at < n
         /\ pc = "reset" => Kind(b) = "reset"
  BY CurrentPayload
<1>2. Accepted \in Seq([idx : Byte, body : Seq(Byte)]) /\ Len(Accepted) = n
  BY <1>1, AcceptedLen DEF ReplyInv
<1>3. Accepted # <<>>
  <2>1. n \in 1..n
    BY <1>1 DEF ReplyInv, HistoryType
  <2> QED
    BY <1>2, <2>1
<1>4. Service!Current.idx = msg.idx /\ Service!Current.body = b
  <2>1. Accepted[n] = [idx |-> handled[n].idx, body |-> handled[n].body]
    BY <1>1 DEF Accepted
  <2> QED
    BY <1>1, <1>2, <2>1 DEF Service!Current
<1>5. \A a \in Answers : a.to < n
  BY <1>1 DEF Answers, Written
<1>6. pc = "payload" => \A r \in Ran : r.at < n
  BY <1>1 DEF Ran
<1> QED
  BY <1>1, <1>2, <1>3, <1>4, <1>5, <1>6

\* A response is an answer of the service when it is written, and nothing otherwise.
LEMMA AnswerOrNothing ==
    ASSUME TypeOK, ReplyInv, ServiceInv, pc \in {"payload", "reset"},
           NEW r, sendResult(r)
    PROVE  /\ serialFd = "open" => Service!Answer
           /\ serialFd # "open" => UNCHANGED Answers
<1> DEFINE new == [to |-> Len(handled), idx |-> msg.idx, body |-> r, written |-> serialFd = "open"]
<1>1. PICK m \in Nat : /\ m = Len(replies) /\ DOMAIN replies = 1..m /\ DOMAIN replies' = 1..m + 1
                       /\ \A i \in 1..m : replies'[i] = replies[i]
                       /\ replies'[m + 1] = new
  <2>1. replies' = Append(replies, new)
    BY DEF sendResult
  <2>2. PICK S : replies \in Seq(S)
    BY DEF ReplyInv, HistoryType
  <2> HIDE DEF new
  <2>3. /\ Len(replies) \in Nat /\ DOMAIN replies = 1..Len(replies)
        /\ DOMAIN replies' = 1..Len(replies) + 1
        /\ \A i \in 1..Len(replies) : replies'[i] = replies[i]
        /\ replies'[Len(replies) + 1] = new
    BY <2>1, <2>2
  <2> QED
    BY <2>3, Zenon
<1>2. \A i : i \in 1..m + 1 <=> (i \in 1..m \/ i = m + 1)
  OBVIOUS
<1>6. m + 1 \notin 1..m
  OBVIOUS
<1>3. CASE serialFd = "open"
  <2>1. Written' = Written \cup {m + 1}
    <3>1. new.written
      BY <1>3
    <3> QED
      BY <1>1, <1>2, <3>1 DEF Written
  <2>2. Answers' = Answers \cup {[to |-> Len(handled), idx |-> msg.idx]}
    <3>1. \A i \in Written : replies'[i] = replies[i]
      BY <1>1 DEF Written
    <3>2. replies'[m + 1].to = Len(handled) /\ replies'[m + 1].idx = msg.idx
      BY <1>1
    <3> QED
      BY <2>1, <3>1, <3>2, Zenon DEF Answers
  <2>3. Len(Accepted) = Len(handled)
    BY AcceptedLen DEF ReplyInv
  <2> QED
    BY <1>3, <2>2, <2>3, CurrentOfService DEF Service!Answer
<1>4. CASE serialFd # "open"
  <2>1. Written' = Written
    <3>1. ~new.written
      BY <1>4
    <3> QED
      BY <1>1, <1>2, <3>1 DEF Written
  <2>2. \A i \in Written : replies'[i] = replies[i]
    BY <1>1 DEF Written
  <2> QED
    BY <1>4, <2>1, <2>2 DEF Answers
<1> QED
  BY <1>3, <1>4

\* Accepting a frame accepts a request of the service.
LEMMA CrcAccepts ==
    ASSUME WholeFrames, TypeOK, ReplyInv, ServiceInv, process_crc
    PROVE  \E f \in Requests : Service!Accept(f)
<1>1. PICK f \in Requests :
         handled' = Append(handled, [idx |-> f.idx, body |-> f.body, got |-> got'])
  BY CrcInStep
<1>2. Taken(Len(sent) + 1)' /\ sent \in Seq(Requests) /\ UNCHANGED <<sent, ran, replies, closed>>
  BY CrcInStep DEF ServiceInv, process_crc
<1>3. PICK n \in Nat : n = Len(handled) /\ DOMAIN handled = 1..n
  BY DEF ReplyInv, HistoryType
<1> DEFINE h == [idx |-> f.idx, body |-> f.body, got |-> got']
<1>4. /\ DOMAIN handled' = 1..n + 1 /\ handled'[n + 1] = h
      /\ \A i \in 1..n : handled'[i] = handled[i]
  <2>1. PICK S : handled \in Seq(S)
    BY DEF ReplyInv, HistoryType
  <2> HIDE DEF h
  <2>2. handled' = Append(handled, h)
    BY <1>1 DEF h
  <2> QED
    BY <1>3, <2>1, <2>2
<1>5. \A g \in Requests : [idx |-> g.idx, body |-> g.body] = g
  BY ProtocolAssumption
<1>6. Accepted' = Append(Accepted, f)
  <2>1. Accepted \in Seq([idx : Byte, body : Seq(Byte)]) /\ Len(Accepted) = n
        /\ \A i \in 1..n : Accepted[i] = [idx |-> handled[i].idx, body |-> handled[i].body]
    BY <1>3, AcceptedLen DEF ReplyInv, Accepted
  <2>2. \A i \in 1..n + 1 : i \in 1..n \/ i = n + 1
    OBVIOUS
  <2>3. \A i \in 1..n + 1 : Accepted'[i] = [idx |-> handled'[i].idx, body |-> handled'[i].body]
    BY <1>4 DEF Accepted
  <2>4. Accepted' = [i \in 1..n + 1 |-> Accepted'[i]]
    BY <1>4 DEF Accepted
  <2>5. Accepted'[n + 1] = f
    <3>1. n + 1 \in 1..n + 1 /\ h.idx = f.idx /\ h.body = f.body
      OBVIOUS
    <3>2. Accepted'[n + 1] = [idx |-> handled'[n + 1].idx, body |-> handled'[n + 1].body]
      BY <2>3, <3>1
    <3>3. handled'[n + 1].idx = f.idx /\ handled'[n + 1].body = f.body
      BY <1>4, <3>1
    <3>4. Accepted'[n + 1] = [idx |-> f.idx, body |-> f.body]
      BY <3>2, <3>3
    <3> QED
      BY <1>5, <3>4
  <2>6. \A i \in 1..n : Accepted'[i] = Accepted[i]
    <3>1. \A i \in 1..n : i \in 1..n + 1
      OBVIOUS
    <3> QED
      BY <1>4, <2>1, <2>3, <3>1
  <2>7. \A i \in 1..n + 1 : Accepted'[i] = IF i = n + 1 THEN f ELSE Accepted[i]
    BY <2>2, <2>5, <2>6
  <2>8. Append(Accepted, f) = [i \in 1..n + 1 |-> IF i = n + 1 THEN f ELSE Accepted[i]]
    <3>1. f \in [idx : Byte, body : Seq(Byte)]
      BY ProtocolAssumption
    <3>2. PICK S : Accepted \in Seq(S) /\ f \in S
      BY <2>1, <3>1
    <3>3. /\ Append(Accepted, f) \in Seq(S) /\ Len(Append(Accepted, f)) = n + 1
          /\ \A i \in 1..n : Append(Accepted, f)[i] = Accepted[i]
          /\ Append(Accepted, f)[n + 1] = f
      BY <2>1, <3>2
    <3>4. Append(Accepted, f) = [i \in 1..n + 1 |-> Append(Accepted, f)[i]]
      <4>1. \A T \in Seq(S) : T = [i \in 1..Len(T) |-> T[i]]
        OBVIOUS
      <4> QED
        BY <3>3, <4>1
    <3>5. n + 1 \notin 1..n
      OBVIOUS
    <3>6. \A i \in 1..n + 1 :
             Append(Accepted, f)[i] = IF i = n + 1 THEN f ELSE Accepted[i]
      BY <2>2, <3>3, <3>5
    <3> QED
      BY <3>4, <3>6
  <2> QED
    BY <2>4, <2>7, <2>8
<1>7. Service!Embeds(Accepted', sent)
  <2>1. PICK at \in [DOMAIN handled' -> DOMAIN sent] :
           /\ \A i \in DOMAIN handled' : /\ sent[at[i]].idx = handled'[i].idx
                                         /\ sent[at[i]].body = handled'[i].body
           /\ \A i, j \in DOMAIN handled' : i < j => at[i] < at[j]
    BY <1>2 DEF Taken
  <2>2. DOMAIN Accepted' = DOMAIN handled'
        /\ \A i \in DOMAIN handled' :
              Accepted'[i] = [idx |-> handled'[i].idx, body |-> handled'[i].body]
    BY DEF Accepted
  <2>3. \A i \in DOMAIN handled' : sent[at[i]] \in Requests
    BY <1>2
  <2>4. \A i \in DOMAIN handled' : sent[at[i]] = Accepted'[i]
    BY <1>5, <2>1, <2>2, <2>3
  <2> QED
    BY <2>1, <2>2, <2>4 DEF Service!Embeds
<1>8. UNCHANGED <<Ran, Answers>>
  BY <1>2 DEF Ran, Answers, Written
<1> QED
  BY <1>2, <1>6, <1>7, <1>8 DEF Service!Accept

\* Steps that change nothing the service sees.
LEMMA Unseen ==
    ASSUME UNCHANGED <<sent, handled, ran, replies, closed>>
    PROVE  UNCHANGED Service!vars
BY DEF Service!vars, Accepted, Ran, Answers, Written

\* A response that is not written changes nothing the service sees.
LEMMA Unwritten ==
    ASSUME UNCHANGED <<sent, handled, ran, Answers, closed>>
    PROVE  UNCHANGED Service!vars
BY DEF Service!vars, Accepted, Ran

\* Each dispatch of a frame is a step of the service, or none.
LEMMA DispatchServes ==
    ASSUME TypeOK, ReplyInv, ServiceInv,
           \/ RejectWhenClosed \/ close \/ ResetRefused \/ ResetAccepted
           \/ ResetModule \/ ResetDone \/ UnknownCommand \/ process_cmd
    PROVE  [Service!Next]_(Service!vars)
<1>1. UNCHANGED <<sent, handled>> /\ pc \in {"payload", "reset"}
  BY DEF RejectWhenClosed, close, ResetRefused, ResetAccepted, ResetModule, ResetDone,
         UnknownCommand, process_cmd, Payload, hist
<1>2. UNCHANGED Accepted
  BY <1>1 DEF Accepted
<1>3. closed \in BOOLEAN
  BY DEF TypeOK
<1>4. CASE RejectWhenClosed \/ ResetAccepted \/ ResetModule
  <2>1. UNCHANGED <<sent, handled, ran, replies, closed>>
    BY <1>4 DEF RejectWhenClosed, ResetAccepted, ResetModule, Payload, hist
  <2> QED
    BY <2>1, Unseen
<1>5. CASE close
  <2>1. HasPrefix(msg, Close) /\ ~closed /\ UNCHANGED ran
    BY <1>5 DEF close
  <2>2. CASE msg.len # Len(Close)
    <3>1. UNCHANGED <<sent, handled, ran, replies, closed>>
      BY <1>1, <1>5, <2>2 DEF close
    <3> QED
      BY <3>1, Unseen
  <2>3. CASE msg.len = Len(Close)
    <3>1. sendResult(<<ACK>>) /\ closed' = (serialFd = "open")
      BY <1>5, <2>3 DEF close
    <3>2. CASE serialFd = "open"
      <4>1. Kind(Service!Current.body) = "close" /\ Accepted # <<>>
        BY <1>1, <2>1, CurrentOfService, KindOfPayload
      <4>2. Service!Answer
        BY <1>1, <3>1, <3>2, AnswerOrNothing
      <4>3. Service!CloseSession
        BY <1>1, <1>2, <2>1, <3>1, <3>2, <4>1, <4>2 DEF Service!CloseSession, Ran
      <4> QED
        BY <4>3 DEF Service!Next
    <3>3. CASE serialFd # "open"
      <4>1. UNCHANGED Answers
        BY <1>1, <3>1, <3>3, AnswerOrNothing
      <4>2. closed' = closed
        BY <1>3, <2>1, <3>1, <3>3
      <4> QED
        BY <1>1, <2>1, <4>1, <4>2, Unwritten
    <3> QED
      BY <3>2, <3>3
  <2> QED
    BY <2>2, <2>3
<1>6. CASE ResetRefused \/ UnknownCommand
  <2>1. PICK r : sendResult(r)
    BY <1>6 DEF ResetRefused, UnknownCommand
  <2>2. UNCHANGED <<ran, closed>>
    BY <1>6 DEF ResetRefused, UnknownCommand
  <2>3. CASE serialFd = "open"
    <3>1. Service!Answer
      BY <1>1, <2>1, <2>3, AnswerOrNothing
    <3>2. Accepted # <<>>
      BY <1>1, CurrentOfService
    <3>3. Service!Refuse
      BY <1>1, <1>2, <2>2, <3>1, <3>2 DEF Service!Refuse, Ran
    <3> QED
      BY <3>3 DEF Service!Next
  <2>4. CASE serialFd # "open"
    <3>1. UNCHANGED Answers
      BY <1>1, <2>1, <2>4, AnswerOrNothing
    <3> QED
      BY <1>1, <2>2, <3>1, Unwritten
  <2> QED
    BY <2>3, <2>4
<1>7. CASE ResetDone
  <2>1. /\ pc = "reset" /\ sendResult(<<0>> \o Version) /\ UNCHANGED ran
        /\ closed' = (closed /\ serialFd # "open")
    BY <1>7 DEF ResetDone
  <2>2. CASE serialFd = "open"
    <3>1. Service!Answer
      BY <1>1, <2>1, <2>2, AnswerOrNothing
    <3>2. Accepted # <<>> /\ Kind(Service!Current.body) = "reset"
      BY <1>1, <2>1, CurrentOfService
    <3>3. Service!OpenSession
      BY <1>1, <1>2, <2>1, <2>2, <3>1, <3>2 DEF Service!OpenSession, Ran
    <3> QED
      BY <3>3 DEF Service!Next
  <2>3. CASE serialFd # "open"
    <3>1. UNCHANGED Answers
      BY <1>1, <2>1, <2>3, AnswerOrNothing
    <3>2. closed' = closed
      BY <1>3, <2>1, <2>3
    <3> QED
      BY <1>1, <2>1, <3>1, <3>2, Unwritten
  <2> QED
    BY <2>2, <2>3
<1>8. CASE process_cmd
  <2>1. /\ pc = "payload" /\ IsCommand /\ msg.data[1] \in DOMAIN cmdHdlrs /\ UNCHANGED closed
        /\ ran' = ran \cup {[at |-> Len(handled), cmd |-> msg.data[1], len |-> msg.len]}
    BY <1>8 DEF process_cmd, Payload
  <2>2. /\ Accepted # <<>> /\ Kind(Service!Current.body) = "command"
        /\ \A r \in Ran : r.at < Len(Accepted)
    BY <1>1, <2>1, CurrentOfService, KindOfPayload DEF IsCommand
  <2>3. Service!Current.body[1] = msg.data[1]
    <3>1. PICK b \in Seq(Byte) : b = Service!Current.body /\ b # <<>> /\ msg.data = Overlay(b, Zeros)
      BY <1>1, CurrentOfService
    <3>2. Len(b) >= 1 /\ 1 \in 1..DataSize
      <4>1. DataSize \in Nat /\ DataSize >= 1
        BY ByteWord
      <4> QED
        BY <3>1, <4>1
    <3> QED
      BY <3>1, <3>2 DEF Overlay
  <2>4. Ran' = Ran \cup {[at |-> Len(Accepted), cmd |-> Service!Current.body[1]]}
    <3>1. Len(Accepted) = Len(handled)
      BY AcceptedLen DEF ReplyInv
    <3> DEFINE new == [at |-> Len(handled), cmd |-> msg.data[1], len |-> msg.len]
    <3>2. new.at = Len(Accepted) /\ new.cmd = Service!Current.body[1]
      BY <2>3, <3>1
    <3>3. ran' = ran \cup {new}
      BY <2>1
    <3> HIDE DEF new
    <3> QED
      BY <3>2, <3>3, Zenon DEF Ran
  <2>5. Service!Answer \/ UNCHANGED Answers
    <3>1. CASE \E r \in Results : sendResult(r)
      BY <1>1, <3>1, AnswerOrNothing
    <3>2. CASE UNCHANGED <<msg, replies>>
      BY <3>2 DEF Answers, Written
    <3> QED
      BY <1>8, <3>1, <3>2 DEF process_cmd
  <2>6. Service!Run
    BY <1>1, <1>2, <2>1, <2>2, <2>3, <2>4, <2>5 DEF Service!Run, IsCommand
  <2> QED
    BY <2>6 DEF Service!Next
<1> QED
  BY <1>4, <1>5, <1>6, <1>7, <1>8

\* So reading is in step with the frames on the line, always.
LEMMA ServiceInvariant ==
    ASSUME WholeFrames
    PROVE  Spec => []ServiceInv
<1>1. Init => ServiceInv
  BY ServiceInit
<1>2. TypeOK /\ ReplyInv /\ ServiceInv /\ [Next]_vars => ServiceInv'
  BY ServiceStep
<1> QED
  BY <1>1, <1>2, ReplyInvariant, PTL DEF Spec

-----------------------------------------------------------------------------
\* The bridge starts as the service does.
LEMMA InitServes ==
    ASSUME Init
    PROVE  Service!Init
<1>1. sent = <<>> /\ handled = <<>> /\ ran = {} /\ replies = <<>> /\ closed = FALSE
  BY DEF Init
<1>2. Accepted = <<>>
  <2>1. DOMAIN handled = {}
    BY <1>1
  <2> QED
    BY <2>1 DEF Accepted
<1>3. Ran = {} /\ Answers = {}
  <2>1. Written = {}
    BY <1>1 DEF Written
  <2> QED
    BY <1>1, <2>1 DEF Ran, Answers
<1> QED
  BY <1>1, <1>2, <1>3 DEF Service!Init

\* A step of the bridge is a step of the service, or none.
LEMMA StepServes ==
    ASSUME WholeFrames, TypeOK, ReplyInv, ServiceInv, [Next]_vars
    PROVE  [Service!Next]_(Service!vars)
<1>1. CASE process_crc
  BY <1>1, CrcAccepts DEF Service!Next
<1>2. CASE \/ RejectWhenClosed \/ close \/ ResetRefused \/ ResetAccepted
           \/ ResetModule \/ ResetDone \/ UnknownCommand \/ process_cmd
  BY <1>2, DispatchServes
<1>3. CASE \/ Reopen \/ EventHandler \/ ReadStart \/ process_msg_idx \/ process_payload_len
           \/ process_payload_data \/ Abort \/ Unplug \/ Plug
  <2>1. UNCHANGED <<sent, handled, ran, replies, closed>>
    BY <1>3 DEF Reopen, EventHandler, ReadStart, process_msg_idx, process_payload_len,
                process_payload_data, Abort, Unplug, Plug, hist, bridge
  <2> QED
    BY <2>1, Unseen
<1>4. CASE ReadFails \/ SigTermEventHandler \/ Restart
  <2>1. UNCHANGED <<sent, handled, ran, replies>> /\ (closed' = FALSE \/ UNCHANGED closed)
    BY <1>4 DEF ReadFails, SigTermEventHandler, Restart, hist
  <2>2. CASE closed' = FALSE
    BY <2>1, <2>2 DEF Service!Next, Service!Reconnect, Accepted, Ran, Answers, Written
  <2>3. CASE UNCHANGED closed
    BY <2>1, <2>3, Unseen
  <2> QED
    BY <2>1, <2>2, <2>3
<1>5. CASE \E f \in Requests : Send(f)
  <2>1. PICK f \in Requests : Send(f)
    BY <1>5
  <2>2. sent' = Append(sent, f) /\ UNCHANGED <<handled, ran, replies, closed>>
    BY <2>1 DEF Send, bridge, WholeFrames, Fault
  <2>3. Service!Request(f)
    BY <2>2 DEF Service!Request, Accepted, Ran, Answers, Written
  <2> QED
    BY <2>3 DEF Service!Next
<1>6. CASE UNCHANGED vars
  BY <1>6, Unseen DEF vars, hist
<1>7. ~Lose
  BY DEF WholeFrames, Lose, Fault
<1> QED
  BY <1>1, <1>2, <1>3, <1>4, <1>5, <1>6, <1>7 DEF Next, Program, World

\* Reading the line byte by byte, checking frames and dispatching them implements the
\* request service, across reconnections of the port and restarts of the program, for every
\* set of requests, while no byte is lost, late or cut off and the port closes
\* (mangoh_bridge_eventHandler, process_payload).
THEOREM ServiceImplemented ==
    ASSUME WholeFrames
    PROVE  Spec => ImplementsService
<1>1. Init => Service!Init
  BY InitServes
<1>2. TypeOK /\ ReplyInv /\ ServiceInv /\ [Next]_vars => [Service!Next]_(Service!vars)
  BY StepServes
<1> QED
  BY <1>1, <1>2, ReplyInvariant, ServiceInvariant, PTL
     DEF Spec, ImplementsService, Service!Spec

\* While frames come whole, every frame handled is a request that was sent, with its index
\* and its body (process_crc).
THEOREM NothingInvented ==
    ASSUME WholeFrames
    PROVE  Spec => []NoInvention
<1>1. ServiceInv => NoInvention
  BY DEF ServiceInv, Taken, NoInvention
<1> QED
  BY <1>1, ServiceInvariant, PTL

-----------------------------------------------------------------------------
\* The CRC of packets: the streams of CrcStream, whatever their bytes and the errors.

\* Octets and words are small enough numbers.
LEMMA WordRange16 ==
    /\ \A n : n \in Word16 <=> n \in Nat /\ n <= 65535
    /\ \A n : n \in Octet <=> n \in Nat /\ n <= 255
<1>1. MaxWord \in Nat /\ MaxOctet \in Nat
  BY SMT DEF MaxWord, MaxOctet
<1>2. \A n : n \in Word16 <=> n \in Nat /\ n <= MaxWord
  BY <1>1, SMT DEF Word16
<1>3. \A n : n \in Octet <=> n \in Nat /\ n <= MaxOctet
  BY <1>1, SMT DEF Octet
<1>4. \A n \in Nat : (n <= MaxWord <=> n <= 65535) /\ (n <= MaxOctet <=> n <= 255)
  BY SMT DEF MaxWord, MaxOctet
<1> QED
  BY <1>2, <1>3, <1>4, SMT

Digit == 0..15
Binary == {0, 1}
Starts == {0, 4, 8, 12}
\* A word by its bits, the least significant one first, and the difference of two bits.
Bits == [0..15 -> Binary]
Differ(a, b) == IF a = b THEN 0 ELSE 1
Nibble(a, b, c, d) == a + 2 * b + 4 * c + 8 * d
Four(x, k) == Nibble(x[k], x[k + 1], x[k + 2], x[k + 3])
Value(x) == Four(x, 0) + 16 * Four(x, 4) + 256 * Four(x, 8) + 4096 * Four(x, 12)

\* A number's last hexadecimal digit and the others.
LEMMA LastDigit ==
    ASSUME NEW m \in Digit, NEW r \in Nat
    PROVE  m + 16 * r \in Nat /\ (m + 16 * r) % 16 = m /\ (m + 16 * r) \div 16 = r
  BY SMT DEF Digit

\* Every number has them.
LEMMA DigitOf ==
    ASSUME NEW w \in Nat
    PROVE  \E m \in Digit, u \in Nat : w = m + 16 * u
<1>1. w % 16 \in Digit /\ w \div 16 \in Nat
  BY SMT DEF Digit
<1>2. w = (w % 16) + 16 * (w \div 16)
  BY SMT DEF Digit
<1> QED
  BY <1>1, <1>2, Zenon

\* A word's four nibbles.
LEMMA NibbleSum ==
    ASSUME NEW m \in Digit, NEW n \in Digit, NEW p \in Digit, NEW q \in Digit,
           NEW w, w = m + 16 * n + 256 * p + 4096 * q
    PROVE  /\ w \in Nat /\ w <= 65535
           /\ (w \div 1) % 16 = m /\ (w \div 16) % 16 = n
           /\ (w \div 256) % 16 = p /\ (w \div 4096) % 16 = q
<1>1. w \in Nat /\ w <= 65535 /\ m \in Nat /\ n \in Nat /\ p \in Nat /\ q \in Nat
  BY SMT DEF Digit
<1>2. PICK u \in Nat : u = p + 16 * q
  BY SMT DEF Digit
<1>3. u % 16 = p /\ u \div 16 = q
  BY <1>2, LastDigit, SMT
<1>4. PICK v \in Nat : v = n + 16 * u
  BY SMT DEF Digit
<1>5. v % 16 = n /\ v \div 16 = u
  BY <1>1, <1>4, LastDigit, SMT
<1>6. w = m + 16 * v
  BY <1>1, <1>2, <1>4, SMT
<1>7. w % 16 = m /\ w \div 16 = v
  BY <1>1, <1>6, LastDigit, SMT
<1>8. w \div 1 = w /\ w \div 256 = u /\ w \div 4096 = q
  <2>1. w \div 1 = w /\ w \div 256 = (w \div 16) \div 16
    BY <1>1, SMT
  <2>2. w \div 4096 = ((w \div 16) \div 16) \div 16
    BY <1>1, SMT
  <2> QED
    BY <1>1, <2>1, <2>2, <1>3, <1>5, <1>7, SMT
<1>9. q % 16 = q
  BY SMT DEF Digit
<1>10. (w \div 1) % 16 = m /\ (w \div 16) % 16 = n
  BY <1>1, <1>5, <1>7, <1>8, SMT
<1>11. (w \div 256) % 16 = p /\ (w \div 4096) % 16 = q
  BY <1>1, <1>3, <1>8, <1>9, SMT
<1> QED
  BY <1>1, <1>10, <1>11, SMT

\* Every word is made of four nibbles.
LEMMA WordNibbles ==
    ASSUME NEW w \in Nat, w <= 65535
    PROVE  \E m, n, p, q \in Digit : w = m + 16 * n + 256 * p + 4096 * q
<1>2. PICK m \in Digit, u \in Nat : w = m + 16 * u
  BY DigitOf
<1>3. PICK n \in Digit, v \in Nat : u = n + 16 * v
  BY DigitOf
<1>4. PICK p \in Digit, q \in Nat : v = p + 16 * q
  BY DigitOf
<1>5. q \in Digit
  BY <1>2, <1>3, <1>4, SMT DEF Digit
<1>6. w = m + 16 * n + 256 * p + 4096 * q
  BY <1>2, <1>3, <1>4, SMT DEF Digit
<1> QED
  BY <1>5, <1>6

\* A nibble has four bits.
LEMMA NibbleBits ==
    ASSUME NEW n \in Digit
    PROVE  \E a, b, c, d \in Binary : n = Nibble(a, b, c, d)
<1> DEFINE a == n % 2
           b == (n \div 2) % 2
           c == (n \div 4) % 2
           d == n \div 8
<1>1. a \in Binary /\ b \in Binary /\ c \in Binary /\ d \in Binary
  BY SMT DEF Digit, Binary
<1>2. n = Nibble(a, b, c, d)
  BY SMT DEF Nibble, Digit, Binary
<1> QED
  BY <1>1, <1>2, Zenon

\* A nibble shifted to the right by up to three bits.
LEMMA NibbleParts ==
    ASSUME NEW a \in Binary, NEW b \in Binary, NEW c \in Binary, NEW d \in Binary
    PROVE  /\ Nibble(a, b, c, d) \in Digit
           /\ Nibble(a, b, c, d) \div 1 = Nibble(a, b, c, d)
           /\ Nibble(a, b, c, d) \div 2 = b + 2 * c + 4 * d
           /\ Nibble(a, b, c, d) \div 4 = c + 2 * d
           /\ Nibble(a, b, c, d) \div 8 = d
  BY SMT DEF Nibble, Digit, Binary

\* Four bits of a word from one that starts a nibble on.
LEMMA Fours ==
    ASSUME NEW x \in Bits, NEW k \in Starts
    PROVE  /\ x[k] \in Binary /\ x[k + 1] \in Binary /\ x[k + 2] \in Binary /\ x[k + 3] \in Binary
           /\ Four(x, k) \in Digit
<1>1. k \in 0..15 /\ k + 1 \in 0..15 /\ k + 2 \in 0..15 /\ k + 3 \in 0..15
  BY SMT DEF Starts
<1>2. x[k] \in Binary /\ x[k + 1] \in Binary /\ x[k + 2] \in Binary /\ x[k + 3] \in Binary
  BY <1>1 DEF Bits
<1> QED
  BY <1>2, NibbleParts, Zenon DEF Four

\* Sixteen bits make a word, with a nibble for every four of them.
LEMMA ValueParts ==
    ASSUME NEW x \in Bits
    PROVE  /\ Value(x) \in Nat /\ Value(x) <= 65535 /\ Value(x) \in Word16
           /\ (Value(x) \div 1) % 16 = Four(x, 0) /\ (Value(x) \div 16) % 16 = Four(x, 4)
           /\ (Value(x) \div 256) % 16 = Four(x, 8) /\ (Value(x) \div 4096) % 16 = Four(x, 12)
<1>1. Four(x, 0) \in Digit /\ Four(x, 4) \in Digit /\ Four(x, 8) \in Digit /\ Four(x, 12) \in Digit
  BY Fours, SMT DEF Starts
<1>2. /\ Value(x) \in Nat /\ Value(x) <= 65535
      /\ (Value(x) \div 1) % 16 = Four(x, 0) /\ (Value(x) \div 16) % 16 = Four(x, 4)
      /\ (Value(x) \div 256) % 16 = Four(x, 8) /\ (Value(x) \div 4096) % 16 = Four(x, 12)
  BY <1>1, NibbleSum, SMT DEF Value
<1>3. Value(x) \in Word16
  BY <1>2, WordRange16, SMT
<1> QED
  BY <1>2, <1>3, SMT

\* Every word is the value of its bits.
LEMMA WordBits ==
    ASSUME NEW w \in Word16
    PROVE  \E x \in Bits : w = Value(x)
<1>1. w \in Nat /\ w <= 65535
  BY WordRange16
<1>2. PICK m, n, p, q \in Digit : w = m + 16 * n + 256 * p + 4096 * q
  BY <1>1, WordNibbles
<1>4. PICK a0, a1, a2, a3 \in Binary : m = Nibble(a0, a1, a2, a3)
  BY NibbleBits, Zenon
<1>5. PICK b0, b1, b2, b3 \in Binary : n = Nibble(b0, b1, b2, b3)
  BY NibbleBits, Zenon
<1>6. PICK c0, c1, c2, c3 \in Binary : p = Nibble(c0, c1, c2, c3)
  BY NibbleBits, Zenon
<1>7. PICK d0, d1, d2, d3 \in Binary : q = Nibble(d0, d1, d2, d3)
  BY NibbleBits, Zenon
<1> DEFINE bits == <<a0, a1, a2, a3, b0, b1, b2, b3, c0, c1, c2, c3, d0, d1, d2, d3>>
           x == [i \in 0..15 |-> bits[i + 1]]
<1>8. \A i \in 0..15 : bits[i + 1] \in Binary
  OBVIOUS
<1>9. x \in Bits
  BY <1>8 DEF Bits
<1>10. /\ x[0] = a0 /\ x[1] = a1 /\ x[2] = a2 /\ x[3] = a3
       /\ x[4] = b0 /\ x[5] = b1 /\ x[6] = b2 /\ x[7] = b3
       /\ x[8] = c0 /\ x[9] = c1 /\ x[10] = c2 /\ x[11] = c3
       /\ x[12] = d0 /\ x[13] = d1 /\ x[14] = d2 /\ x[15] = d3
  OBVIOUS
<1> HIDE DEF x
<1>11. Four(x, 0) = m /\ Four(x, 4) = n /\ Four(x, 8) = p /\ Four(x, 12) = q
  BY <1>4, <1>5, <1>6, <1>7, <1>10, SMT DEF Four
<1>12. w = Value(x)
  BY <1>2, <1>11, SMT DEF Value
<1> QED
  BY <1>9, <1>12, Zenon

\* A word, and each nibble of it, is the value of no other bits.
LEMMA FourOnce ==
    ASSUME NEW x \in Bits, NEW y \in Bits, NEW k \in Starts, Four(x, k) = Four(y, k)
    PROVE  x[k] = y[k] /\ x[k + 1] = y[k + 1] /\ x[k + 2] = y[k + 2] /\ x[k + 3] = y[k + 3]
<1> DEFINE a == x[k]
           b == x[k + 1]
           c == x[k + 2]
           d == x[k + 3]
           p == y[k]
           q == y[k + 1]
           r == y[k + 2]
           s == y[k + 3]
<1>1. /\ a \in Binary /\ b \in Binary /\ c \in Binary /\ d \in Binary
      /\ p \in Binary /\ q \in Binary /\ r \in Binary /\ s \in Binary
  BY Fours
<1>2. Nibble(a, b, c, d) = Nibble(p, q, r, s)
  BY DEF Four
<1> HIDE DEF a, b, c, d, p, q, r, s
<1>3. a = p /\ b = q /\ c = r /\ d = s
  BY <1>1, <1>2, SMT DEF Nibble, Binary
<1> QED
  BY <1>3 DEF a, b, c, d, p, q, r, s

LEMMA ValueOnce ==
    ASSUME NEW x \in Bits, NEW y \in Bits, Value(x) = Value(y)
    PROVE  x = y
<1>1. \A k \in Starts : Four(x, k) = Four(y, k)
  BY ValueParts, SMT DEF Starts
<1>2. ASSUME NEW k \in Starts
      PROVE  x[k] = y[k] /\ x[k + 1] = y[k + 1] /\ x[k + 2] = y[k + 2] /\ x[k + 3] = y[k + 3]
  BY <1>1, FourOnce
<1>3. \A i \in 0..15 : \E k \in Starts : i \in {k, k + 1, k + 2, k + 3}
  BY SMT DEF Starts
<1>4. \A i \in 0..15 : x[i] = y[i]
  BY <1>2, <1>3
<1> QED
  BY <1>4 DEF Bits

\* The exclusive or of two words works on each pair of bits.
Sum(x, y) == [i \in 0..15 |-> Differ(x[i], y[i])]

LEMMA SumBits ==
    ASSUME NEW x \in Bits, NEW y \in Bits
    PROVE  Sum(x, y) \in Bits /\ \A i \in 0..15 : Sum(x, y)[i] = Differ(x[i], y[i])
  BY DEF Sum, Bits, Differ, Binary

LEMMA NibbleXor ==
    ASSUME NEW x \in Bits, NEW y \in Bits, NEW k \in Starts
    PROVE  XorNibble[Four(x, k)][Four(y, k)] = Four(Sum(x, y), k)
<1> DEFINE a == x[k]
           b == x[k + 1]
           c == x[k + 2]
           d == x[k + 3]
           p == y[k]
           q == y[k + 1]
           r == y[k + 2]
           s == y[k + 3]
           m == Nibble(a, b, c, d)
           n == Nibble(p, q, r, s)
           Bit(i) == i * (((m \div i) + (n \div i)) % 2)
<1>1. k \in 0..15 /\ k + 1 \in 0..15 /\ k + 2 \in 0..15 /\ k + 3 \in 0..15
  BY SMT DEF Starts
<1>2. /\ a \in Binary /\ b \in Binary /\ c \in Binary /\ d \in Binary
      /\ p \in Binary /\ q \in Binary /\ r \in Binary /\ s \in Binary
  BY Fours
<1>3. Four(Sum(x, y), k) = Nibble(Differ(a, p), Differ(b, q), Differ(c, r), Differ(d, s))
  BY <1>1, SumBits, Zenon DEF Four
<1>4. Four(x, k) = m /\ Four(y, k) = n
  BY DEF Four
<1> HIDE DEF a, b, c, d, p, q, r, s
<1>5. /\ m \in Digit /\ n \in Digit
      /\ m \div 1 = m /\ m \div 2 = b + 2 * c + 4 * d /\ m \div 4 = c + 2 * d /\ m \div 8 = d
      /\ n \div 1 = n /\ n \div 2 = q + 2 * r + 4 * s /\ n \div 4 = r + 2 * s /\ n \div 8 = s
  BY <1>2, NibbleParts
<1>6. XorNibble[m][n] = Bit(1) + Bit(2) + Bit(4) + Bit(8)
  BY <1>5, Zenon DEF XorNibble, Digit
<1>7. Bit(1) = Differ(a, p)
  BY <1>2, <1>5 DEF Differ, Nibble, Binary
<1> HIDE DEF m, n
<1>8. Bit(2) = 2 * Differ(b, q)
  BY <1>2, <1>5 DEF Differ, Binary
<1>9. Bit(4) = 4 * Differ(c, r)
  BY <1>2, <1>5 DEF Differ, Binary
<1>10. Bit(8) = 8 * Differ(d, s)
  BY <1>2, <1>5 DEF Differ, Binary
<1> QED
  BY <1>3, <1>4, <1>6, <1>7, <1>8, <1>9, <1>10 DEF Nibble

LEMMA XorBits ==
    ASSUME NEW x \in Bits, NEW y \in Bits
    PROVE  Xor(Value(x), Value(y)) = Value(Sum(x, y))
<1> DEFINE v == Value(x)
           w == Value(y)
           Part(k) == k * XorNibble[(v \div k) % 16][(w \div k) % 16]
<1>1. v \in Word16 /\ w \in Word16
  BY ValueParts
<1> HIDE DEF v, w
<1>2. Xor(v, w) = Part(1) + Part(16) + Part(256) + Part(4096)
  BY <1>1 DEF Xor
<1> HIDE DEF Part
<1>4. /\ Part(1) = Four(Sum(x, y), 0) /\ Part(16) = 16 * Four(Sum(x, y), 4)
      /\ Part(256) = 256 * Four(Sum(x, y), 8) /\ Part(4096) = 4096 * Four(Sum(x, y), 12)
  <2>1. Four(Sum(x, y), 0) \in Digit
    BY SumBits, Fours DEF Starts
  <2> QED
  BY NibbleXor, <2>1, ValueParts, SMT DEF Part, v, w, Digit, Starts
<1> QED
  BY <1>2, <1>4, SMT DEF Value, v, w

\* Words shifted to the right and to the left, and their low halves, bit by bit.
Down(x, k) == [i \in 0..15 |-> IF i + k <= 15 THEN x[i + k] ELSE 0]
Up(x, k) == [i \in 0..15 |-> IF i >= k THEN x[i - k] ELSE 0]
Low(x) == [i \in 0..15 |-> IF i < 8 THEN x[i] ELSE 0]
OctetBits == {x \in Bits : \A i \in 8..15 : x[i] = 0}

LEMMA ShiftBits ==
    ASSUME NEW x \in Bits, NEW k \in 0..15
    PROVE  Down(x, k) \in Bits /\ Up(x, k) \in Bits /\ Low(x) \in Bits /\ Low(x) \in OctetBits
<1>1. \A i \in 0..15 : x[i] \in Binary
  BY DEF Bits
<1>2. 0 \in Binary
  BY DEF Binary
<1>3. Down(x, k) \in Bits
  BY <1>1, <1>2 DEF Down, Bits
<1>4. Up(x, k) \in Bits
  BY <1>1, <1>2 DEF Up, Bits
<1>5. Low(x) \in Bits
  BY <1>1, <1>2 DEF Low, Bits
<1> QED
  BY <1>3, <1>4, <1>5 DEF Low, OctetBits

\* A nibble without its lowest bit.
Rest(x, k) == x[k + 1] + 2 * x[k + 2] + 4 * x[k + 3]

LEMMA RestOf ==
    ASSUME NEW x \in Bits, NEW k \in Starts
    PROVE  /\ Four(x, k) = x[k] + 2 * Rest(x, k) /\ Rest(x, k) \in 0..7 /\ x[k] \in Binary
           /\ Four(x, k) = x[k] + 2 * x[k + 1] + 4 * x[k + 2] + 8 * x[k + 3]
<1> DEFINE a == x[k]
           b == x[k + 1]
           c == x[k + 2]
           d == x[k + 3]
<1>1. a \in Binary /\ b \in Binary /\ c \in Binary /\ d \in Binary
  BY Fours
<1>2. Four(x, k) = Nibble(a, b, c, d) /\ Rest(x, k) = b + 2 * c + 4 * d
  BY DEF Four, Rest
<1> HIDE DEF a, b, c, d
<1>3. Nibble(a, b, c, d) = a + 2 * (b + 2 * c + 4 * d) /\ b + 2 * c + 4 * d \in 0..7
  BY <1>1, SMT DEF Nibble, Binary
<1>4. Nibble(a, b, c, d) = a + 2 * b + 4 * c + 8 * d
  BY <1>1, SMT DEF Nibble, Binary
<1> QED
  BY <1>1, <1>2, <1>3, <1>4 DEF a, b, c, d

\* The last bit of a word, and the word shifted over it (c % 2 and c >> 1).
LEMMA Halves ==
    ASSUME NEW x \in Bits
    PROVE  Value(x) % 2 = x[0] /\ Value(x) \div 2 = Value(Down(x, 1))
<1> DEFINE y == Down(x, 1)
           b0 == x[0]
           b1 == x[4]
           b2 == x[8]
           b3 == x[12]
           r0 == Rest(x, 0)
           r1 == Rest(x, 4)
           r2 == Rest(x, 8)
           r3 == Rest(x, 12)
<1>1. y \in Bits
  BY ShiftBits
<1>2. /\ y[0] = x[1] /\ y[1] = x[2] /\ y[2] = x[3] /\ y[3] = x[4]
      /\ y[4] = x[5] /\ y[5] = x[6] /\ y[6] = x[7] /\ y[7] = x[8]
      /\ y[8] = x[9] /\ y[9] = x[10] /\ y[10] = x[11] /\ y[11] = x[12]
      /\ y[12] = x[13] /\ y[13] = x[14] /\ y[14] = x[15] /\ y[15] = 0
  BY SMT DEF Down
<1> HIDE DEF y
<1>3. /\ Four(x, 0) = b0 + 2 * r0 /\ Four(x, 4) = b1 + 2 * r1
      /\ Four(x, 8) = b2 + 2 * r2 /\ Four(x, 12) = b3 + 2 * r3
      /\ b0 \in Binary /\ b1 \in Binary /\ b2 \in Binary /\ b3 \in Binary
      /\ r0 \in 0..7 /\ r1 \in 0..7 /\ r2 \in 0..7 /\ r3 \in 0..7
  BY RestOf, SMT DEF Starts
<1>4. /\ Four(y, 0) = r0 + 8 * b1 /\ Four(y, 4) = r1 + 8 * b2
      /\ Four(y, 8) = r2 + 8 * b3 /\ Four(y, 12) = r3
  <2>1. Four(y, 0) = r0 + 8 * b1
    BY <1>1, <1>2, RestOf, SMT DEF Rest, Starts
  <2>2. Four(y, 4) = r1 + 8 * b2
    BY <1>1, <1>2, RestOf, SMT DEF Rest, Starts
  <2>3. Four(y, 8) = r2 + 8 * b3
    BY <1>1, <1>2, RestOf, SMT DEF Rest, Starts
  <2>4. Four(y, 12) = r3
    BY <1>1, <1>2, RestOf, SMT DEF Rest, Starts
  <2> QED
    BY <2>1, <2>2, <2>3, <2>4
<1> HIDE DEF b0, b1, b2, b3, r0, r1, r2, r3
<1>5. Value(y) \in Nat /\ Value(x) = b0 + 2 * Value(y)
  <2>1. Value(y) \in Nat
    BY <1>1, ValueParts
  <2>2. /\ b0 \in Int /\ b1 \in Int /\ b2 \in Int /\ b3 \in Int
        /\ r0 \in Int /\ r1 \in Int /\ r2 \in Int /\ r3 \in Int
    BY <1>3, SMT DEF Binary
  <2>3. Value(x) = (b0 + 2 * r0) + 16 * (b1 + 2 * r1) + 256 * (b2 + 2 * r2) + 4096 * (b3 + 2 * r3)
    BY <1>3, SMT DEF Value
  <2>4. Value(y) = (r0 + 8 * b1) + 16 * (r1 + 8 * b2) + 256 * (r2 + 8 * b3) + 4096 * r3
    BY <1>4, SMT DEF Value
  <2> QED
    BY <2>1, <2>2, <2>3, <2>4, SMT
<1>6. Value(x) % 2 = b0 /\ Value(x) \div 2 = Value(y)
  BY <1>3, <1>5, SMT DEF Binary
<1> QED
  BY <1>6 DEF y, b0

\* An octet in the high half of a word, another in the low one.
Join(x, y) == [i \in 0..15 |-> IF i < 8 THEN x[i] ELSE y[i - 8]]

\* The low byte of a word and the high one (the casts and crc >> 8 of crcUpdate).
LEMMA HighLow ==
    ASSUME NEW x \in Bits
    PROVE  /\ Value(x) % 256 = Value(Low(x)) /\ Value(x) \div 256 = Value(Down(x, 8))
           /\ Down(x, 8) \in OctetBits
<1> DEFINE y == Low(x)
           z == Down(x, 8)
           l == Four(x, 0) + 16 * Four(x, 4)
           h == Four(x, 8) + 16 * Four(x, 12)
<1>1. y \in Bits /\ z \in Bits
  BY ShiftBits
<1>2. /\ y[0] = x[0] /\ y[1] = x[1] /\ y[2] = x[2] /\ y[3] = x[3]
      /\ y[4] = x[4] /\ y[5] = x[5] /\ y[6] = x[6] /\ y[7] = x[7]
      /\ y[8] = 0 /\ y[9] = 0 /\ y[10] = 0 /\ y[11] = 0
      /\ y[12] = 0 /\ y[13] = 0 /\ y[14] = 0 /\ y[15] = 0
  BY SMT DEF Low
<1>3. /\ z[0] = x[8] /\ z[1] = x[9] /\ z[2] = x[10] /\ z[3] = x[11]
      /\ z[4] = x[12] /\ z[5] = x[13] /\ z[6] = x[14] /\ z[7] = x[15]
      /\ z[8] = 0 /\ z[9] = 0 /\ z[10] = 0 /\ z[11] = 0
      /\ z[12] = 0 /\ z[13] = 0 /\ z[14] = 0 /\ z[15] = 0
  BY SMT DEF Down
<1>4. \A i \in 8..15 : z[i] = 0
  BY SMT DEF Down
<1> HIDE DEF y, z
<1>5. Four(y, 0) = Four(x, 0) /\ Four(y, 4) = Four(x, 4) /\ Four(y, 8) = 0 /\ Four(y, 12) = 0
  BY <1>2, SMT DEF Four, Nibble
<1>6. Four(z, 0) = Four(x, 8) /\ Four(z, 4) = Four(x, 12) /\ Four(z, 8) = 0 /\ Four(z, 12) = 0
  BY <1>3, SMT DEF Four, Nibble
<1>7. Four(x, 0) \in Digit /\ Four(x, 4) \in Digit /\ Four(x, 8) \in Digit /\ Four(x, 12) \in Digit
  BY Fours, SMT DEF Starts
<1>8. l \in Nat /\ l <= 255 /\ h \in Nat /\ Value(x) = l + 256 * h
  <2>1. /\ Four(x, 0) \in Nat /\ Four(x, 4) \in Nat /\ Four(x, 8) \in Nat /\ Four(x, 12) \in Nat
        /\ Four(x, 0) <= 15 /\ Four(x, 4) <= 15
    BY <1>7, SMT DEF Digit
  <2> QED
    BY <2>1, SMT DEF Value
<1>9. Value(y) = l /\ Value(z) = h
  BY <1>5, <1>6, <1>7, SMT DEF Value, Digit
<1> HIDE DEF l, h
<1>10. Value(x) % 256 = l /\ Value(x) \div 256 = h
  BY <1>8, SMT
<1>11. z \in OctetBits
  BY <1>1, <1>4 DEF OctetBits
<1> QED
  BY <1>9, <1>10, <1>11 DEF y, z

\* Eight bits make a byte.
LEMMA OctetValue ==
    ASSUME NEW t \in OctetBits
    PROVE  /\ t \in Bits /\ Value(t) = Four(t, 0) + 16 * Four(t, 4)
           /\ Four(t, 0) \in Digit /\ Four(t, 4) \in Digit
           /\ Value(t) \in Nat /\ Value(t) <= 255 /\ Value(t) \in Octet
<1>1. t \in Bits /\ \A i \in 8..15 : t[i] = 0
  BY DEF OctetBits
<1>2. Four(t, 8) = 0 /\ Four(t, 12) = 0
  BY <1>1, SMT DEF Four, Nibble
<1>3. Four(t, 0) \in Digit /\ Four(t, 4) \in Digit
  BY <1>1, Fours, SMT DEF Starts
<1>4. Value(t) = Four(t, 0) + 16 * Four(t, 4)
  BY <1>2, <1>3, SMT DEF Value, Digit
<1>5. Value(t) \in Nat /\ Value(t) <= 255
  BY <1>3, <1>4, SMT DEF Digit
<1> QED
  BY <1>1, <1>3, <1>4, <1>5, WordRange16

\* The shifts of a byte in crcUpdate: val >> 4, val << 4 in 8 bits, val << 3 in 16.
LEMMA OctetShifts ==
    ASSUME NEW t \in OctetBits
    PROVE  /\ Value(t) \div 16 = Value(Down(t, 4))
           /\ (Value(t) * 16) % 256 = Value(Low(Up(t, 4)))
           /\ Value(t) * 8 = Value(Up(t, 3))
<1> DEFINE y == Down(t, 4)
           z == Low(Up(t, 4))
           u == Up(t, 3)
           m == Four(t, 0)
           n == Four(t, 4)
<1>1. /\ t \in Bits /\ Value(t) = m + 16 * n /\ m \in Digit /\ n \in Digit
      /\ \A i \in 8..15 : t[i] = 0
  BY OctetValue DEF OctetBits
<1>2. y \in Bits /\ z \in Bits /\ u \in Bits
  BY <1>1, ShiftBits
<1>3. /\ y[0] = t[4] /\ y[1] = t[5] /\ y[2] = t[6] /\ y[3] = t[7]
      /\ y[4] = 0 /\ y[5] = 0 /\ y[6] = 0 /\ y[7] = 0
      /\ y[8] = 0 /\ y[9] = 0 /\ y[10] = 0 /\ y[11] = 0
      /\ y[12] = 0 /\ y[13] = 0 /\ y[14] = 0 /\ y[15] = 0
  BY <1>1, SMT DEF Down
<1>4. /\ z[0] = 0 /\ z[1] = 0 /\ z[2] = 0 /\ z[3] = 0
      /\ z[4] = t[0] /\ z[5] = t[1] /\ z[6] = t[2] /\ z[7] = t[3]
      /\ z[8] = 0 /\ z[9] = 0 /\ z[10] = 0 /\ z[11] = 0
      /\ z[12] = 0 /\ z[13] = 0 /\ z[14] = 0 /\ z[15] = 0
  BY SMT DEF Low, Up
<1>5. /\ u[0] = 0 /\ u[1] = 0 /\ u[2] = 0 /\ u[3] = t[0]
      /\ u[4] = t[1] /\ u[5] = t[2] /\ u[6] = t[3] /\ u[7] = t[4]
      /\ u[8] = t[5] /\ u[9] = t[6] /\ u[10] = t[7] /\ u[11] = 0
      /\ u[12] = 0 /\ u[13] = 0 /\ u[14] = 0 /\ u[15] = 0
  BY <1>1, SMT DEF Up
<1> HIDE DEF y, z, u
<1>6. Four(y, 0) = n /\ Four(y, 4) = 0 /\ Four(y, 8) = 0 /\ Four(y, 12) = 0
  BY <1>3, SMT DEF Four, Nibble
<1>7. Four(z, 0) = 0 /\ Four(z, 4) = m /\ Four(z, 8) = 0 /\ Four(z, 12) = 0
  BY <1>4, SMT DEF Four, Nibble
<1> DEFINE b0 == t[0]
           b1 == t[4]
           r0 == Rest(t, 0)
           r1 == Rest(t, 4)
<1>8. /\ m = b0 + 2 * r0 /\ n = b1 + 2 * r1
      /\ b0 \in Int /\ b1 \in Int /\ r0 \in Int /\ r1 \in Int
  BY <1>1, RestOf, SMT DEF Starts, Binary
<1>9. Four(u, 0) = 8 * b0 /\ Four(u, 4) = r0 + 8 * b1 /\ Four(u, 8) = r1 /\ Four(u, 12) = 0
  <2>1. Four(u, 0) = 8 * b0
    BY <1>5, <1>8, SMT DEF Four, Nibble
  <2>2. Four(u, 4) = r0 + 8 * b1
    BY <1>2, <1>5, RestOf, SMT DEF Starts, Rest
  <2>3. Four(u, 8) = r1
    <3>1. Four(u, 8) = u[8] + 2 * u[9] + 4 * u[10] + 8 * u[11]
      BY SMT DEF Four, Nibble
    <3>2. r1 = t[5] + 2 * t[6] + 4 * t[7]
      BY SMT DEF Rest
    <3>3. t[5] \in Int /\ t[6] \in Int /\ t[7] \in Int
      BY <1>1, SMT DEF Bits, Binary
    <3> QED
      BY <1>5, <3>1, <3>2, <3>3, SMT
  <2>4. Four(u, 12) = 0
    BY <1>2, <1>5, RestOf, SMT DEF Starts
  <2> QED
    BY <2>1, <2>2, <2>3, <2>4
<1> HIDE DEF m, n, b0, b1, r0, r1
<1>10. m \in Nat /\ m <= 15 /\ n \in Nat /\ n <= 15
  BY <1>1, SMT DEF Digit
<1>11. Value(t) \div 16 = n /\ (Value(t) * 16) % 256 = 16 * m
  BY <1>1, <1>10, SMT
<1>12. Value(y) = n /\ Value(z) = 16 * m
  BY <1>6, <1>7, <1>10, SMT DEF Value
<1>13. Value(u) = 8 * b0 + 16 * (r0 + 8 * b1) + 256 * r1
  BY <1>8, <1>9, SMT DEF Value
<1>14. Value(t) * 8 = Value(u)
  BY <1>1, <1>8, <1>13, SMT
<1> QED
  BY <1>11, <1>12, <1>14 DEF y, z, u

\* val << 8 in 16 bits, with a byte below it.
LEMMA JoinValue ==
    ASSUME NEW x \in OctetBits, NEW t \in OctetBits
    PROVE  Join(x, t) \in Bits /\ ((Value(t) * 256) % 65536) + Value(x) = Value(Join(x, t))
<1> DEFINE y == Join(x, t)
<1>1. y \in Bits
  BY SMT DEF Join, OctetBits, Bits
<1>2. /\ y[0] = x[0] /\ y[1] = x[1] /\ y[2] = x[2] /\ y[3] = x[3]
      /\ y[4] = x[4] /\ y[5] = x[5] /\ y[6] = x[6] /\ y[7] = x[7]
      /\ y[8] = t[0] /\ y[9] = t[1] /\ y[10] = t[2] /\ y[11] = t[3]
      /\ y[12] = t[4] /\ y[13] = t[5] /\ y[14] = t[6] /\ y[15] = t[7]
  BY SMT DEF Join
<1> HIDE DEF y
<1>3. /\ Four(y, 0) = Four(x, 0) /\ Four(y, 4) = Four(x, 4)
      /\ Four(y, 8) = Four(t, 0) /\ Four(y, 12) = Four(t, 4)
  BY <1>2, SMT DEF Four
<1>4. /\ Value(x) = Four(x, 0) + 16 * Four(x, 4) /\ Value(t) = Four(t, 0) + 16 * Four(t, 4)
      /\ Four(x, 0) \in Int /\ Four(x, 4) \in Int /\ Four(t, 0) \in Int /\ Four(t, 4) \in Int
      /\ Value(t) \in Nat /\ Value(t) <= 255 /\ Value(x) \in Nat
  BY OctetValue, SMT DEF Digit
<1>5. (Value(t) * 256) % 65536 = Value(t) * 256
  BY <1>4, SMT
<1>6. Value(y) = Value(x) + 256 * Value(t)
  BY <1>3, <1>4, SMT DEF Value
<1>7. (Value(t) * 256) + Value(x) = Value(y)
  BY <1>4, <1>6, SMT
<1> QED
  BY <1>1, <1>5, <1>7 DEF y

\* Words are equal when their sixteen bits are.
LEMMA SameBits ==
    ASSUME NEW x \in Bits, NEW y \in Bits,
           x[0] = y[0] /\ x[1] = y[1] /\ x[2] = y[2] /\ x[3] = y[3],
           x[4] = y[4] /\ x[5] = y[5] /\ x[6] = y[6] /\ x[7] = y[7],
           x[8] = y[8] /\ x[9] = y[9] /\ x[10] = y[10] /\ x[11] = y[11],
           x[12] = y[12] /\ x[13] = y[13] /\ x[14] = y[14] /\ x[15] = y[15]
    PROVE  x = y
<1>1. \A i \in 0..15 : x[i] = y[i]
  BY SMT
<1> QED
  BY <1>1 DEF Bits

\* The reference on the bits of a register: one bit, and four of them at once.
BitOn(x) ==
    [i \in 0..15 |-> IF i = 15 THEN x[0]
                     ELSE IF i \in {3, 10} THEN Differ(x[i + 1], x[0])
                     ELSE x[i + 1]]
FourOn(x) ==
    [i \in 0..15 |-> IF i < 4 THEN Differ(x[i + 4], x[i])
                     ELSE IF i \in 7..10 THEN Differ(x[i + 4], x[i - 7])
                     ELSE IF i < 12 THEN x[i + 4]
                     ELSE x[i - 12]]

\* They are what the reference computes, for one bit and for four.
LEMMA BitOnBits ==
    ASSUME NEW x \in Bits
    PROVE  /\ BitOn(x) \in Bits /\ FourOn(x) \in Bits
           /\ RefBit(Value(x)) = Value(BitOn(x))
<1>1. \A i \in 0..15 : x[i] \in Binary
  BY DEF Bits
<1>2. \A a, b : Differ(a, b) \in Binary
  BY DEF Differ, Binary
<1>3. BitOn(x) \in Bits
  BY <1>1, <1>2 DEF BitOn, Bits
<1>4. FourOn(x) \in Bits
  BY <1>1, <1>2 DEF FourOn, Bits
<1> DEFINE poly == [i \in 0..15 |-> IF i \in {3, 10, 15} THEN 1 ELSE 0]
           v == Value(x)
           w == v \div 2
           y == Down(x, 1)
<1>5. poly \in Bits
  BY DEF Bits, Binary
<1>6. Value(poly) = 33800
  <2>1. /\ poly[0] = 0 /\ poly[1] = 0 /\ poly[2] = 0 /\ poly[3] = 1
        /\ poly[4] = 0 /\ poly[5] = 0 /\ poly[6] = 0 /\ poly[7] = 0
        /\ poly[8] = 0 /\ poly[9] = 0 /\ poly[10] = 1 /\ poly[11] = 0
        /\ poly[12] = 0 /\ poly[13] = 0 /\ poly[14] = 0 /\ poly[15] = 1
    OBVIOUS
  <2> HIDE DEF poly
  <2>2. Four(poly, 0) = 8 /\ Four(poly, 4) = 0 /\ Four(poly, 8) = 4 /\ Four(poly, 12) = 8
    BY <2>1, SMT DEF Four, Nibble
  <2> QED
    BY <2>2, SMT DEF Value
<1>7. v \in Word16 /\ v % 2 = x[0] /\ w = Value(y) /\ y \in Bits
  BY Halves, ValueParts, ShiftBits
<1>8. RefBit(v) = IF v % 2 = 1 THEN Xor(w, 33800) ELSE w
  <2> HIDE DEF v, w
  <2> QED
    BY <1>7, SMT DEF RefBit, w
<1>9. CASE x[0] = 1
  <2>1. RefBit(v) = Value(Sum(y, poly))
    <3> HIDE DEF poly, y, v, w
    <3> QED
      BY <1>5, <1>6, <1>7, <1>8, <1>9, XorBits
  <2>2. Sum(y, poly) \in Bits
    BY <1>5, <1>7, SumBits
  <2>3. \A i \in 0..15 : Sum(y, poly)[i] = BitOn(x)[i]
    BY <1>1, <1>9, SMT DEF Sum, Down, BitOn, Differ, Binary
  <2>4. Sum(y, poly) = BitOn(x)
    BY <1>3, <2>2, <2>3 DEF Bits
  <2> QED
    BY <1>3, <1>4, <2>1, <2>4
<1>10. CASE x[0] = 0
  <2>1. RefBit(v) = Value(y)
    BY <1>7, <1>8, <1>10
  <2>2. \A i \in 0..15 : y[i] = BitOn(x)[i]
    BY <1>1, <1>10, SMT DEF Down, BitOn, Differ, Binary
  <2>3. y = BitOn(x)
    BY <1>3, <1>7, <2>2 DEF Bits
  <2> QED
    BY <1>3, <1>4, <2>1, <2>3
<1> QED
  BY <1>1, <1>9, <1>10 DEF Binary

LEMMA FourOnBits ==
    ASSUME NEW x \in Bits
    PROVE  RefNibble(Value(x)) = Value(FourOn(x))
<1> DEFINE y == BitOn(x)
           z == BitOn(y)
           u == BitOn(z)
           v == BitOn(u)
           w == FourOn(x)
<1>1. y \in Bits /\ z \in Bits /\ u \in Bits /\ v \in Bits /\ w \in Bits
  BY BitOnBits
<1>2. RefNibble(Value(x)) = Value(v)
  BY <1>1, BitOnBits DEF RefNibble
<1>3. /\ y[0] = x[1] /\ y[1] = x[2] /\ y[2] = x[3] /\ y[3] = Differ(x[4], x[0])
      /\ y[4] = x[5] /\ y[5] = x[6] /\ y[6] = x[7] /\ y[7] = x[8]
      /\ y[8] = x[9] /\ y[9] = x[10] /\ y[10] = Differ(x[11], x[0]) /\ y[11] = x[12]
      /\ y[12] = x[13] /\ y[13] = x[14] /\ y[14] = x[15] /\ y[15] = x[0]
  BY SMT DEF BitOn
<1> HIDE DEF y
<1>4. /\ z[0] = y[1] /\ z[1] = y[2] /\ z[2] = y[3] /\ z[3] = Differ(y[4], y[0])
      /\ z[4] = y[5] /\ z[5] = y[6] /\ z[6] = y[7] /\ z[7] = y[8]
      /\ z[8] = y[9] /\ z[9] = y[10] /\ z[10] = Differ(y[11], y[0]) /\ z[11] = y[12]
      /\ z[12] = y[13] /\ z[13] = y[14] /\ z[14] = y[15] /\ z[15] = y[0]
  BY SMT DEF BitOn
<1> HIDE DEF z
<1>5. /\ u[0] = z[1] /\ u[1] = z[2] /\ u[2] = z[3] /\ u[3] = Differ(z[4], z[0])
      /\ u[4] = z[5] /\ u[5] = z[6] /\ u[6] = z[7] /\ u[7] = z[8]
      /\ u[8] = z[9] /\ u[9] = z[10] /\ u[10] = Differ(z[11], z[0]) /\ u[11] = z[12]
      /\ u[12] = z[13] /\ u[13] = z[14] /\ u[14] = z[15] /\ u[15] = z[0]
  BY SMT DEF BitOn
<1> HIDE DEF u
<1>6. /\ v[0] = u[1] /\ v[1] = u[2] /\ v[2] = u[3] /\ v[3] = Differ(u[4], u[0])
      /\ v[4] = u[5] /\ v[5] = u[6] /\ v[6] = u[7] /\ v[7] = u[8]
      /\ v[8] = u[9] /\ v[9] = u[10] /\ v[10] = Differ(u[11], u[0]) /\ v[11] = u[12]
      /\ v[12] = u[13] /\ v[13] = u[14] /\ v[14] = u[15] /\ v[15] = u[0]
  BY SMT DEF BitOn
<1> HIDE DEF v
<1>7. /\ w[0] = Differ(x[4], x[0]) /\ w[1] = Differ(x[5], x[1])
      /\ w[2] = Differ(x[6], x[2]) /\ w[3] = Differ(x[7], x[3])
      /\ w[4] = x[8] /\ w[5] = x[9] /\ w[6] = x[10] /\ w[7] = Differ(x[11], x[0])
      /\ w[8] = Differ(x[12], x[1]) /\ w[9] = Differ(x[13], x[2]) /\ w[10] = Differ(x[14], x[3])
      /\ w[11] = x[15] /\ w[12] = x[0] /\ w[13] = x[1] /\ w[14] = x[2] /\ w[15] = x[3]
  BY SMT DEF FourOn
<1> HIDE DEF w
<1>8. v = w
  BY <1>1, <1>3, <1>4, <1>5, <1>6, <1>7, SameBits
<1> QED
  BY <1>2, <1>8 DEF w

\* One byte on the bits of a register: the loop's body, and the reference.
Mixed(t) == Sum(t, Low(Up(t, 4)))
Stepped(h, t) == Sum(Sum(Join(h, Mixed(t)), Down(Mixed(t), 4)), Up(Mixed(t), 3))

\* Every byte is the value of eight bits.
LEMMA OctetBitsOf ==
    ASSUME NEW b \in Octet
    PROVE  \E y \in OctetBits : b = Value(y)
<1>1. b \in Nat /\ b <= 255 /\ b \in Word16
  BY WordRange16
<1>2. PICK y \in Bits : b = Value(y)
  BY <1>1, WordBits
<1>3. b \div 256 = 0
  BY <1>1, SMT
<1>4. Value(Down(y, 8)) = 0 /\ Down(y, 8) \in OctetBits
  BY <1>2, <1>3, HighLow
<1> DEFINE z == Down(y, 8)
<1>5. [i \in 0..15 |-> 0] \in OctetBits
  BY DEF OctetBits, Bits, Binary
<1>6. Value([i \in 0..15 |-> 0]) = 0
  BY SMT DEF Value, Four, Nibble
<1>7. z = [i \in 0..15 |-> 0]
  BY <1>4, <1>5, <1>6, OctetValue, ValueOnce
<1>8. \A i \in 8..15 : y[i] = 0
  <2>1. ASSUME NEW i \in 8..15
        PROVE  y[i] = z[i - 8]
    BY SMT DEF Down
  <2> HIDE DEF z
  <2>2. \A i \in 8..15 : z[i - 8] = 0
    BY <1>7, SMT
  <2> QED
    BY <2>1, <2>2
<1> QED
  BY <1>2, <1>8 DEF OctetBits

\* Mix and the loop's body on bits.
LEMMA MixBits ==
    ASSUME NEW t \in OctetBits
    PROVE  Mixed(t) \in OctetBits /\ Mix[Value(t)] = Value(Mixed(t))
<1>1. t \in Bits /\ Up(t, 4) \in Bits /\ Low(Up(t, 4)) \in Bits
  BY OctetValue, ShiftBits
<1>2. Mixed(t) \in Bits
  BY <1>1, SumBits DEF Mixed
<1>3. \A i \in 8..15 : Mixed(t)[i] = 0
  BY SMT DEF Mixed, Sum, Low, Differ, OctetBits
<1>4. Mix[Value(t)] = Xor(Value(t), (Value(t) * 16) % 256)
  BY OctetValue, SMT DEF Mix
<1>5. Mix[Value(t)] = Value(Mixed(t))
  BY <1>1, <1>4, OctetShifts, XorBits DEF Mixed
<1> QED
  BY <1>2, <1>3, <1>5 DEF OctetBits

LEMMA StepBits ==
    ASSUME NEW x \in Bits, NEW y \in OctetBits
    PROVE  LET t == Sum(y, Low(x))
               h == Down(x, 8)
           IN  /\ t \in OctetBits /\ h \in OctetBits /\ Stepped(h, t) \in Bits
               /\ crcStep(Value(x), Value(y)) = Value(Stepped(h, t))
<1> DEFINE t == Sum(y, Low(x))
           h == Down(x, 8)
           m == Mixed(t)
           c == Value(x)
           b == Value(y)
<1>1. y \in Bits /\ Low(x) \in Bits
  BY OctetValue, ShiftBits, SMT
<1>2. t \in Bits
  BY <1>1, SumBits
<1>3. t \in OctetBits
  <2>1. \A i \in 8..15 : t[i] = 0
    BY SMT DEF Sum, Low, Differ, OctetBits
  <2> QED
    BY <1>2, <2>1 DEF OctetBits
<1>4. h \in OctetBits /\ h \in Bits /\ c \div 256 = Value(h) /\ c % 256 = Value(Low(x))
  BY HighLow DEF OctetBits
<1>5. Xor(b, c % 256) = Value(t)
  BY <1>1, <1>4, XorBits
<1> HIDE DEF t, h
<1>6. m \in OctetBits /\ m \in Bits /\ Mix[Value(t)] = Value(m)
  BY <1>3, MixBits DEF OctetBits
<1> HIDE DEF m
<1>7. c \in Word16 /\ b \in Octet
  BY ValueParts, OctetValue
<1>8. crcStep(c, b) =
      Xor(Xor(((Value(m) * 256) % 65536) + (c \div 256), Value(m) \div 16), Value(m) * 8)
  <2> HIDE DEF c, b
  <2> QED
    BY <1>5, <1>6, <1>7, SMT DEF crcStep
<1>9. /\ Join(h, m) \in Bits /\ ((Value(m) * 256) % 65536) + Value(h) = Value(Join(h, m))
      /\ Value(m) \div 16 = Value(Down(m, 4)) /\ Value(m) * 8 = Value(Up(m, 3))
      /\ Down(m, 4) \in Bits /\ Up(m, 3) \in Bits
  BY <1>4, <1>6, JoinValue, OctetShifts, ShiftBits, SMT
<1>10. Sum(Join(h, m), Down(m, 4)) \in Bits /\ Sum(Sum(Join(h, m), Down(m, 4)), Up(m, 3)) \in Bits
  BY <1>9, SumBits
<1>11. crcStep(c, b) = Value(Sum(Sum(Join(h, m), Down(m, 4)), Up(m, 3)))
  <2>1. Xor(Value(Join(h, m)), Value(Down(m, 4))) = Value(Sum(Join(h, m), Down(m, 4)))
    BY <1>9, XorBits
  <2>2. Xor(Value(Sum(Join(h, m), Down(m, 4))), Value(Up(m, 3)))
        = Value(Sum(Sum(Join(h, m), Down(m, 4)), Up(m, 3)))
    BY <1>9, <1>10, XorBits
  <2> HIDE DEF c, b
  <2> QED
    BY <1>4, <1>8, <1>9, <2>1, <2>2, SMT
<1> QED
  BY <1>3, <1>4, <1>10, <1>11 DEF Stepped, m, t, h

\* The loop's body is the reference's eight bits: after them the register holds, in
\* each bit, the differences of the same bits of the register and of the byte.
LEMMA EightBits ==
    ASSUME NEW h \in OctetBits, NEW t \in OctetBits
    PROVE  FourOn(FourOn(Join(t, h))) = Stepped(h, t)
<1> DEFINE x == Join(t, h)
           y == FourOn(x)
           z == FourOn(y)
           m == Mixed(t)
           j == Join(h, m)
           d == Down(m, 4)
           u == Up(m, 3)
           w == Stepped(h, t)
<1>1. /\ t \in Bits /\ h \in Bits /\ m \in OctetBits /\ m \in Bits
      /\ x \in Bits /\ y \in Bits /\ z \in Bits /\ j \in Bits /\ d \in Bits /\ u \in Bits /\ w \in Bits
  <2>1. t \in Bits /\ h \in Bits /\ m \in OctetBits /\ m \in Bits
    BY MixBits, OctetValue
  <2>2. x \in Bits /\ j \in Bits /\ d \in Bits /\ u \in Bits
    BY <2>1, JoinValue, ShiftBits
  <2>3. y \in Bits /\ z \in Bits
    BY <2>2, BitOnBits
  <2>4. w \in Bits
    BY <2>2, SumBits DEF Stepped
  <2> QED
    BY <2>1, <2>2, <2>3, <2>4
<1>2. /\ x[0] = t[0] /\ x[1] = t[1] /\ x[2] = t[2] /\ x[3] = t[3]
      /\ x[4] = t[4] /\ x[5] = t[5] /\ x[6] = t[6] /\ x[7] = t[7]
      /\ x[8] = h[0] /\ x[9] = h[1] /\ x[10] = h[2] /\ x[11] = h[3]
      /\ x[12] = h[4] /\ x[13] = h[5] /\ x[14] = h[6] /\ x[15] = h[7]
  BY SMT DEF Join
<1>3. /\ m[0] = t[0] /\ m[1] = t[1] /\ m[2] = t[2] /\ m[3] = t[3]
      /\ m[4] = Differ(t[4], t[0]) /\ m[5] = Differ(t[5], t[1])
      /\ m[6] = Differ(t[6], t[2]) /\ m[7] = Differ(t[7], t[3])
  <2> DEFINE a == Low(Up(t, 4))
  <2>1. /\ a[0] = 0 /\ a[1] = 0 /\ a[2] = 0 /\ a[3] = 0
        /\ a[4] = t[0] /\ a[5] = t[1] /\ a[6] = t[2] /\ a[7] = t[3]
    BY SMT DEF Low, Up
  <2>2. \A i \in 0..15 : m[i] = Differ(t[i], a[i]) /\ t[i] \in Binary
    BY <1>1 DEF Mixed, Sum, Bits
  <2>3. \A b \in Binary : Differ(b, 0) = b
    BY SMT DEF Differ, Binary
  <2> HIDE DEF a, m
  <2> QED
    BY <2>1, <2>2, <2>3, SMT
<1> HIDE DEF x, m
<1>4. /\ y[0] = Differ(x[4], x[0]) /\ y[1] = Differ(x[5], x[1])
      /\ y[2] = Differ(x[6], x[2]) /\ y[3] = Differ(x[7], x[3])
      /\ y[4] = x[8] /\ y[5] = x[9] /\ y[6] = x[10] /\ y[7] = Differ(x[11], x[0])
      /\ y[8] = Differ(x[12], x[1]) /\ y[9] = Differ(x[13], x[2]) /\ y[10] = Differ(x[14], x[3])
      /\ y[11] = x[15] /\ y[12] = x[0] /\ y[13] = x[1] /\ y[14] = x[2] /\ y[15] = x[3]
  BY SMT DEF FourOn
<1> HIDE DEF y
<1>5. /\ z[0] = Differ(y[4], y[0]) /\ z[1] = Differ(y[5], y[1])
      /\ z[2] = Differ(y[6], y[2]) /\ z[3] = Differ(y[7], y[3])
      /\ z[4] = y[8] /\ z[5] = y[9] /\ z[6] = y[10] /\ z[7] = Differ(y[11], y[0])
      /\ z[8] = Differ(y[12], y[1]) /\ z[9] = Differ(y[13], y[2]) /\ z[10] = Differ(y[14], y[3])
      /\ z[11] = y[15] /\ z[12] = y[0] /\ z[13] = y[1] /\ z[14] = y[2] /\ z[15] = y[3]
  BY SMT DEF FourOn
<1> HIDE DEF z
<1>6. /\ j[0] = h[0] /\ j[1] = h[1] /\ j[2] = h[2] /\ j[3] = h[3]
      /\ j[4] = h[4] /\ j[5] = h[5] /\ j[6] = h[6] /\ j[7] = h[7]
      /\ j[8] = m[0] /\ j[9] = m[1] /\ j[10] = m[2] /\ j[11] = m[3]
      /\ j[12] = m[4] /\ j[13] = m[5] /\ j[14] = m[6] /\ j[15] = m[7]
  BY SMT DEF Join
<1>7. /\ d[0] = m[4] /\ d[1] = m[5] /\ d[2] = m[6] /\ d[3] = m[7]
      /\ d[4] = 0 /\ d[5] = 0 /\ d[6] = 0 /\ d[7] = 0
      /\ d[8] = 0 /\ d[9] = 0 /\ d[10] = 0 /\ d[11] = 0
      /\ d[12] = 0 /\ d[13] = 0 /\ d[14] = 0 /\ d[15] = 0
  BY <1>1, SMT DEF Down, OctetBits
<1>8. /\ u[0] = 0 /\ u[1] = 0 /\ u[2] = 0 /\ u[3] = m[0]
      /\ u[4] = m[1] /\ u[5] = m[2] /\ u[6] = m[3] /\ u[7] = m[4]
      /\ u[8] = m[5] /\ u[9] = m[6] /\ u[10] = m[7] /\ u[11] = 0
      /\ u[12] = 0 /\ u[13] = 0 /\ u[14] = 0 /\ u[15] = 0
  BY <1>1, SMT DEF Up, OctetBits
<1>9. \A i \in 0..15 : w[i] = Differ(Differ(j[i], d[i]), u[i])
  BY <1>1, SumBits DEF Stepped, m
<1> HIDE DEF j, d, u, w
<1>10. \A i \in 0..15 : t[i] \in Binary /\ h[i] \in Binary
  BY <1>1 DEF Bits
<1>11. z = w
  <2>1. z[0] = w[0] /\ z[1] = w[1] /\ z[2] = w[2] /\ z[3] = w[3]
    BY <1>2, <1>3, <1>4, <1>5, <1>6, <1>7, <1>8, <1>9, <1>10, SMT DEF Differ, Binary
  <2>2. z[4] = w[4] /\ z[5] = w[5] /\ z[6] = w[6] /\ z[7] = w[7]
    BY <1>2, <1>3, <1>4, <1>5, <1>6, <1>7, <1>8, <1>9, <1>10, SMT DEF Differ, Binary
  <2>3. z[8] = w[8] /\ z[9] = w[9] /\ z[10] = w[10] /\ z[11] = w[11]
    BY <1>2, <1>3, <1>4, <1>5, <1>6, <1>7, <1>8, <1>9, <1>10, SMT DEF Differ, Binary
  <2>4. z[12] = w[12] /\ z[13] = w[13] /\ z[14] = w[14] /\ z[15] = w[15]
    BY <1>2, <1>3, <1>4, <1>5, <1>6, <1>7, <1>8, <1>9, <1>10, SMT DEF Differ, Binary
  <2> QED
    BY <1>1, <2>1, <2>2, <2>3, <2>4, SameBits
<1> QED
  BY <1>11 DEF z, y, x, w

\* The loop's body computes the reference, for every register and every byte, and
\* keeps the register's width.
LEMMA StepIsReference ==
    ASSUME NEW c \in Word16, NEW b \in Octet
    PROVE  crcStep(c, b) = RefStep(c, b) /\ crcStep(c, b) \in Word16
<1>1. PICK x \in Bits : c = Value(x)
  BY WordBits
<1>2. PICK y \in OctetBits : b = Value(y)
  BY OctetBitsOf
<1> DEFINE t == Sum(y, Low(x))
           h == Down(x, 8)
           z == Sum(x, y)
<1>3. /\ t \in OctetBits /\ h \in OctetBits /\ Stepped(h, t) \in Bits
      /\ crcStep(c, b) = Value(Stepped(h, t))
  BY <1>1, <1>2, StepBits
<1>4. y \in Bits /\ z \in Bits /\ Xor(c, b) = Value(z)
  BY <1>1, <1>2, OctetValue, SumBits, XorBits
<1>5. z = Join(t, h)
  <2>1. \A i \in 0..15 : x[i] \in Binary /\ y[i] \in Binary
    BY <1>1, <1>4 DEF Bits
  <2>2. \A i \in 8..15 : y[i] = 0
    BY <1>2 DEF OctetBits
  <2>3. ASSUME NEW i \in 0..7
        PROVE  z[i] = Join(t, h)[i]
    BY <2>1, SMT DEF Sum, Join, Low, Differ, Binary
  <2>4. ASSUME NEW i \in 8..15
        PROVE  z[i] = Join(t, h)[i]
    BY <2>1, <2>2, SMT DEF Sum, Join, Down, Differ, Binary
  <2>5. \A i \in 0..15 : z[i] = Join(t, h)[i]
    <3>1. \A i \in 0..15 : i \in 0..7 \/ i \in 8..15
      BY SMT
    <3> QED
      BY <2>3, <2>4, <3>1
  <2> QED
    BY <1>4, <2>5 DEF Join, Sum
<1> HIDE DEF z, t, h
<1>6. FourOn(z) \in Bits /\ FourOn(FourOn(z)) \in Bits
  BY <1>4, BitOnBits
<1>7. RefStep(c, b) = Value(FourOn(FourOn(z)))
  BY <1>4, <1>6, FourOnBits DEF RefStep
<1>8. FourOn(FourOn(z)) = Stepped(h, t)
  BY <1>3, <1>5, EightBits
<1> QED
  BY <1>3, <1>7, <1>8, ValueParts

\* Differences of words: in any order, and with nothing lost.
Zero == [i \in 0..15 |-> 0]

LEMMA SumLaws ==
    ASSUME NEW x \in Bits, NEW y \in Bits, NEW z \in Bits
    PROVE  /\ Sum(x, y) = Sum(y, x) /\ Sum(Sum(x, y), z) = Sum(x, Sum(y, z))
           /\ (Sum(x, y) = Sum(x, z) => y = z) /\ Sum(x, Zero) = x
           /\ Zero \in OctetBits /\ Zero \in Bits /\ Value(Zero) = 0
<1>1. \A i \in 0..15 : x[i] \in Binary /\ y[i] \in Binary /\ z[i] \in Binary
  BY DEF Bits
<1>2. \A a, b \in Binary : Differ(a, b) = Differ(b, a) /\ Differ(a, 0) = a
  BY SMT DEF Differ, Binary
<1>4. Sum(x, y) = Sum(y, x)
  BY <1>1, <1>2 DEF Sum
<1>5. Sum(Sum(x, y), z) = Sum(x, Sum(y, z))
  <2>1. ASSUME NEW i \in 0..15
        PROVE  Differ(Sum(x, y)[i], z[i]) = Differ(x[i], Sum(y, z)[i])
    <3>1. Sum(x, y)[i] = Differ(x[i], y[i]) /\ Sum(y, z)[i] = Differ(y[i], z[i])
      BY SumBits
    <3>2. x[i] \in Binary /\ y[i] \in Binary /\ z[i] \in Binary
      BY <1>1
    <3> QED
      BY <3>1, <3>2, SMT DEF Differ, Binary
  <2> QED
    BY <2>1 DEF Sum
<1>6. ASSUME Sum(x, y) = Sum(x, z)
      PROVE  y = z
  <2>1. \A i \in 0..15 : Differ(x[i], y[i]) = Differ(x[i], z[i])
    BY <1>6, SumBits
  <2>2. ASSUME NEW i \in 0..15
        PROVE  y[i] = z[i]
    <3>1. Differ(x[i], y[i]) = Differ(x[i], z[i])
      BY <2>1
    <3>2. x[i] \in Binary /\ y[i] \in Binary /\ z[i] \in Binary
      BY <1>1
    <3> QED
      BY <3>1, <3>2, SMT DEF Differ, Binary
  <2> QED
    BY <2>2 DEF Bits
<1>7. Sum(x, Zero) = x
  <2>1. \A i \in 0..15 : Differ(x[i], Zero[i]) = x[i]
    BY <1>1, <1>2 DEF Zero
  <2> QED
    BY <2>1 DEF Sum, Bits
<1>8. Zero \in Bits /\ Zero \in OctetBits
  BY DEF Zero, OctetBits, Bits, Binary
<1>9. Value(Zero) = 0
  BY SMT DEF Zero, Value, Four, Nibble
<1> QED
  BY <1>4, <1>5, <1>6, <1>7, <1>8, <1>9

\* The reference distributes over differences, and loses none.
LEMMA FourOnLaws ==
    ASSUME NEW x \in Bits, NEW y \in Bits
    PROVE  /\ FourOn(Sum(x, y)) = Sum(FourOn(x), FourOn(y))
           /\ FourOn(x) = FourOn(y) => x = y
<1>1. \A i \in 0..15 : x[i] \in Binary /\ y[i] \in Binary
  BY DEF Bits
<1>3. \A a, b, c \in Binary : Differ(a, b) = Differ(c, b) => a = c
  BY SMT DEF Differ, Binary
<1>4. FourOn(Sum(x, y)) = Sum(FourOn(x), FourOn(y))
  <2> DEFINE z == Sum(x, y)
  <2>1. \A i \in 0..15 : z[i] = Differ(x[i], y[i])
    BY SumBits
  <2> HIDE DEF z
  <2>2. ASSUME NEW i \in 0..15
        PROVE  FourOn(z)[i] = Differ(FourOn(x)[i], FourOn(y)[i])
    <3>1. CASE i < 4
      <4>1. i + 4 \in 0..15
        BY <3>1
      <4>2. /\ FourOn(z)[i] = Differ(z[i + 4], z[i])
            /\ FourOn(x)[i] = Differ(x[i + 4], x[i]) /\ FourOn(y)[i] = Differ(y[i + 4], y[i])
        BY <3>1, SMT DEF FourOn
      <4>3. z[i + 4] = Differ(x[i + 4], y[i + 4]) /\ z[i] = Differ(x[i], y[i])
        BY <2>1, <4>1
      <4>4. x[i] \in Binary /\ y[i] \in Binary /\ x[i + 4] \in Binary /\ y[i + 4] \in Binary
        BY <1>1, <4>1
      <4> QED
        BY <4>2, <4>3, <4>4, SMT DEF Differ, Binary
    <3>2. CASE i \in 7..10
      <4>1. i + 4 \in 0..15 /\ i - 7 \in 0..15
        BY <3>2
      <4>2. /\ FourOn(z)[i] = Differ(z[i + 4], z[i - 7])
            /\ FourOn(x)[i] = Differ(x[i + 4], x[i - 7]) /\ FourOn(y)[i] = Differ(y[i + 4], y[i - 7])
        BY <3>2, SMT DEF FourOn
      <4>3. z[i + 4] = Differ(x[i + 4], y[i + 4]) /\ z[i - 7] = Differ(x[i - 7], y[i - 7])
        BY <2>1, <4>1
      <4>4. x[i - 7] \in Binary /\ y[i - 7] \in Binary /\ x[i + 4] \in Binary /\ y[i + 4] \in Binary
        BY <1>1, <4>1
      <4> QED
        BY <4>2, <4>3, <4>4, SMT DEF Differ, Binary
    <3>3. CASE ~(i < 4) /\ i \notin 7..10 /\ i < 12
      BY <2>1, <3>3, SMT DEF FourOn
    <3>4. CASE ~(i < 12)
      BY <2>1, <3>4, SMT DEF FourOn
    <3> QED
      BY <3>1, <3>2, <3>3, <3>4, Zenon
  <2>3. FourOn(z) \in Bits /\ Sum(FourOn(x), FourOn(y)) \in Bits
    BY BitOnBits, SumBits DEF z
  <2>4. \A i \in 0..15 : FourOn(z)[i] = Sum(FourOn(x), FourOn(y))[i]
    BY <2>2 DEF Sum
  <2> QED
    BY <2>3, <2>4 DEF Bits, z
<1>5. ASSUME FourOn(x) = FourOn(y)
      PROVE  x = y
  <2>1. \A i \in 0..15 : FourOn(x)[i] = FourOn(y)[i]
    BY <1>5
  <2>2. \A i \in 0..3 : x[i] = y[i]
    <3>1. \A i \in 0..3 : FourOn(x)[i + 12] = x[i] /\ FourOn(y)[i + 12] = y[i] /\ i + 12 \in 0..15
      BY SMT DEF FourOn
    <3> QED
      BY <2>1, <3>1
  <2>3. \A i \in 0..3 : FourOn(x)[i] = Differ(x[i + 4], x[i]) /\ FourOn(y)[i] = Differ(y[i + 4], y[i])
    BY SMT DEF FourOn
  <2>4. \A i \in 0..3 : x[i + 4] = y[i + 4]
    BY <1>1, <1>3, <2>1, <2>2, <2>3
  <2>5. \A i \in {4, 5, 6, 11} : FourOn(x)[i] = x[i + 4] /\ FourOn(y)[i] = y[i + 4]
    BY SMT DEF FourOn
  <2>6. \A i \in 7..10 : FourOn(x)[i] = Differ(x[i + 4], x[i - 7]) /\ FourOn(y)[i] = Differ(y[i + 4], y[i - 7])
    BY SMT DEF FourOn
  <2>7. \A i \in 4..11 : x[i + 4] = y[i + 4]
    BY <1>1, <1>3, <2>1, <2>2, <2>5, <2>6
  <2>8. x[0] = y[0] /\ x[1] = y[1] /\ x[2] = y[2] /\ x[3] = y[3]
    BY <2>2
  <2>9. x[4] = y[4] /\ x[5] = y[5] /\ x[6] = y[6] /\ x[7] = y[7]
    BY <2>4
  <2>10. x[8] = y[8] /\ x[9] = y[9] /\ x[10] = y[10] /\ x[11] = y[11]
    BY <2>7
  <2>11. x[12] = y[12] /\ x[13] = y[13] /\ x[14] = y[14] /\ x[15] = y[15]
    BY <2>7
  <2> QED
    BY <2>8, <2>9, <2>10, <2>11, SameBits
<1> QED
  BY <1>4, <1>5

\* Eight bits of the reference.
ByteOn(x) == FourOn(FourOn(x))

LEMMA ByteOnLaws ==
    ASSUME NEW x \in Bits, NEW y \in Bits
    PROVE  /\ ByteOn(x) \in Bits /\ ByteOn(Sum(x, y)) = Sum(ByteOn(x), ByteOn(y))
           /\ ByteOn(x) = ByteOn(y) => x = y
<1>1. FourOn(x) \in Bits /\ FourOn(y) \in Bits
  BY BitOnBits
<1> QED
  BY <1>1, BitOnBits, FourOnLaws DEF ByteOn

\* The loop's body sees only the difference of the register and the byte.
LEMMA StepOfSum ==
    ASSUME NEW x \in Bits, NEW y \in OctetBits
    PROVE  crcStep(Value(x), Value(y)) = Value(ByteOn(Sum(x, y)))
<1>1. y \in Bits /\ Sum(x, y) \in Bits /\ FourOn(Sum(x, y)) \in Bits
  BY OctetValue, SumBits, BitOnBits
<1>2. Value(x) \in Word16 /\ Value(y) \in Octet
  BY ValueParts, OctetValue
<1>3. crcStep(Value(x), Value(y)) = RefStep(Value(x), Value(y))
  BY <1>2, StepIsReference
<1> QED
  BY <1>1, <1>3, XorBits, FourOnBits DEF RefStep, ByteOn

\* The difference of two bytes is a byte.
LEMMA OctetSum ==
    ASSUME NEW x \in OctetBits, NEW y \in OctetBits
    PROVE  Sum(x, y) \in OctetBits
<1>1. x \in Bits /\ y \in Bits /\ Sum(x, y) \in Bits
  BY OctetValue, SumBits
<1>2. \A i \in 8..15 : Sum(x, y)[i] = 0
  BY SMT DEF OctetBits, Sum, Differ
<1> QED
  BY <1>1, <1>2 DEF OctetBits

\* The eight bits that follow do not undo a difference within a byte.
LEMMA ByteShows ==
    ASSUME NEW x \in OctetBits, NEW y \in OctetBits, ByteOn(x) = y
    PROVE  x = Zero /\ y = Zero
<1> DEFINE u == FourOn(x)
<1>1. x \in Bits /\ y \in Bits /\ Zero \in Bits
  BY OctetValue, SumLaws
<1>2. /\ u[0] = Differ(x[4], x[0]) /\ u[1] = Differ(x[5], x[1])
      /\ u[2] = Differ(x[6], x[2]) /\ u[3] = Differ(x[7], x[3])
      /\ u[12] = x[0] /\ u[13] = x[1] /\ u[14] = x[2] /\ u[15] = x[3]
  BY SMT DEF FourOn
<1> HIDE DEF u
<1>3. /\ y[8] = Differ(u[12], u[1]) /\ y[9] = Differ(u[13], u[2]) /\ y[10] = Differ(u[14], u[3])
      /\ y[11] = u[15] /\ y[12] = u[0] /\ y[13] = u[1] /\ y[14] = u[2] /\ y[15] = u[3]
  <2>1. y = FourOn(u)
    BY DEF ByteOn, u
  <2> QED
    BY <2>1, SMT DEF FourOn
<1>4. /\ y[8] = 0 /\ y[9] = 0 /\ y[10] = 0 /\ y[11] = 0
      /\ y[12] = 0 /\ y[13] = 0 /\ y[14] = 0 /\ y[15] = 0
      /\ x[8] = 0 /\ x[9] = 0 /\ x[10] = 0 /\ x[11] = 0
      /\ x[12] = 0 /\ x[13] = 0 /\ x[14] = 0 /\ x[15] = 0
  BY DEF OctetBits
<1>5. /\ x[0] = 0 /\ x[1] = 0 /\ x[2] = 0 /\ x[3] = 0
      /\ u[0] = 0 /\ u[1] = 0 /\ u[2] = 0 /\ u[3] = 0
  BY <1>2, <1>3, <1>4, SMT DEF Differ
<1>6. x[4] = 0 /\ x[5] = 0 /\ x[6] = 0 /\ x[7] = 0
  BY <1>2, <1>5, SMT DEF Differ
<1>7. x = Zero
  <2>1. \A i \in 0..15 : Zero[i] = 0
    BY DEF Zero
  <2> QED
    BY <1>1, <1>4, <1>5, <1>6, <2>1, SameBits
<1>8. ByteOn(Zero) = Zero
  <2>1. FourOn(Zero) = Zero
    BY SMT DEF FourOn, Zero, Differ
  <2> QED
    BY <2>1 DEF ByteOn
<1> QED
  BY <1>7, <1>8

\* The loop of crcUpdate: after[n] is the CRC of the first n bytes.
Follows(after, c, s, n) ==
    after = [idx \in 0..n |-> IF idx = 0 THEN c ELSE crcStep(after[idx - 1], s[idx])]

\* There is such a function for every stream, and crcUpdate is its last value.
LEMMA UpdateIs ==
    ASSUME NEW c, NEW s
    PROVE  crcUpdate(c, s) = (CHOOSE after : Follows(after, c, s, Len(s)))[Len(s)]
  BY DEF crcUpdate, Follows

LEMMA FollowsOn ==
    ASSUME NEW c, NEW s, NEW n \in Nat, NEW f, Follows(f, c, s, n)
    PROVE  \E g : Follows(g, c, s, n + 1)
<1> DEFINE g == [idx \in 0..n + 1 |-> IF idx <= n THEN f[idx] ELSE crcStep(f[n], s[n + 1])]
<1>1. \A idx \in 0..n : f[idx] = IF idx = 0 THEN c ELSE crcStep(f[idx - 1], s[idx])
  BY DEF Follows
<1>2. ASSUME NEW idx \in 0..n + 1
      PROVE  g[idx] = IF idx = 0 THEN c ELSE crcStep(g[idx - 1], s[idx])
  <2>1. CASE idx = 0
    BY <1>1, <2>1
  <2>2. CASE idx # 0 /\ idx <= n
    <3>1. idx \in 0..n /\ idx - 1 \in 0..n + 1 /\ idx - 1 <= n
      BY <2>2
    <3>2. g[idx] = f[idx] /\ g[idx - 1] = f[idx - 1]
      BY <2>2, <3>1
    <3> QED
      BY <1>1, <2>2, <3>1, <3>2
  <2>3. CASE idx = n + 1
    <3>1. ~(idx <= n) /\ idx # 0 /\ n \in 0..n + 1 /\ n <= n /\ idx - 1 = n
      BY <2>3
    <3>2. g[idx] = crcStep(f[n], s[n + 1]) /\ g[n] = f[n]
      BY <3>1
    <3> QED
      BY <2>3, <3>1, <3>2
  <2> QED
    BY <2>1, <2>2, <2>3
<1>3. g = [idx \in 0..n + 1 |-> IF idx = 0 THEN c ELSE crcStep(g[idx - 1], s[idx])]
  <2>1. g = [idx \in 0..n + 1 |-> g[idx]]
    OBVIOUS
  <2> HIDE DEF g
  <2> QED
    BY <1>2, <2>1
<1> HIDE DEF g
<1> QED
  BY <1>3 DEF Follows

LEMMA FollowsExists ==
    ASSUME NEW c, NEW s, NEW n \in Nat
    PROVE  \E f : Follows(f, c, s, n)
<1> DEFINE Bad == {m \in Nat : ~\E f : Follows(f, c, s, m)}
<1>1. SUFFICES ASSUME Bad # {}
               PROVE  FALSE
  OBVIOUS
<1>2. PICK m \in Bad : \A k \in Bad : m <= k
  <2> HIDE DEF Bad
  <2>1. Bad \subseteq Nat
    BY DEF Bad
  <2> QED
    BY <1>1, <2>1, LeastOf
<1>3. CASE m = 0
  <2> DEFINE f == [idx \in 0..0 |-> c]
  <2>1. f = [idx \in 0..0 |-> IF idx = 0 THEN c ELSE crcStep(f[idx - 1], s[idx])]
    BY SMT
  <2> HIDE DEF f
  <2>2. Follows(f, c, s, 0)
    BY <2>1 DEF Follows
  <2> QED
    BY <1>3, <2>2
<1>4. CASE m # 0
  <2>1. m - 1 \in Nat /\ m - 1 \notin Bad
    BY <1>2, <1>4
  <2>2. PICK f : Follows(f, c, s, m - 1)
    BY <2>1
  <2>3. \E g : Follows(g, c, s, (m - 1) + 1)
    BY <2>1, <2>2, FollowsOn
  <2> QED
    BY <2>3
<1> QED
  BY <1>3, <1>4

\* Two loops over streams with the same first bytes agree on them.
LEMMA FollowsSame ==
    ASSUME NEW c, NEW s, NEW t, NEW m \in Nat, \A i \in 1..m : s[i] = t[i],
           NEW f, Follows(f, c, s, m), NEW g, Follows(g, c, t, m + 1)
    PROVE  \A i \in 0..m : f[i] = g[i]
<1> DEFINE Bad == {i \in 0..m : f[i] # g[i]}
<1>1. SUFFICES ASSUME Bad # {}
               PROVE  FALSE
  OBVIOUS
<1>2. PICK i \in Bad : \A k \in Bad : i <= k
  <2> HIDE DEF Bad
  <2>1. Bad \subseteq Nat
    BY DEF Bad
  <2> QED
    BY <1>1, <2>1, LeastOf
<1>3. /\ \A k \in 0..m : f[k] = IF k = 0 THEN c ELSE crcStep(f[k - 1], s[k])
      /\ \A k \in 0..m + 1 : g[k] = IF k = 0 THEN c ELSE crcStep(g[k - 1], t[k])
  BY DEF Follows
<1>4. i \in 0..m /\ i \in 0..m + 1 /\ f[i] # g[i]
  BY <1>2
<1>5. i # 0
  BY <1>3, <1>4
<1>6. i \in 1..m /\ i - 1 \in 0..m /\ i - 1 \notin Bad
  BY <1>2, <1>4, <1>5
<1>7. f[i - 1] = g[i - 1] /\ s[i] = t[i]
  BY <1>6
<1> QED
  BY <1>3, <1>4, <1>5, <1>7

\* The CRC of no bytes, of one byte more, and the width of a CRC.
LEMMA UpdateSteps ==
    ASSUME NEW c \in Word16, NEW s \in Seq(Octet)
    PROVE  /\ crcUpdate(c, s) \in Word16
           /\ s = << >> => crcUpdate(c, s) = c
           /\ \A b \in Octet :
                  crcUpdate(c, Append(s, b)) = crcStep(crcUpdate(c, s), b)
<1> DEFINE n == Len(s)
           f == CHOOSE after : Follows(after, c, s, n)
<1>1. n \in Nat /\ \A i \in 1..n : s[i] \in Octet
  OBVIOUS
<1>2. Follows(f, c, s, n) /\ crcUpdate(c, s) = f[n]
  BY <1>1, FollowsExists, UpdateIs
<1>3. s = << >> => n = 0
  OBVIOUS
<1> HIDE DEF n, f
<1>4. \A i \in 0..n : f[i] = IF i = 0 THEN c ELSE crcStep(f[i - 1], s[i])
  BY <1>2 DEF Follows
<1>5. \A i \in 0..n : f[i] \in Word16
  <2> DEFINE Bad == {i \in 0..n : f[i] \notin Word16}
  <2>1. SUFFICES ASSUME Bad # {}
                 PROVE  FALSE
    OBVIOUS
  <2>2. PICK i \in Bad : \A k \in Bad : i <= k
    <3>1. Bad \subseteq Nat
      OBVIOUS
    <3> HIDE DEF Bad
    <3> QED
      BY <2>1, <3>1, LeastOf
  <2>3. i \in 0..n /\ f[i] \notin Word16 /\ i # 0
    BY <1>4, <2>2
  <2>4. i \in 1..n /\ i - 1 \in 0..n /\ i - 1 \notin Bad
    BY <1>1, <2>2, <2>3
  <2>5. f[i - 1] \in Word16 /\ s[i] \in Octet
    BY <1>1, <2>4
  <2>6. f[i] = crcStep(f[i - 1], s[i])
    BY <1>4, <2>3
  <2> QED
    BY <2>3, <2>5, <2>6, StepIsReference
<1>6. n \in 0..n /\ (n = 0 => 0 \in 0..n)
  BY <1>1
<1>7. crcUpdate(c, s) \in Word16 /\ (s = << >> => crcUpdate(c, s) = c)
  BY <1>2, <1>3, <1>4, <1>5, <1>6
<1>8. ASSUME NEW b \in Octet
      PROVE  crcUpdate(c, Append(s, b)) = crcStep(crcUpdate(c, s), b)
  <2> DEFINE t == Append(s, b)
             g == CHOOSE after : Follows(after, c, t, Len(t))
  <2>1. Len(t) = n + 1 /\ t[n + 1] = b /\ \A i \in 1..n : s[i] = t[i]
    BY DEF n
  <2> HIDE DEF t
  <2>2. Follows(g, c, t, n + 1) /\ crcUpdate(c, t) = g[n + 1]
    <3>1. Len(t) \in Nat
      BY <1>1, <2>1
    <3>2. Follows(g, c, t, Len(t))
      BY <3>1, FollowsExists
    <3>3. crcUpdate(c, t) = g[Len(t)]
      BY UpdateIs
    <3> QED
      BY <2>1, <3>2, <3>3
  <2> HIDE DEF g
  <2>3. n <= n + 1 /\ n + 1 \in Nat /\ n + 1 \in 0..n + 1 /\ n + 1 # 0 /\ (n + 1) - 1 = n
    BY <1>1
  <2>4. \A i \in 0..n : f[i] = g[i]
    <3>1. Follows(f, c, s, n) /\ Follows(g, c, t, n + 1) /\ \A i \in 1..n : s[i] = t[i]
      BY <1>2, <2>1, <2>2
    <3> QED
      BY <1>1, <3>1, FollowsSame
  <2>5. g[n + 1] = crcStep(g[(n + 1) - 1], t[n + 1])
    BY <2>2, <2>3 DEF Follows
  <2>6. g[n] = f[n]
    BY <1>6, <2>4
  <2>7. g[n + 1] = crcStep(f[n], b)
    BY <2>1, <2>3, <2>5, <2>6
  <2> QED
    BY <1>2, <2>2, <2>7 DEF t
<1> QED
  BY <1>7, <1>8

\* Errors on the line, one byte further: an error of the bytes so far, with the bits
\* p of the next one inverted, is still one after it; and an error that starts now.
LEMMA ErrorStays ==
    ASSUME NEW c \in Word16, NEW d \in Word16,
           NEW b \in Octet, NEW p \in Octet, Xor(d, p) # c
    PROVE  /\ Xor(b, p) \in Octet
           /\ Xor(crcStep(d, Xor(b, p)), 0) # crcStep(c, b)
<1>1. PICK x \in Bits : c = Value(x)
  BY WordBits
<1>2. PICK y \in Bits : d = Value(y)
  BY WordBits
<1>3. PICK q \in OctetBits : b = Value(q)
  BY OctetBitsOf
<1>4. PICK r \in OctetBits : p = Value(r)
  BY OctetBitsOf
<1>5. q \in Bits /\ r \in Bits /\ Sum(q, r) \in OctetBits /\ Sum(q, r) \in Bits
  BY OctetSum, OctetValue
<1>6. Xor(b, p) = Value(Sum(q, r)) /\ Value(Sum(q, r)) \in Octet
  BY <1>3, <1>4, <1>5, XorBits, OctetValue
<1> DEFINE u == Sum(y, Sum(q, r))
           v == Sum(x, q)
<1>7. u \in Bits /\ v \in Bits /\ Sum(y, r) \in Bits
  BY <1>5, SumBits
<1>8. /\ crcStep(d, Xor(b, p)) = Value(ByteOn(u))
      /\ crcStep(c, b) = Value(ByteOn(v))
  BY <1>1, <1>2, <1>3, <1>5, <1>6, StepOfSum
<1>9. ByteOn(u) \in Bits /\ ByteOn(v) \in Bits
  BY <1>7, ByteOnLaws
<1>10. Xor(Value(ByteOn(u)), 0) = Value(ByteOn(u))
  BY <1>9, SumLaws, XorBits
<1>11. Sum(y, r) # x
  BY <1>1, <1>2, <1>4, <1>5, XorBits
<1>12. u # v
  <2>1. u = Sum(q, Sum(y, r))
    <3>1. Sum(y, Sum(q, r)) = Sum(Sum(y, q), r)
      BY <1>5, SumLaws
    <3>2. Sum(Sum(y, q), r) = Sum(Sum(q, y), r)
      BY <1>5, SumLaws
    <3>3. Sum(Sum(q, y), r) = Sum(q, Sum(y, r))
      BY <1>5, SumLaws
    <3> QED
      BY <3>1, <3>2, <3>3
  <2>2. v = Sum(q, x)
    BY <1>5, SumLaws
  <2>3. Sum(q, Sum(y, r)) = Sum(q, x) => Sum(y, r) = x
    BY <1>5, <1>7, SumLaws
  <2> QED
    BY <1>11, <2>1, <2>2, <2>3
<1>13. ByteOn(u) # ByteOn(v)
  BY <1>7, <1>12, ByteOnLaws
<1>14. Value(ByteOn(u)) # Value(ByteOn(v))
  BY <1>9, <1>13, ValueOnce
<1> QED
  BY <1>6, <1>8, <1>10, <1>14

LEMMA ErrorStarts ==
    ASSUME NEW c \in Word16, NEW b \in Octet, NEW e \in Word16, e # 0
    PROVE  /\ Xor(b, e % 256) \in Octet /\ e \div 256 \in Octet
           /\ Xor(crcStep(c, Xor(b, e % 256)), e \div 256) # crcStep(c, b)
<1>1. PICK x \in Bits : c = Value(x)
  BY WordBits
<1>2. PICK q \in OctetBits : b = Value(q)
  BY OctetBitsOf
<1>3. PICK z \in Bits : e = Value(z)
  BY WordBits
<1> DEFINE r == Low(z)
           h == Down(z, 8)
<1>4. /\ r \in OctetBits /\ h \in OctetBits /\ e % 256 = Value(r) /\ e \div 256 = Value(h)
  BY <1>3, HighLow, ShiftBits, SMT
<1> HIDE DEF r, h
<1>5. q \in Bits /\ r \in Bits /\ h \in Bits /\ Sum(q, r) \in OctetBits /\ Sum(q, r) \in Bits
  BY <1>4, OctetSum, OctetValue
<1>6. Xor(b, e % 256) = Value(Sum(q, r)) /\ Value(Sum(q, r)) \in Octet
  BY <1>2, <1>4, <1>5, XorBits, OctetValue
<1> DEFINE v == Sum(x, q)
           u == Sum(x, Sum(q, r))
<1>7. v \in Bits /\ u \in Bits /\ u = Sum(v, r)
  BY <1>5, SumBits, SumLaws
<1>8. /\ crcStep(c, Xor(b, e % 256)) = Value(ByteOn(u))
      /\ crcStep(c, b) = Value(ByteOn(v))
  BY <1>1, <1>2, <1>5, <1>6, StepOfSum
<1> HIDE DEF u, v
<1>9. ByteOn(u) \in Bits /\ ByteOn(v) \in Bits /\ ByteOn(r) \in Bits
  BY <1>5, <1>7, ByteOnLaws
<1>10. ByteOn(u) = Sum(ByteOn(v), ByteOn(r))
  BY <1>5, <1>7, ByteOnLaws
<1>11. Xor(Value(ByteOn(u)), e \div 256) = Value(Sum(ByteOn(u), h)) /\ Sum(ByteOn(u), h) \in Bits
  BY <1>4, <1>5, <1>9, XorBits, SumBits
<1>12. ASSUME Sum(ByteOn(u), h) = ByteOn(v)
       PROVE  FALSE
  <2> DEFINE s == ByteOn(v)
             t == ByteOn(r)
  <2>1. s \in Bits /\ t \in Bits /\ Zero \in Bits /\ Sum(t, h) \in Bits
    BY <1>5, <1>9, SumLaws, SumBits
  <2> HIDE DEF s, t
  <2>2. Sum(Sum(s, t), h) = s
    BY <1>10, <1>12 DEF s, t
  <2>3. Sum(s, Sum(t, h)) = Sum(s, Zero)
    BY <1>5, <2>1, <2>2, SumLaws
  <2>4. Sum(t, h) = Zero
    BY <2>1, <2>3, SumLaws
  <2>5. Sum(t, h) = Sum(t, t)
    <3>1. \A i \in 0..15 : Sum(t, t)[i] = Zero[i]
      BY <2>1, SumBits, SMT DEF Differ, Zero
    <3>2. Sum(t, t) \in Bits
      BY <2>1, SumBits
    <3> QED
      BY <2>1, <2>4, <3>1, <3>2 DEF Bits
  <2>6. h = t
    BY <1>5, <2>1, <2>5, SumLaws
  <2>7. r = Zero /\ h = Zero
    BY <1>4, <2>6, ByteShows DEF t
  <2>8. e % 256 = 0 /\ e \div 256 = 0
    BY <1>4, <2>1, <2>7, SumLaws
  <2>9. e \in Nat
    BY WordRange16
  <2>10. e = 0
    BY <2>8, <2>9, SMT
  <2> QED
    BY <2>10
<1>13. Value(Sum(ByteOn(u), h)) # Value(ByteOn(v))
  BY <1>9, <1>11, <1>12, ValueOnce
<1>14. e \div 256 \in Octet
  BY <1>4, OctetValue
<1> QED
  BY <1>6, <1>8, <1>11, <1>13, <1>14

\* The invariant: the register is the reference and the CRC of the stream, and no
\* error is undone by the bits that it inverts in the next byte.
CrcInv ==
    /\ stream \in Seq(Octet) /\ crc \in Word16 /\ crc = ref
    /\ crc = crcUpdate(Seed, stream)
    /\ \A d \in damaged : \E c \in Word16, p \in Octet :
           d = <<c, p>> /\ Xor(c, p) # crc

\* It is inductive: Feed keeps every conjunct.
LEMMA CrcInvHolds ==
    ASSUME StreamAssumption
    PROVE  CrcSpec => []CrcInv
<1>1. Seed \in Word16
  BY DEF StreamAssumption
<1>2. CrcInit => CrcInv
  <2>1. << >> \in Seq(Octet)
    OBVIOUS
  <2>2. crcUpdate(Seed, << >>) = Seed
    BY <1>1, <2>1, UpdateSteps
  <2> QED
    BY <1>1, <2>1, <2>2 DEF CrcInit, CrcInv
<1>3. CrcInv /\ [CrcNext]_(crcVars) => CrcInv'
  <2> SUFFICES ASSUME CrcInv, [CrcNext]_(crcVars)
               PROVE  CrcInv'
    OBVIOUS
  <2>1. CASE UNCHANGED crcVars
    BY <2>1 DEF CrcInv, crcVars
  <2>2. ASSUME NEW b \in Bytes, Feed(b)
        PROVE  CrcInv'
    <3>1. b \in Octet /\ Errors \subseteq Word16 \ {0}
      BY DEF StreamAssumption
    <3>2. /\ stream \in Seq(Octet) /\ crc \in Word16 /\ crc = ref
          /\ crc = crcUpdate(Seed, stream)
      BY DEF CrcInv
    <3>3. /\ stream' = Append(stream, b) /\ crc' = crcStep(crc, b)
          /\ ref' = RefStep(ref, b)
          /\ damaged' = {<<crcStep(d[1], Xor(b, d[2])), 0>> : d \in damaged}
                          \cup {<<crcStep(crc, Xor(b, e % 256)), e \div 256>> : e \in Errors}
      BY <2>2 DEF Feed
    <3>4. stream' \in Seq(Octet)
      BY <3>1, <3>2, <3>3
    <3>5. crc' \in Word16 /\ crc' = ref'
      BY <3>1, <3>2, <3>3, StepIsReference
    <3>6. crc' = crcUpdate(Seed, stream')
      BY <1>1, <3>1, <3>2, <3>3, UpdateSteps
    <3>7. ASSUME NEW d \in damaged'
          PROVE  \E c \in Word16, p \in Octet :
                     d = <<c, p>> /\ Xor(c, p) # crc'
      <4>1. CASE \E o \in damaged : d = <<crcStep(o[1], Xor(b, o[2])), 0>>
        <5>1. PICK o \in damaged : d = <<crcStep(o[1], Xor(b, o[2])), 0>>
          BY <4>1
        <5>2. PICK c \in Word16, p \in Octet : o = <<c, p>> /\ Xor(c, p) # crc
          BY DEF CrcInv
        <5>3. d = <<crcStep(c, Xor(b, p)), 0>>
          BY <5>1, <5>2
        <5>4. /\ Xor(b, p) \in Octet
              /\ Xor(crcStep(c, Xor(b, p)), 0) # crc'
          BY <3>1, <3>2, <3>3, <5>2, ErrorStays
        <5>5. crcStep(c, Xor(b, p)) \in Word16 /\ 0 \in Octet
          BY <5>4, StepIsReference, WordRange16, SMT
        <5> QED
          BY <5>3, <5>4, <5>5
      <4>2. CASE \E e \in Errors : d = <<crcStep(crc, Xor(b, e % 256)), e \div 256>>
        <5>1. PICK e \in Errors : d = <<crcStep(crc, Xor(b, e % 256)), e \div 256>>
          BY <4>2
        <5>2. /\ Xor(b, e % 256) \in Octet /\ e \div 256 \in Octet
              /\ Xor(crcStep(crc, Xor(b, e % 256)), e \div 256) # crc'
          BY <3>1, <3>2, <3>3, ErrorStarts
        <5>3. crcStep(crc, Xor(b, e % 256)) \in Word16
          BY <3>2, <5>2, StepIsReference
        <5> QED
          BY <5>1, <5>2, <5>3
      <4> QED
        BY <3>3, <4>1, <4>2
    <3> QED
      BY <3>4, <3>5, <3>6, <3>7 DEF CrcInv
  <2> QED
    BY <2>1, <2>2 DEF CrcNext
<1> QED
  BY <1>2, <1>3, PTL DEF CrcSpec

\* The register of crcUpdate holds the bit-serial CRC of whatever bytes were fed, within
\* 16 bits, and the loop over a whole message (crcUpdate) gives the same as one byte at a
\* time.
THEOREM CrcIsReferenceAlways ==
    ASSUME StreamAssumption
    PROVE  CrcSpec => []CrcIsReference
<1>1. CrcInv => CrcIsReference
  BY DEF CrcInv, CrcIsReference
<1> QED
  BY <1>1, CrcInvHolds, PTL

\* No stream with inverted bits in one byte or in two bytes in a row has the CRC of the stream
\* that was sent, whatever comes before, in between and after: process_crc rejects it.
THEOREM ErrorsDetectedAlways ==
    ASSUME StreamAssumption
    PROVE  CrcSpec => []ErrorsDetected
<1>1. CrcInv => ErrorsDetected
  <2> SUFFICES ASSUME CrcInv, <<crc, 0>> \in damaged
               PROVE  FALSE
    BY DEF ErrorsDetected
  <2>1. crc \in Word16 /\ Xor(crc, 0) # crc
    BY DEF CrcInv
  <2>2. PICK x \in Bits : crc = Value(x)
    BY <2>1, WordBits
  <2>3. Xor(crc, 0) = crc
    BY <2>2, SumLaws, XorBits
  <2> QED
    BY <2>1, <2>3
<1> QED
  BY <1>1, CrcInvHolds, PTL

\* The program's CRC is one that the theorems about Bridge allow (CrcAssumption): the
\* frame's register has a word for that of every frame, whatever its index and its body.
THEOREM ProgramCrcFits ==
    ASSUME NEW idx \in Byte, NEW body \in Seq(Byte), Len(body) <= DataSize
    PROVE  crcUpdate(CRC_RESET, Covered(idx, body)) \in Word
<1>1. CRC_RESET \in Word16 /\ Word = Word16
  <2>1. Word = Word16
    BY SMT DEF Word, UINT16_MAX, Word16, MaxWord
  <2> QED
    BY <2>1, ByteWord
<1>2. Byte = Octet
  BY SMT DEF Byte, Octet, MaxOctet
<1>3. START \in Byte
  BY ByteWord
<1>4. Len(body) \div 256 \in Byte /\ Len(body) % 256 \in Byte
  <2>1. Len(body) \in Nat /\ Len(body) <= 65535
    BY ByteWord, WordRange, SMT
  <2>2. /\ Len(body) \div 256 \in Nat /\ Len(body) \div 256 <= 255
        /\ Len(body) % 256 \in Nat /\ Len(body) % 256 <= 255
    BY <2>1, SMT
  <2> QED
    BY <1>2, <2>2, WordRange16, SMT
<1>5. Covered(idx, body) \in Seq(Byte)
  <2> DEFINE h == Len(body) \div 256
             l == Len(body) % 256
  <2> HIDE DEF h, l
  <2>1. <<START, idx, h, l>> \in Seq(Byte)
    BY <1>3, <1>4 DEF h, l
  <2>2. <<START, idx, h, l>> \o body \in Seq(Byte)
    BY <2>1
  <2> QED
    BY <2>2 DEF Covered, h, l
<1> QED
  BY <1>1, <1>2, <1>5, UpdateSteps
=============================================================================
