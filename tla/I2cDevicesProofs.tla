-------------------------- MODULE I2cDevicesProofs --------------------------
(***************************************************************************)
(* Proofs about I2cDevices, for every bus, every data and transfers of any *)
(* length.  A decoder has an invariant of its own (x_OK), which says in    *)
(* each of its states where the transfer is and what its buffers hold of   *)
(* the part that is on the bus; x_Begin and x_Step show that it holds and  *)
(* that the decoder respects the properties with it, x_Idle that it speaks *)
(* of the decoder and the bus alone.  DevicesInv puts them together.       *)
(***************************************************************************)
EXTENDS I2cStackProofs

-----------------------------------------------------------------------------
(* tmp102                                                                    *)

tmp102_Types ==
    [state : {"IDLE", "ADDRESS_SLAVE", "REGISTER_ADDRESS", "REGISTER_DATA"},
     addr : Nat, reg : Nat, bytes : Seq(Byte), rep : Seq(Reports)]

\* The states of a part in which the chip is addressed; the bytes behind the
\* register's are kept.
tmp102_OK ==
    /\ s \in tmp102_Types
    /\ phase = "stopped" => s.state = "IDLE"
    /\ phase = "address" => s.state \in {"IDLE", "ADDRESS_SLAVE"}
    /\ Within => s.state # "ADDRESS_SLAVE"
    /\ s.state = "REGISTER_ADDRESS" => Here.a \in tmp102_addresses /\ Here.bytes = <<>>
    /\ s.state = "REGISTER_DATA" => Here.a \in tmp102_addresses
       /\ \E o \in {0, 1} : Fills(s.bytes, Here.bytes, o, 2)

\* The decoder among the others.
LEMMA tmp102_Receives ==
  /\ \A st, p : Recv("tmp102", st, p) = tmp102_recv(st, p)
  /\ \A st : Silenced("tmp102", st) = [st EXCEPT !.rep = <<>>]
  /\ ResetOf("tmp102") = tmp102_reset
  /\ Own("tmp102") = tmp102_addresses
  /\ tmp102_reset.state = "IDLE"
<1>1. /\ \A st, p : Recv("tmp102", st, p) = tmp102_recv(st, p)
      /\ ResetOf("tmp102") = tmp102_reset
  BY DEF Recv, ResetOf
<1>2. \A st : Silenced("tmp102", st) = [st EXCEPT !.rep = <<>>]
  BY DEF Silenced, Relays, Forwarders
<1>3. Own("tmp102") = tmp102_addresses
  BY DEF Own, tmp102_addresses
<1>4. tmp102_reset.state = "IDLE"
  BY DEF tmp102_reset
<1>5. QED
  BY <1>1, <1>2, <1>3, <1>4

\* Every event of the bus keeps its invariant and is reported as it should be.
LEMMA tmp102_Step ==
  ASSUME upper = "tmp102", upper' = upper, BusOK, BusOK', tmp102_OK, Steps
  PROVE  tmp102_OK' /\ Respects'
<1> DEFINE t == [s EXCEPT !.rep = <<>>]
<1>0. <<>> \in Seq(Reports) /\ <<>> \in Seq(Byte)
  BY RepTyped
<1>1. /\ t \in tmp102_Types /\ t.rep = <<>>
      /\ t.state = s.state /\ t.addr = s.addr /\ t.reg = s.reg /\ t.bytes = s.bytes
  BY <1>0 DEF tmp102_OK, tmp102_Types
<1>2. Hushed = t
  BY tmp102_Receives DEF Hushed
<1> HIDE DEF t
<1>a. /\ Mention(t) = [t EXCEPT !.rep = <<Remark>>]
      /\ <<Remark>> \in Seq(Reports) /\ Remark.reg \in Subjects /\ Remark.bytes = <<>>
  BY <1>1, Remarks
<1>b. ASSUME NEW a \in Int
      PROVE  /\ Warn(t, a) = [t EXCEPT !.rep = <<Complaint(a)>>]
             /\ <<Complaint(a)>> \in Seq(Reports)
             /\ Complaint(a).reg = Warning /\ Complaint(a).bytes = <<a>>
  BY <1>1, Complaints
<1> USE DEF To, IsAddress, IsData, Within
<1>3. ASSUME NEW p, Starts(p)
      PROVE  tmp102_OK' /\ Respects'
  <2>1. /\ s' = tmp102_recv(t, p) /\ p.cmd = "START"
        /\ phase = "stopped" /\ phase' = "address"
    BY <1>2, <1>3, tmp102_Receives DEF Starts
  <2>3. CASE s.state = "IDLE"
    <3>1. s' = [t EXCEPT !.bytes = <<>>, !.state = "ADDRESS_SLAVE"]
      BY <1>1, <2>1, <2>3 DEF tmp102_recv
    <3>2. /\ s' \in tmp102_Types /\ s'.rep = <<>>
          /\ s'.state = "ADDRESS_SLAVE"
      BY <1>0, <1>1, <2>1, <2>3, <3>1, ByteIsNat DEF tmp102_Types
    <3>3. tmp102_OK'
      BY <2>1, <2>3, <3>2 DEF tmp102_OK
    <3>4. QED
      BY <2>1, <3>2, <3>3, tmp102_Receives, SilentRespects
  <2>4. QED
    BY <2>1, <2>3 DEF tmp102_OK, tmp102_Types
<1>4. ASSUME NEW p, Repeats(p)
      PROVE  tmp102_OK' /\ Respects'
  <2>1. /\ s' = tmp102_recv(t, p) /\ p.cmd = "START REPEAT"
        /\ phase = "data" /\ phase' = "address" /\ xfer' = xfer
    BY <1>2, <1>4, tmp102_Receives DEF Repeats
  <2>2. /\ Here' = Here /\ Here.bytes \in Seq(Byte)
        /\ xfer' # <<>> /\ xfer' \in Seq(PartTypes)
    BY <2>1, HereTyped
  <2>3. CASE s.state = "IDLE"
    <3>1. s' = t
      BY <1>1, <2>1, <2>2, <2>3 DEF tmp102_recv
    <3>2. /\ s' \in tmp102_Types /\ s'.rep = <<>>
          /\ s'.state = s.state
      BY <1>0, <1>1, <2>1, <2>2, <2>3, <3>1, ByteIsNat DEF tmp102_Types
    <3>3. tmp102_OK'
      BY <2>1, <2>2, <2>3, <3>2 DEF tmp102_OK
    <3>4. QED
      BY <2>1, <2>2, <3>2, <3>3, tmp102_Receives, SilentRespects
  <2>4. CASE s.state = "REGISTER_ADDRESS"
    <3>1. s' = [t EXCEPT !.rep = <<Remark>>, !.state = "IDLE"]
      BY <1>a, <1>1, <2>1, <2>2, <2>4 DEF tmp102_recv
    <3>2. /\ s' \in tmp102_Types /\ s'.rep = <<Remark>>
          /\ s'.state = "IDLE"
      BY <1>a, <1>0, <1>1, <2>1, <2>2, <2>4, <3>1, ByteIsNat DEF tmp102_Types
    <3>3. tmp102_OK'
      BY <2>1, <2>2, <2>4, <3>2 DEF tmp102_OK
    <3>7. Piece(Remark.bytes, Here'.bytes)
      <4>1. Here'.bytes \in Seq(Byte)
        BY <2>2
      <4>2. QED
        BY <1>a, <4>1, NonePiece
    <3>8. QED
      BY <1>a, <2>1, <2>2, <3>2, <3>3, <2>4, <3>7, tmp102_Receives, ReportRespects DEF tmp102_OK, Choosy
  <2>5. CASE s.state = "REGISTER_DATA"
    <3>1. s' = [t EXCEPT !.bytes = <<>>, !.state = "ADDRESS_SLAVE"]
      BY <1>1, <2>1, <2>2, <2>5 DEF tmp102_recv
    <3>2. /\ s' \in tmp102_Types /\ s'.rep = <<>>
          /\ s'.state = "ADDRESS_SLAVE"
      BY <1>0, <1>1, <2>1, <2>2, <2>5, <3>1, ByteIsNat DEF tmp102_Types
    <3>3. tmp102_OK'
      BY <2>1, <2>2, <2>5, <3>2 DEF tmp102_OK
    <3>4. QED
      BY <2>1, <2>2, <3>2, <3>3, tmp102_Receives, SilentRespects
  <2>6. QED
    BY <2>1, <2>2, <2>3, <2>4, <2>5 DEF tmp102_OK, tmp102_Types
<1>5. ASSUME NEW w \in {0, 1}, NEW a \in 0 .. 127, NEW q, NEW p, Addresses(w, a, q, p)
      PROVE  tmp102_OK' /\ Respects'
  <2>0. tmp102_recv(t, q) = t
    BY <1>5 DEF tmp102_recv, Addresses
  <2>1. /\ s' = tmp102_recv(t, p) /\ p.val = a
        /\ p.cmd = (IF w = 1 THEN "ADDRESS WRITE" ELSE "ADDRESS READ")
        /\ phase = "address" /\ phase' = "address_ack"
    <3>1. /\ s' = Recv(upper, Recv(upper, Hushed, q), p)
          /\ p.val = a
          /\ p.cmd = (IF w = 1 THEN "ADDRESS WRITE" ELSE "ADDRESS READ")
          /\ phase = "address" /\ phase' = "address_ack"
      BY <1>5 DEF Addresses
    <3>2. Recv(upper, Recv(upper, Hushed, q), p) = tmp102_recv(t, p)
      BY <1>2, <2>0, tmp102_Receives
    <3>3. QED
      BY <3>1, <3>2
  <2>2. /\ Here'.w = w /\ Here'.a = a /\ Here'.bytes = <<>>
        /\ xfer' # <<>> /\ xfer' \in Seq(PartTypes) /\ a \in Nat
    BY <1>5, AddressesPart
  <2>3. CASE s.state = "IDLE"
    <3>1. s' = t
      BY <1>1, <2>1, <2>2, <2>3 DEF tmp102_recv
    <3>2. /\ s' \in tmp102_Types /\ s'.rep = <<>>
          /\ s'.state = s.state
      BY <1>0, <1>1, <2>1, <2>2, <2>3, <3>1, ByteIsNat DEF tmp102_Types
    <3>3. tmp102_OK'
      BY <2>1, <2>2, <2>3, <3>2 DEF tmp102_OK
    <3>4. QED
      BY <2>1, <2>2, <3>2, <3>3, tmp102_Receives, SilentRespects
  <2>4. CASE s.state = "ADDRESS_SLAVE" /\ a \notin tmp102_addresses
    <3>w. /\ Warn(t, s.addr) = [t EXCEPT !.rep = <<Complaint(s.addr)>>]
          /\ <<Complaint(s.addr)>> \in Seq(Reports)
          /\ Complaint(s.addr).reg = Warning /\ Complaint(s.addr).bytes = <<s.addr>>
      <4>1. s.addr \in Int
        BY <1>1, <2>2 DEF tmp102_Types
      <4>2. QED
        BY <1>b, <4>1
    <3>1. s' = [t EXCEPT !.rep = <<Complaint(s.addr)>>, !.state = "IDLE"]
      BY <3>w, <1>1, <2>1, <2>2, <2>4 DEF tmp102_recv
    <3>2. /\ s' \in tmp102_Types /\ s'.rep = <<Complaint(s.addr)>>
          /\ s'.state = "IDLE"
      BY <3>w, <1>0, <1>1, <2>1, <2>2, <2>4, <3>1, ByteIsNat DEF tmp102_Types
    <3>3. tmp102_OK'
      BY <2>1, <2>2, <2>4, <3>2 DEF tmp102_OK
    <3>4. QED
      BY <2>1, <2>2, <3>2, <3>3, <2>4, <3>w, tmp102_Receives, WarnRespects DEF Choosy, Forgetful
  <2>5. CASE s.state = "ADDRESS_SLAVE" /\ a \in tmp102_addresses /\ w # 1
    <3>0. p.cmd = "ADDRESS READ" /\ p.val \in tmp102_addresses
      BY <2>1, <2>5
    <3>1. s' = [t EXCEPT !.rep = <<Remark>>, !.addr = a, !.bytes = <<>>, !.state = "REGISTER_DATA"]
      BY <1>a, <1>1, <2>1, <2>2, <2>5, <3>0 DEF tmp102_recv
    <3>2. /\ s' \in tmp102_Types /\ s'.rep = <<Remark>>
          /\ s'.state = "REGISTER_DATA" /\ s'.bytes = <<>>
      BY <1>a, <1>0, <1>1, <2>1, <2>2, <2>5, <3>1, ByteIsNat DEF tmp102_Types
    <3>5. Fills(<<>>, <<>>, 0, 2)
      BY <1>0, FillsNone, Len(<<>>) = 0, 2 \in Nat
    <3>3. tmp102_OK'
      BY <2>1, <2>2, <2>5, <3>2, <3>5 DEF tmp102_OK
    <3>7. Piece(Remark.bytes, Here'.bytes)
      <4>1. Here'.bytes \in Seq(Byte)
        BY <1>0, <2>2
      <4>2. QED
        BY <1>a, <4>1, NonePiece
    <3>8. QED
      BY <1>a, <2>1, <2>2, <3>2, <3>3, <2>5, <3>7, tmp102_Receives, ReportRespects DEF tmp102_OK, Choosy
  <2>6. CASE s.state = "ADDRESS_SLAVE" /\ a \in tmp102_addresses /\ w = 1
    <3>1. s' = [t EXCEPT !.rep = <<Remark>>, !.addr = a, !.bytes = <<>>, !.state = "REGISTER_ADDRESS"]
      BY <1>a, <1>1, <2>1, <2>2, <2>6 DEF tmp102_recv
    <3>2. /\ s' \in tmp102_Types /\ s'.rep = <<Remark>>
          /\ s'.state = "REGISTER_ADDRESS" /\ s'.bytes = <<>>
      BY <1>a, <1>0, <1>1, <2>1, <2>2, <2>6, <3>1, ByteIsNat DEF tmp102_Types
    <3>5. Fills(<<>>, <<>>, 0, 2)
      BY <1>0, FillsNone, Len(<<>>) = 0, 2 \in Nat
    <3>3. tmp102_OK'
      BY <2>1, <2>2, <2>6, <3>2, <3>5 DEF tmp102_OK
    <3>7. Piece(Remark.bytes, Here'.bytes)
      <4>1. Here'.bytes \in Seq(Byte)
        BY <1>0, <2>2
      <4>2. QED
        BY <1>a, <4>1, NonePiece
    <3>8. QED
      BY <1>a, <2>1, <2>2, <3>2, <3>3, <2>6, <3>7, tmp102_Receives, ReportRespects DEF tmp102_OK, Choosy
  <2>7. QED
    BY <2>1, <2>2, <2>3, <2>4, <2>5, <2>6 DEF tmp102_OK, tmp102_Types
<1>6. ASSUME NEW d \in Byte, NEW q, NEW p, Transfers(d, q, p)
      PROVE  tmp102_OK' /\ Respects'
  <2>0. tmp102_recv(t, q) = t
    BY <1>6 DEF tmp102_recv, Transfers
  <2>1. /\ s' = tmp102_recv(t, p) /\ p.val = d
        /\ p.cmd = (IF wr = 1 THEN "DATA WRITE" ELSE "DATA READ")
        /\ phase = "data" /\ phase' = "data_ack"
    <3>1. /\ s' = Recv(upper, Recv(upper, Hushed, q), p)
          /\ p.val = d
          /\ p.cmd = (IF wr = 1 THEN "DATA WRITE" ELSE "DATA READ")
          /\ phase = "data" /\ phase' = "data_ack"
      BY <1>6 DEF Transfers
    <3>2. Recv(upper, Recv(upper, Hushed, q), p) = tmp102_recv(t, p)
      BY <1>2, <2>0, tmp102_Receives
    <3>3. QED
      BY <3>1, <3>2
  <2>2. /\ Here'.w = Here.w /\ Here'.a = Here.a /\ Here'.bytes = Append(Here.bytes, d)
        /\ xfer' # <<>> /\ xfer' \in Seq(PartTypes) /\ Here.bytes \in Seq(Byte) /\ Here.w = wr
    BY <1>6, <2>1, TransfersPart, HereTyped DEF PartTypes
  <2>3. CASE s.state = "IDLE"
    <3>1. s' = t
      BY <1>1, <2>1, <2>2, <2>3 DEF tmp102_recv
    <3>2. /\ s' \in tmp102_Types /\ s'.rep = <<>>
          /\ s'.state = s.state
      BY <1>0, <1>1, <2>1, <2>2, <2>3, <3>1, ByteIsNat DEF tmp102_Types
    <3>3. tmp102_OK'
      BY <2>1, <2>2, <2>3, <3>2 DEF tmp102_OK
    <3>4. QED
      BY <2>1, <2>2, <3>2, <3>3, tmp102_Receives, SilentRespects
  <2>4. CASE s.state = "REGISTER_ADDRESS"
    <3>1. s' = [t EXCEPT !.rep = <<Remark>>, !.reg = d, !.bytes = <<>>, !.state = "REGISTER_DATA"]
      BY <1>a, <1>1, <2>1, <2>2, <2>4 DEF tmp102_recv
    <3>2. /\ s' \in tmp102_Types /\ s'.rep = <<Remark>>
          /\ s'.state = "REGISTER_DATA" /\ s'.bytes = <<>>
      BY <1>a, <1>0, <1>1, <2>1, <2>2, <2>4, <3>1, ByteIsNat DEF tmp102_Types
    <3>5. Here.a \in tmp102_addresses /\ Here.bytes = <<>>
      BY <2>4 DEF tmp102_OK
    <3>7. Here'.bytes \in Seq(Byte) /\ Len(Here'.bytes) = 1
      BY <2>2, <3>5
    <3>6. Fills(<<>>, Here'.bytes, 1, 2)
      BY <3>7, FillsNone, 2 \in Nat
    <3>3. tmp102_OK'
      BY <2>1, <2>2, <2>4, <3>2, <3>5, <3>6 DEF tmp102_OK
    <3>4. Piece(Remark.bytes, Here'.bytes)
      <4>1. Here'.bytes \in Seq(Byte)
        BY <2>2
      <4>2. QED
        BY <1>a, <4>1, NonePiece
    <3>8. QED
      BY <1>a, <2>1, <2>2, <3>2, <3>3, <2>4, <3>4, tmp102_Receives, ReportRespects DEF tmp102_OK, Choosy
  <2>5. CASE s.state = "REGISTER_DATA"
    <3>1. s' = [t EXCEPT !.bytes = Keep(s.bytes, d, 2)]
      BY <1>1, <2>1, <2>2, <2>5 DEF tmp102_recv
    <3>5. PICK o \in {0, 1} : Fills(s.bytes, Here.bytes, o, 2)
      BY <2>5 DEF tmp102_OK
    <3>6. Keep(s.bytes, d, 2) \in Seq(Byte) /\ Fills(Keep(s.bytes, d, 2), Here'.bytes, o, 2)
      BY <2>2, <3>5, FillsKeep, 0 \in Nat, 1 \in Nat, 2 \in Nat DEF tmp102_OK, tmp102_Types
    <3>2. /\ s' \in tmp102_Types /\ s'.rep = <<>>
          /\ s'.state = s.state /\ s'.bytes = Keep(s.bytes, d, 2)
      BY <1>0, <1>1, <2>1, <2>2, <2>5, <3>1, ByteIsNat, <3>6 DEF tmp102_Types
    <3>3. tmp102_OK'
      BY <2>1, <2>2, <2>5, <3>2, <3>5, <3>6 DEF tmp102_OK
    <3>4. QED
      BY <2>1, <2>2, <3>2, <3>3, tmp102_Receives, SilentRespects
  <2>6. QED
    BY <2>1, <2>2, <2>3, <2>4, <2>5 DEF tmp102_OK, tmp102_Types
<1>7. ASSUME NEW p, Acknowledges(p)
      PROVE  tmp102_OK' /\ Respects'
  <2>1. /\ s' = tmp102_recv(t, p) /\ p.cmd \in {"ACK", "NACK"}
        /\ phase \in {"address_ack", "data_ack"} /\ phase' = "data" /\ xfer' = xfer
    BY <1>2, <1>7, tmp102_Receives DEF Acknowledges
  <2>2. /\ Here' = Here /\ Here.bytes \in Seq(Byte)
        /\ xfer' # <<>> /\ xfer' \in Seq(PartTypes)
    BY <2>1, HereTyped
  <2>3. s' = t
    BY <1>1, <2>1, <2>2 DEF tmp102_recv
  <2>4. /\ s' \in tmp102_Types /\ s'.rep = <<>>
        /\ s'.state = s.state /\ s'.bytes = s.bytes
    BY <1>0, <1>1, <2>1, <2>2, <2>3, ByteIsNat DEF tmp102_Types
  <2>5. tmp102_OK'
    BY <2>1, <2>2, <2>4 DEF tmp102_OK
  <2>6. QED
    BY <2>1, <2>2, <2>4, <2>5, tmp102_Receives, SilentRespects
<1>8. ASSUME NEW p, Stops(p)
      PROVE  tmp102_OK' /\ Respects'
  <2>1. /\ s' = tmp102_recv(t, p) /\ p.cmd = "STOP"
        /\ phase = "data" /\ phase' = "stopped" /\ xfer' = xfer
    BY <1>2, <1>8, tmp102_Receives DEF Stops
  <2>2. /\ Here' = Here /\ Here.bytes \in Seq(Byte)
        /\ xfer' # <<>> /\ xfer' \in Seq(PartTypes)
    BY <2>1, HereTyped
  <2>3. CASE s.state = "IDLE"
    <3>1. s' = t
      BY <1>1, <2>1, <2>2, <2>3 DEF tmp102_recv
    <3>2. /\ s' \in tmp102_Types /\ s'.rep = <<>>
          /\ s'.state = "IDLE"
      BY <1>0, <1>1, <2>1, <2>2, <2>3, <3>1, ByteIsNat DEF tmp102_Types
    <3>3. tmp102_OK'
      BY <2>1, <2>2, <2>3, <3>2 DEF tmp102_OK
    <3>4. QED
      BY <2>1, <2>2, <3>2, <3>3, tmp102_Receives, SilentRespects
  <2>4. CASE s.state = "REGISTER_ADDRESS"
    <3>1. s' = [t EXCEPT !.rep = <<Remark>>, !.state = "IDLE"]
      BY <1>a, <1>1, <2>1, <2>2, <2>4 DEF tmp102_recv
    <3>2. /\ s' \in tmp102_Types /\ s'.rep = <<Remark>>
          /\ s'.state = "IDLE"
      BY <1>a, <1>0, <1>1, <2>1, <2>2, <2>4, <3>1, ByteIsNat DEF tmp102_Types
    <3>3. tmp102_OK'
      BY <2>1, <2>2, <2>4, <3>2 DEF tmp102_OK
    <3>7. Piece(Remark.bytes, Here'.bytes)
      <4>1. Here'.bytes \in Seq(Byte)
        BY <2>2
      <4>2. QED
        BY <1>a, <4>1, NonePiece
    <3>8. QED
      BY <1>a, <2>1, <2>2, <3>2, <3>3, <2>4, <3>7, tmp102_Receives, ReportRespects DEF tmp102_OK, Choosy
  <2>5. CASE s.state = "REGISTER_DATA" /\ ~(Len(s.bytes) = 2 /\ (IF s.addr = 0 THEN s.reg = 6 ELSE s.reg \in 0 .. 3))
    <3>1. s' = [t EXCEPT !.bytes = <<>>, !.state = "IDLE"]
      BY <1>1, <2>1, <2>2, <2>5 DEF tmp102_recv, tmp102_handle_data
    <3>2. /\ s' \in tmp102_Types /\ s'.rep = <<>>
          /\ s'.state = "IDLE"
      BY <1>0, <1>1, <2>1, <2>2, <2>5, <3>1, ByteIsNat DEF tmp102_Types
    <3>3. tmp102_OK'
      BY <2>1, <2>2, <2>5, <3>2 DEF tmp102_OK
    <3>4. QED
      BY <2>1, <2>2, <3>2, <3>3, tmp102_Receives, SilentRespects
  <2>6. CASE s.state = "REGISTER_DATA" /\ Len(s.bytes) = 2 /\ (IF s.addr = 0 THEN s.reg = 6 ELSE s.reg \in 0 .. 3)
    <3>1. s' = [Say(t, s.reg, s.bytes) EXCEPT !.bytes = <<>>, !.state = "IDLE"]
      BY <1>1, <2>1, <2>2, <2>6 DEF tmp102_recv, tmp102_handle_data
    <3>2. s.reg \in Subjects /\ s.bytes \in Seq(Byte)
      BY SubjectOf, <1>0, <1>1, <2>6, ByteIsNat DEF tmp102_Types
    <3> DEFINE r == Report(s.reg, s.bytes)
               u == Say(t, s.reg, s.bytes)
    <3>3. /\ r.reg = s.reg /\ r.bytes = s.bytes /\ <<r>> \in Seq(Reports)
          /\ Append(<<>>, r) = <<r>> /\ Last(<<r>>) = r
      BY <3>2, OneReport
    <3>a. u = [t EXCEPT !.rep = <<r>>]
      BY <1>1, <3>3 DEF Say
    <3>b. s' = [u EXCEPT !.bytes = <<>>, !.state = "IDLE"]
      BY <1>1, <2>6, <3>1 DEF Say
    <3> HIDE DEF r, u
    <3>4. /\ u \in tmp102_Types /\ u.rep = <<r>>
          /\ u.state = s.state /\ u.addr = s.addr /\ u.reg = s.reg /\ u.bytes = s.bytes
      BY <1>1, <3>3, <3>a DEF tmp102_Types
    <3>5. /\ s' \in tmp102_Types /\ s'.rep = <<r>>
          /\ s'.state = "IDLE"
      BY <1>0, <1>1, <2>1, <2>2, <2>6, <3>b, <3>4, ByteIsNat DEF tmp102_Types
    <3>6. tmp102_OK'
      BY <2>1, <2>2, <2>6, <3>5 DEF tmp102_OK
    <3>7. Piece(r.bytes, Here'.bytes)
      <4>1. PICK o \in {0, 1} : Fills(s.bytes, Here.bytes, o, 2)
        BY <2>6 DEF tmp102_OK
      <4>2. s.bytes \in Seq(Byte) /\ o \in Nat
        BY <1>1 DEF tmp102_OK, tmp102_Types
      <4>3. QED
        BY <2>2, <3>3, <4>1, <4>2, WindowPiece DEF Fills
    <3>9. QED
      BY <2>1, <2>2, <2>6, <3>2, <3>3, <3>5, <3>6, <3>7, tmp102_Receives, ReportRespects DEF tmp102_OK, Choosy
  <2>7. QED
    BY <2>1, <2>2, <2>3, <2>4, <2>5, <2>6 DEF tmp102_OK, tmp102_Types
<1>9. CASE Resets
  <2>1. s' = tmp102_reset /\ phase' = "stopped"
    BY <1>9, tmp102_Receives DEF Resets
  <2>2. s' \in tmp102_Types /\ s'.rep = <<>> /\ s'.state = "IDLE"
    BY <1>0, <2>1 DEF tmp102_reset, tmp102_Types, Byte
  <2>3. tmp102_OK'
    BY <2>1, <2>2 DEF tmp102_OK
  <2>4. QED
    BY <2>1, <2>2, <2>3, tmp102_Receives, SilentRespects
<1>10. QED
  BY <1>3, <1>4, <1>5, <1>6, <1>7, <1>8, <1>9 DEF Steps

\* It begins there, and stays there while nothing happens.
LEMMA tmp102_Begin ==
  ASSUME upper = "tmp102", phase = "stopped", s = ResetOf(upper)
  PROVE  tmp102_OK /\ Respects
<1>1. s = tmp102_reset
  BY tmp102_Receives
<1>2. <<>> \in Seq(Reports) /\ <<>> \in Seq(Byte)
  BY RepTyped
<1>3. tmp102_reset \in tmp102_Types /\ tmp102_reset.rep = <<>> /\ tmp102_reset.state = "IDLE"
  BY ONLY <1>2 DEF tmp102_reset, tmp102_Types, Byte
<1>4. tmp102_OK
  BY <1>1, <1>3 DEF tmp102_OK, Within
<1>5. QED
  BY <1>1, <1>3, <1>4, SilentBegins

LEMMA tmp102_Idle ==
  ASSUME tmp102_OK, UNCHANGED vars
  PROVE  tmp102_OK'
BY DEF tmp102_OK, vars, Within, Here, Met

-----------------------------------------------------------------------------
(* bh1750                                                                    *)

bh1750_Types ==
    [state : {"IDLE", "ADDRESS_SLAVE", "REGISTER_ADDRESS", "REGISTER_DATA"},
     addr : Nat, is_write : BOOLEAN, data_bytes : Seq(Byte), rep : Seq(Reports)]

\* In a part for the chip the decoder knows its direction, and in data_bytes
\* are the first bytes that were read.
bh1750_OK ==
    /\ s \in bh1750_Types
    /\ phase = "stopped" => s.state = "IDLE"
    /\ phase = "address" => s.state \in {"IDLE", "ADDRESS_SLAVE"}
    /\ Within => s.state # "ADDRESS_SLAVE"
    /\ s.state \in {"REGISTER_ADDRESS", "REGISTER_DATA"} =>
         Here.a \in bh1750_addresses /\ (s.is_write <=> Here.w = 1)
    /\ s.state = "REGISTER_ADDRESS" => Here.bytes = <<>>
    /\ s.state = "REGISTER_DATA" /\ ~s.is_write => Fills(s.data_bytes, Here.bytes, 0, 4)

\* The decoder among the others.
LEMMA bh1750_Receives ==
  /\ \A st, p : Recv("bh1750", st, p) = bh1750_recv(st, p)
  /\ \A st : Silenced("bh1750", st) = [st EXCEPT !.rep = <<>>]
  /\ ResetOf("bh1750") = bh1750_reset
  /\ Own("bh1750") = bh1750_addresses
  /\ bh1750_reset.state = "IDLE"
<1>1. /\ \A st, p : Recv("bh1750", st, p) = bh1750_recv(st, p)
      /\ ResetOf("bh1750") = bh1750_reset
  BY DEF Recv, ResetOf
<1>2. \A st : Silenced("bh1750", st) = [st EXCEPT !.rep = <<>>]
  BY DEF Silenced, Relays, Forwarders
<1>3. Own("bh1750") = bh1750_addresses
  BY DEF Own, bh1750_addresses
<1>4. bh1750_reset.state = "IDLE"
  BY DEF bh1750_reset
<1>5. QED
  BY <1>1, <1>2, <1>3, <1>4

\* Every event of the bus keeps its invariant and is reported as it should be.
LEMMA bh1750_Step ==
  ASSUME upper = "bh1750", upper' = upper, BusOK, BusOK', bh1750_OK, Steps
  PROVE  bh1750_OK' /\ Respects'
<1> DEFINE t == [s EXCEPT !.rep = <<>>]
<1>0. <<>> \in Seq(Reports) /\ <<>> \in Seq(Byte)
  BY RepTyped
<1>1. /\ t \in bh1750_Types /\ t.rep = <<>>
      /\ t.state = s.state /\ t.addr = s.addr /\ t.is_write = s.is_write /\ t.data_bytes = s.data_bytes
  BY <1>0 DEF bh1750_OK, bh1750_Types
<1>2. Hushed = t
  BY bh1750_Receives DEF Hushed
<1> HIDE DEF t
<1>a. /\ Mention(t) = [t EXCEPT !.rep = <<Remark>>]
      /\ <<Remark>> \in Seq(Reports) /\ Remark.reg \in Subjects /\ Remark.bytes = <<>>
  BY <1>1, Remarks
<1>b. ASSUME NEW a \in Int
      PROVE  /\ Warn(t, a) = [t EXCEPT !.rep = <<Complaint(a)>>]
             /\ <<Complaint(a)>> \in Seq(Reports)
             /\ Complaint(a).reg = Warning /\ Complaint(a).bytes = <<a>>
  BY <1>1, Complaints
<1> USE DEF To, IsAddress, IsData, Within
<1>3. ASSUME NEW p, Starts(p)
      PROVE  bh1750_OK' /\ Respects'
  <2>1. /\ s' = bh1750_recv(t, p) /\ p.cmd = "START"
        /\ phase = "stopped" /\ phase' = "address"
    BY <1>2, <1>3, bh1750_Receives DEF Starts
  <2>3. CASE s.state = "IDLE"
    <3>1. s' = [t EXCEPT !.state = "ADDRESS_SLAVE", !.data_bytes = <<>>]
      BY <1>1, <2>1, <2>3 DEF bh1750_recv
    <3>2. /\ s' \in bh1750_Types /\ s'.rep = <<>>
          /\ s'.state = "ADDRESS_SLAVE"
      BY <1>0, <1>1, <2>1, <2>3, <3>1, ByteIsNat DEF bh1750_Types
    <3>3. bh1750_OK'
      BY <2>1, <2>3, <3>2 DEF bh1750_OK
    <3>4. QED
      BY <2>1, <3>2, <3>3, bh1750_Receives, SilentRespects
  <2>4. QED
    BY <2>1, <2>3 DEF bh1750_OK, bh1750_Types
<1>4. ASSUME NEW p, Repeats(p)
      PROVE  bh1750_OK' /\ Respects'
  <2>1. /\ s' = bh1750_recv(t, p) /\ p.cmd = "START REPEAT"
        /\ phase = "data" /\ phase' = "address" /\ xfer' = xfer
    BY <1>2, <1>4, bh1750_Receives DEF Repeats
  <2>2. /\ Here' = Here /\ Here.bytes \in Seq(Byte)
        /\ xfer' # <<>> /\ xfer' \in Seq(PartTypes)
    BY <2>1, HereTyped
  <2>3. CASE s.state = "IDLE"
    <3>1. s' = t
      BY <1>1, <2>1, <2>2, <2>3 DEF bh1750_recv
    <3>2. /\ s' \in bh1750_Types /\ s'.rep = <<>>
          /\ s'.state = "IDLE"
      BY <1>0, <1>1, <2>1, <2>2, <2>3, <3>1, ByteIsNat DEF bh1750_Types
    <3>3. bh1750_OK'
      BY <2>1, <2>2, <2>3, <3>2 DEF bh1750_OK
    <3>4. QED
      BY <2>1, <2>2, <3>2, <3>3, bh1750_Receives, SilentRespects
  <2>4. CASE s.state = "REGISTER_ADDRESS"
    <3>1. s' = [t EXCEPT !.rep = <<Remark>>, !.state = "ADDRESS_SLAVE"]
      BY <1>a, <1>1, <2>1, <2>2, <2>4 DEF bh1750_recv
    <3>2. /\ s' \in bh1750_Types /\ s'.rep = <<Remark>>
          /\ s'.state = "ADDRESS_SLAVE"
      BY <1>a, <1>0, <1>1, <2>1, <2>2, <2>4, <3>1, ByteIsNat DEF bh1750_Types
    <3>3. bh1750_OK'
      BY <2>1, <2>2, <2>4, <3>2 DEF bh1750_OK
    <3>7. Piece(Remark.bytes, Here'.bytes)
      <4>1. Here'.bytes \in Seq(Byte)
        BY <2>2
      <4>2. QED
        BY <1>a, <4>1, NonePiece
    <3>8. QED
      BY <1>a, <2>1, <2>2, <3>2, <3>3, <2>4, <3>7, bh1750_Receives, ReportRespects DEF bh1750_OK, Choosy
  <2>5. CASE s.state = "REGISTER_DATA" /\ ~s.is_write /\ ~(Len(s.data_bytes) >= 2)
    <3>1. s' = [t EXCEPT !.data_bytes = <<>>, !.state = "ADDRESS_SLAVE"]
      BY <1>1, <2>1, <2>2, <2>5 DEF bh1750_recv, bh1750_handle_data
    <3>2. /\ s' \in bh1750_Types /\ s'.rep = <<>>
          /\ s'.state = "ADDRESS_SLAVE"
      BY <1>0, <1>1, <2>1, <2>2, <2>5, <3>1, ByteIsNat DEF bh1750_Types
    <3>3. bh1750_OK'
      BY <2>1, <2>2, <2>5, <3>2 DEF bh1750_OK
    <3>4. QED
      BY <2>1, <2>2, <3>2, <3>3, bh1750_Receives, SilentRespects
  <2>m. CASE s.state = "REGISTER_DATA" /\ s.is_write
    <3>0. [t EXCEPT !.data_bytes = <<>>].rep = <<>>
      BY <1>1
    <3>m. Mention([t EXCEPT !.data_bytes = <<>>]) = [t EXCEPT !.data_bytes = <<>>, !.rep = <<Remark>>]
      BY <3>0, Remarks
    <3>1. s' = [t EXCEPT !.rep = <<Remark>>, !.data_bytes = <<>>, !.state = "ADDRESS_SLAVE"]
      BY <1>a, <1>1, <2>1, <2>2, <2>m, <3>m DEF bh1750_recv, bh1750_handle_data
    <3>2. /\ s' \in bh1750_Types /\ s'.rep = <<Remark>>
          /\ s'.state = "ADDRESS_SLAVE"
      BY <1>a, <1>0, <1>1, <2>1, <2>2, <2>m, <3>1, ByteIsNat DEF bh1750_Types
    <3>3. bh1750_OK'
      BY <2>1, <2>2, <2>m, <3>2 DEF bh1750_OK
    <3>7. Piece(Remark.bytes, Here'.bytes)
      <4>1. Here'.bytes \in Seq(Byte)
        BY <2>2
      <4>2. QED
        BY <1>a, <4>1, NonePiece
    <3>8. QED
      BY <1>a, <2>1, <2>2, <3>2, <3>3, <2>m, <3>7, bh1750_Receives, ReportRespects DEF bh1750_OK, Choosy
  <2>6. CASE s.state = "REGISTER_DATA" /\ ~s.is_write /\ Len(s.data_bytes) >= 2
    <3> DEFINE front == SubSeq(s.data_bytes, 1, 2)
    <3>0. front \in Seq(Byte) /\ Window(front, Here.bytes, 0)
      <4>1. s.data_bytes \in Seq(Byte) /\ Window(s.data_bytes, Here.bytes, 0)
        BY <2>6 DEF bh1750_OK, bh1750_Types, Fills
      <4>2. QED
        BY <2>2, <2>6, <4>1, WindowFront, 0 \in Nat, 2 \in Nat
    <3>1. s' = [Say([t EXCEPT !.data_bytes = <<>>], -1, front) EXCEPT !.state = "ADDRESS_SLAVE"]
      BY <1>1, <2>1, <2>2, <2>6 DEF bh1750_recv, bh1750_handle_data
    <3>2. (-1) \in Int /\ front \in Seq(Byte)
      BY <1>0, <1>1, <2>6, <3>0 DEF bh1750_Types
    <3> DEFINE r == Report((-1), front)
               u == Say(t, (-1), front)
    <3>3. /\ r.reg = (-1) /\ r.bytes = front /\ <<r>> \in Seq(Reports)
          /\ Append(<<>>, r) = <<r>> /\ Last(<<r>>) = r
      BY <3>2, OneReport, SubjectOf
    <3>a. u = [t EXCEPT !.rep = <<r>>]
      BY <1>1, <3>3 DEF Say
    <3>b. s' = [u EXCEPT !.data_bytes = <<>>, !.state = "ADDRESS_SLAVE"]
      BY <1>1, <2>6, <3>1 DEF Say
    <3> HIDE DEF r, u
    <3>4. /\ u \in bh1750_Types /\ u.rep = <<r>>
          /\ u.state = s.state /\ u.is_write = s.is_write /\ u.data_bytes = s.data_bytes
      BY <1>1, <3>3, <3>a DEF bh1750_Types
    <3>5. /\ s' \in bh1750_Types /\ s'.rep = <<r>>
          /\ s'.state = "ADDRESS_SLAVE"
      BY <1>0, <1>1, <2>1, <2>2, <2>6, <3>b, <3>4, ByteIsNat DEF bh1750_Types
    <3>6. bh1750_OK'
      BY <2>1, <2>2, <2>6, <3>5 DEF bh1750_OK
    <3>7. Piece(r.bytes, Here'.bytes)
      BY <2>2, <3>0, <3>3, WindowPiece, 0 \in Nat
    <3>9. QED
      BY <2>1, <2>2, <2>6, SubjectOf, <3>3, <3>5, <3>6, <3>7, bh1750_Receives, ReportRespects DEF bh1750_OK, Choosy
  <2>7. QED
    BY <2>m, <2>1, <2>2, <2>3, <2>4, <2>5, <2>6 DEF bh1750_OK, bh1750_Types
<1>5. ASSUME NEW w \in {0, 1}, NEW a \in 0 .. 127, NEW q, NEW p, Addresses(w, a, q, p)
      PROVE  bh1750_OK' /\ Respects'
  <2>0. bh1750_recv(t, q) = t
    BY <1>5 DEF bh1750_recv, Addresses
  <2>1. /\ s' = bh1750_recv(t, p) /\ p.val = a
        /\ p.cmd = (IF w = 1 THEN "ADDRESS WRITE" ELSE "ADDRESS READ")
        /\ phase = "address" /\ phase' = "address_ack"
    <3>1. /\ s' = Recv(upper, Recv(upper, Hushed, q), p)
          /\ p.val = a
          /\ p.cmd = (IF w = 1 THEN "ADDRESS WRITE" ELSE "ADDRESS READ")
          /\ phase = "address" /\ phase' = "address_ack"
      BY <1>5 DEF Addresses
    <3>2. Recv(upper, Recv(upper, Hushed, q), p) = bh1750_recv(t, p)
      BY <1>2, <2>0, bh1750_Receives
    <3>3. QED
      BY <3>1, <3>2
  <2>2. /\ Here'.w = w /\ Here'.a = a /\ Here'.bytes = <<>>
        /\ xfer' # <<>> /\ xfer' \in Seq(PartTypes) /\ a \in Nat
    BY <1>5, AddressesPart
  <2>3. CASE s.state = "IDLE"
    <3>1. s' = t
      BY <1>1, <2>1, <2>2, <2>3 DEF bh1750_recv
    <3>2. /\ s' \in bh1750_Types /\ s'.rep = <<>>
          /\ s'.state = s.state
      BY <1>0, <1>1, <2>1, <2>2, <2>3, <3>1, ByteIsNat DEF bh1750_Types
    <3>3. bh1750_OK'
      BY <2>1, <2>2, <2>3, <3>2 DEF bh1750_OK
    <3>4. QED
      BY <2>1, <2>2, <3>2, <3>3, bh1750_Receives, SilentRespects
  <2>4. CASE s.state = "ADDRESS_SLAVE" /\ a \notin bh1750_addresses
    <3>w. /\ Warn(t, s.addr) = [t EXCEPT !.rep = <<Complaint(s.addr)>>]
          /\ <<Complaint(s.addr)>> \in Seq(Reports)
          /\ Complaint(s.addr).reg = Warning /\ Complaint(s.addr).bytes = <<s.addr>>
      <4>1. s.addr \in Int
        BY <1>1, <2>2 DEF bh1750_Types
      <4>2. QED
        BY <1>b, <4>1
    <3>1. s' = [t EXCEPT !.rep = <<Complaint(s.addr)>>, !.state = "IDLE"]
      BY <3>w, <1>1, <2>1, <2>2, <2>4 DEF bh1750_recv
    <3>2. /\ s' \in bh1750_Types /\ s'.rep = <<Complaint(s.addr)>>
          /\ s'.state = "IDLE"
      BY <3>w, <1>0, <1>1, <2>1, <2>2, <2>4, <3>1, ByteIsNat DEF bh1750_Types
    <3>3. bh1750_OK'
      BY <2>1, <2>2, <2>4, <3>2 DEF bh1750_OK
    <3>4. QED
      BY <2>1, <2>2, <3>2, <3>3, <2>4, <3>w, bh1750_Receives, WarnRespects DEF Choosy, Forgetful
  <2>5. CASE s.state = "ADDRESS_SLAVE" /\ a \in bh1750_addresses /\ w = 1
    <3>1. s' = [t EXCEPT !.rep = <<Remark>>, !.addr = a, !.is_write = TRUE, !.state = "REGISTER_ADDRESS"]
      BY <1>a, <1>1, <2>1, <2>2, <2>5 DEF bh1750_recv
    <3>2. /\ s' \in bh1750_Types /\ s'.rep = <<Remark>>
          /\ s'.state = "REGISTER_ADDRESS" /\ s'.is_write = TRUE
      BY <1>a, <1>0, <1>1, <2>1, <2>2, <2>5, <3>1, ByteIsNat DEF bh1750_Types
    <3>3. bh1750_OK'
      BY <2>1, <2>2, <2>5, <3>2 DEF bh1750_OK
    <3>7. Piece(Remark.bytes, Here'.bytes)
      <4>1. Here'.bytes \in Seq(Byte)
        BY <1>0, <2>2
      <4>2. QED
        BY <1>a, <4>1, NonePiece
    <3>8. QED
      BY <1>a, <2>1, <2>2, <3>2, <3>3, <2>5, <3>7, bh1750_Receives, ReportRespects DEF bh1750_OK, Choosy
  <2>6. CASE s.state = "ADDRESS_SLAVE" /\ a \in bh1750_addresses /\ w # 1
    <3>1. s' = [t EXCEPT !.rep = <<Remark>>, !.addr = a, !.is_write = FALSE, !.state = "REGISTER_ADDRESS"]
      BY <1>a, <1>1, <2>1, <2>2, <2>6 DEF bh1750_recv
    <3>2. /\ s' \in bh1750_Types /\ s'.rep = <<Remark>>
          /\ s'.state = "REGISTER_ADDRESS" /\ s'.is_write = FALSE
      BY <1>a, <1>0, <1>1, <2>1, <2>2, <2>6, <3>1, ByteIsNat DEF bh1750_Types
    <3>3. bh1750_OK'
      BY <2>1, <2>2, <2>6, <3>2 DEF bh1750_OK
    <3>7. Piece(Remark.bytes, Here'.bytes)
      <4>1. Here'.bytes \in Seq(Byte)
        BY <1>0, <2>2
      <4>2. QED
        BY <1>a, <4>1, NonePiece
    <3>8. QED
      BY <1>a, <2>1, <2>2, <3>2, <3>3, <2>6, <3>7, bh1750_Receives, ReportRespects DEF bh1750_OK, Choosy
  <2>7. QED
    BY <2>1, <2>2, <2>3, <2>4, <2>5, <2>6 DEF bh1750_OK, bh1750_Types
<1>6. ASSUME NEW d \in Byte, NEW q, NEW p, Transfers(d, q, p)
      PROVE  bh1750_OK' /\ Respects'
  <2>0. bh1750_recv(t, q) = t
    BY <1>6 DEF bh1750_recv, Transfers
  <2>1. /\ s' = bh1750_recv(t, p) /\ p.val = d
        /\ p.cmd = (IF wr = 1 THEN "DATA WRITE" ELSE "DATA READ")
        /\ phase = "data" /\ phase' = "data_ack"
    <3>1. /\ s' = Recv(upper, Recv(upper, Hushed, q), p)
          /\ p.val = d
          /\ p.cmd = (IF wr = 1 THEN "DATA WRITE" ELSE "DATA READ")
          /\ phase = "data" /\ phase' = "data_ack"
      BY <1>6 DEF Transfers
    <3>2. Recv(upper, Recv(upper, Hushed, q), p) = bh1750_recv(t, p)
      BY <1>2, <2>0, bh1750_Receives
    <3>3. QED
      BY <3>1, <3>2
  <2>2. /\ Here'.w = Here.w /\ Here'.a = Here.a /\ Here'.bytes = Append(Here.bytes, d)
        /\ xfer' # <<>> /\ xfer' \in Seq(PartTypes) /\ Here.bytes \in Seq(Byte) /\ Here.w = wr
    BY <1>6, <2>1, TransfersPart, HereTyped DEF PartTypes
  <2>3. CASE s.state = "IDLE"
    <3>1. s' = t
      BY <1>1, <2>1, <2>2, <2>3 DEF bh1750_recv
    <3>2. /\ s' \in bh1750_Types /\ s'.rep = <<>>
          /\ s'.state = s.state
      BY <1>0, <1>1, <2>1, <2>2, <2>3, <3>1, ByteIsNat DEF bh1750_Types
    <3>3. bh1750_OK'
      BY <2>1, <2>2, <2>3, <3>2 DEF bh1750_OK
    <3>4. QED
      BY <2>1, <2>2, <3>2, <3>3, bh1750_Receives, SilentRespects
  <2>4. CASE s.state = "REGISTER_ADDRESS" /\ wr = 1
    <3>1. s' = [t EXCEPT !.rep = <<Remark>>, !.state = "REGISTER_DATA"]
      BY <1>a, <1>1, <2>1, <2>2, <2>4 DEF bh1750_recv
    <3>2. /\ s' \in bh1750_Types /\ s'.rep = <<Remark>>
          /\ s'.state = "REGISTER_DATA" /\ s'.is_write = s.is_write
      BY <1>a, <1>0, <1>1, <2>1, <2>2, <2>4, <3>1, ByteIsNat DEF bh1750_Types
    <3>5. Here.a \in bh1750_addresses /\ s.is_write
      BY <2>2, <2>4 DEF bh1750_OK
    <3>3. bh1750_OK'
      BY <2>1, <2>2, <2>4, <3>2, <3>5 DEF bh1750_OK
    <3>7. Piece(Remark.bytes, Here'.bytes)
      <4>1. Here'.bytes \in Seq(Byte)
        BY <2>2
      <4>2. QED
        BY <1>a, <4>1, NonePiece
    <3>8. QED
      BY <1>a, <2>1, <2>2, <3>2, <3>3, <2>4, <3>7, bh1750_Receives, ReportRespects DEF bh1750_OK, Choosy
  <2>5. CASE s.state = "REGISTER_ADDRESS" /\ wr # 1
    <3>1. s' = [t EXCEPT !.data_bytes = <<d>>, !.state = "REGISTER_DATA"]
      BY <1>1, <2>1, <2>2, <2>5 DEF bh1750_recv
    <3>5. Here.a \in bh1750_addresses /\ ~s.is_write /\ Here.bytes = <<>>
      BY <2>2, <2>5 DEF bh1750_OK
    <3>7. Len(<<>>) = 0 /\ 0 \in Nat /\ 4 \in Nat /\ <<>> \in Seq(Byte) /\ Keep(<<>>, d, 4) = <<d>>
      BY DEF Keep
    <3>6. <<d>> \in Seq(Byte) /\ Fills(<<d>>, Here'.bytes, 0, 4)
      BY <2>2, <3>5, <3>7, FillsNone, FillsKeep
    <3>2. /\ s' \in bh1750_Types /\ s'.rep = <<>>
          /\ s'.state = "REGISTER_DATA" /\ s'.is_write = s.is_write
          /\ s'.data_bytes = <<d>>
      BY <1>0, <1>1, <2>1, <2>2, <2>5, <3>1, ByteIsNat, <3>6 DEF bh1750_Types
    <3>3. bh1750_OK'
      BY <2>1, <2>2, <2>5, <3>2, <3>5, <3>6 DEF bh1750_OK
    <3>4. QED
      BY <2>1, <2>2, <3>2, <3>3, bh1750_Receives, SilentRespects
  <2>6. CASE s.state = "REGISTER_DATA" /\ s.is_write
    <3>1. s' = t
      BY <1>1, <2>1, <2>2, <2>6 DEF bh1750_recv
    <3>2. /\ s' \in bh1750_Types /\ s'.rep = <<>>
          /\ s'.state = s.state /\ s'.is_write = s.is_write
      BY <1>0, <1>1, <2>1, <2>2, <2>6, <3>1, ByteIsNat DEF bh1750_Types
    <3>3. bh1750_OK'
      BY <2>1, <2>2, <2>6, <3>2 DEF bh1750_OK
    <3>4. QED
      BY <2>1, <2>2, <3>2, <3>3, bh1750_Receives, SilentRespects
  <2>7. CASE s.state = "REGISTER_DATA" /\ ~s.is_write
    <3>1. s' = [t EXCEPT !.data_bytes = Keep(s.data_bytes, d, 4)]
      BY <1>1, <2>1, <2>2, <2>7 DEF bh1750_recv
    <3>6. Keep(s.data_bytes, d, 4) \in Seq(Byte) /\ Fills(Keep(s.data_bytes, d, 4), Here'.bytes, 0, 4)
      BY <2>2, <2>7, FillsKeep, 0 \in Nat, 4 \in Nat DEF bh1750_OK, bh1750_Types
    <3>2. /\ s' \in bh1750_Types /\ s'.rep = <<>>
          /\ s'.state = s.state /\ s'.is_write = s.is_write
          /\ s'.data_bytes = Keep(s.data_bytes, d, 4)
      BY <1>0, <1>1, <2>1, <2>2, <2>7, <3>1, ByteIsNat, <3>6 DEF bh1750_Types
    <3>3. bh1750_OK'
      BY <2>1, <2>2, <2>7, <3>2, <3>6 DEF bh1750_OK
    <3>4. QED
      BY <2>1, <2>2, <3>2, <3>3, bh1750_Receives, SilentRespects
  <2>8. QED
    BY <2>1, <2>2, <2>3, <2>4, <2>5, <2>6, <2>7 DEF bh1750_OK, bh1750_Types
<1>7. ASSUME NEW p, Acknowledges(p)
      PROVE  bh1750_OK' /\ Respects'
  <2>1. /\ s' = bh1750_recv(t, p) /\ p.cmd \in {"ACK", "NACK"}
        /\ phase \in {"address_ack", "data_ack"} /\ phase' = "data" /\ xfer' = xfer
    BY <1>2, <1>7, bh1750_Receives DEF Acknowledges
  <2>2. /\ Here' = Here /\ Here.bytes \in Seq(Byte)
        /\ xfer' # <<>> /\ xfer' \in Seq(PartTypes)
    BY <2>1, HereTyped
  <2>3. s' = t
    BY <1>1, <2>1, <2>2 DEF bh1750_recv
  <2>4. /\ s' \in bh1750_Types /\ s'.rep = <<>>
        /\ s'.state = s.state /\ s'.is_write = s.is_write
        /\ s'.data_bytes = s.data_bytes
    BY <1>0, <1>1, <2>1, <2>2, <2>3, ByteIsNat DEF bh1750_Types
  <2>5. bh1750_OK'
    BY <2>1, <2>2, <2>4 DEF bh1750_OK
  <2>6. QED
    BY <2>1, <2>2, <2>4, <2>5, bh1750_Receives, SilentRespects
<1>8. ASSUME NEW p, Stops(p)
      PROVE  bh1750_OK' /\ Respects'
  <2>1. /\ s' = bh1750_recv(t, p) /\ p.cmd = "STOP"
        /\ phase = "data" /\ phase' = "stopped" /\ xfer' = xfer
    BY <1>2, <1>8, bh1750_Receives DEF Stops
  <2>2. /\ Here' = Here /\ Here.bytes \in Seq(Byte)
        /\ xfer' # <<>> /\ xfer' \in Seq(PartTypes)
    BY <2>1, HereTyped
  <2>3. CASE s.state = "IDLE"
    <3>1. s' = t
      BY <1>1, <2>1, <2>2, <2>3 DEF bh1750_recv
    <3>2. /\ s' \in bh1750_Types /\ s'.rep = <<>>
          /\ s'.state = "IDLE"
      BY <1>0, <1>1, <2>1, <2>2, <2>3, <3>1, ByteIsNat DEF bh1750_Types
    <3>3. bh1750_OK'
      BY <2>1, <2>2, <2>3, <3>2 DEF bh1750_OK
    <3>4. QED
      BY <2>1, <2>2, <3>2, <3>3, bh1750_Receives, SilentRespects
  <2>4. CASE s.state = "REGISTER_ADDRESS"
    <3>1. s' = [t EXCEPT !.rep = <<Remark>>, !.state = "IDLE"]
      BY <1>a, <1>1, <2>1, <2>2, <2>4 DEF bh1750_recv
    <3>2. /\ s' \in bh1750_Types /\ s'.rep = <<Remark>>
          /\ s'.state = "IDLE"
      BY <1>a, <1>0, <1>1, <2>1, <2>2, <2>4, <3>1, ByteIsNat DEF bh1750_Types
    <3>3. bh1750_OK'
      BY <2>1, <2>2, <2>4, <3>2 DEF bh1750_OK
    <3>7. Piece(Remark.bytes, Here'.bytes)
      <4>1. Here'.bytes \in Seq(Byte)
        BY <2>2
      <4>2. QED
        BY <1>a, <4>1, NonePiece
    <3>8. QED
      BY <1>a, <2>1, <2>2, <3>2, <3>3, <2>4, <3>7, bh1750_Receives, ReportRespects DEF bh1750_OK, Choosy
  <2>5. CASE s.state = "REGISTER_DATA" /\ ~s.is_write /\ ~(Len(s.data_bytes) >= 2)
    <3>1. s' = [t EXCEPT !.data_bytes = <<>>, !.state = "IDLE"]
      BY <1>1, <2>1, <2>2, <2>5 DEF bh1750_recv, bh1750_handle_data
    <3>2. /\ s' \in bh1750_Types /\ s'.rep = <<>>
          /\ s'.state = "IDLE"
      BY <1>0, <1>1, <2>1, <2>2, <2>5, <3>1, ByteIsNat DEF bh1750_Types
    <3>3. bh1750_OK'
      BY <2>1, <2>2, <2>5, <3>2 DEF bh1750_OK
    <3>4. QED
      BY <2>1, <2>2, <3>2, <3>3, bh1750_Receives, SilentRespects
  <2>m. CASE s.state = "REGISTER_DATA" /\ s.is_write
    <3>0. [t EXCEPT !.data_bytes = <<>>].rep = <<>>
      BY <1>1
    <3>m. Mention([t EXCEPT !.data_bytes = <<>>]) = [t EXCEPT !.data_bytes = <<>>, !.rep = <<Remark>>]
      BY <3>0, Remarks
    <3>1. s' = [t EXCEPT !.rep = <<Remark>>, !.data_bytes = <<>>, !.state = "IDLE"]
      BY <1>a, <1>1, <2>1, <2>2, <2>m, <3>m DEF bh1750_recv, bh1750_handle_data
    <3>2. /\ s' \in bh1750_Types /\ s'.rep = <<Remark>>
          /\ s'.state = "IDLE"
      BY <1>a, <1>0, <1>1, <2>1, <2>2, <2>m, <3>1, ByteIsNat DEF bh1750_Types
    <3>3. bh1750_OK'
      BY <2>1, <2>2, <2>m, <3>2 DEF bh1750_OK
    <3>7. Piece(Remark.bytes, Here'.bytes)
      <4>1. Here'.bytes \in Seq(Byte)
        BY <2>2
      <4>2. QED
        BY <1>a, <4>1, NonePiece
    <3>8. QED
      BY <1>a, <2>1, <2>2, <3>2, <3>3, <2>m, <3>7, bh1750_Receives, ReportRespects DEF bh1750_OK, Choosy
  <2>6. CASE s.state = "REGISTER_DATA" /\ ~s.is_write /\ Len(s.data_bytes) >= 2
    <3> DEFINE front == SubSeq(s.data_bytes, 1, 2)
    <3>0. front \in Seq(Byte) /\ Window(front, Here.bytes, 0)
      <4>1. s.data_bytes \in Seq(Byte) /\ Window(s.data_bytes, Here.bytes, 0)
        BY <2>6 DEF bh1750_OK, bh1750_Types, Fills
      <4>2. QED
        BY <2>2, <2>6, <4>1, WindowFront, 0 \in Nat, 2 \in Nat
    <3>1. s' = [Say([t EXCEPT !.data_bytes = <<>>], -1, front) EXCEPT !.state = "IDLE"]
      BY <1>1, <2>1, <2>2, <2>6 DEF bh1750_recv, bh1750_handle_data
    <3>2. (-1) \in Int /\ front \in Seq(Byte)
      BY <1>0, <1>1, <2>6, <3>0 DEF bh1750_Types
    <3> DEFINE r == Report((-1), front)
               u == Say(t, (-1), front)
    <3>3. /\ r.reg = (-1) /\ r.bytes = front /\ <<r>> \in Seq(Reports)
          /\ Append(<<>>, r) = <<r>> /\ Last(<<r>>) = r
      BY <3>2, OneReport, SubjectOf
    <3>a. u = [t EXCEPT !.rep = <<r>>]
      BY <1>1, <3>3 DEF Say
    <3>b. s' = [u EXCEPT !.data_bytes = <<>>, !.state = "IDLE"]
      BY <1>1, <2>6, <3>1 DEF Say
    <3> HIDE DEF r, u
    <3>4. /\ u \in bh1750_Types /\ u.rep = <<r>>
          /\ u.state = s.state /\ u.is_write = s.is_write /\ u.data_bytes = s.data_bytes
      BY <1>1, <3>3, <3>a DEF bh1750_Types
    <3>5. /\ s' \in bh1750_Types /\ s'.rep = <<r>>
          /\ s'.state = "IDLE"
      BY <1>0, <1>1, <2>1, <2>2, <2>6, <3>b, <3>4, ByteIsNat DEF bh1750_Types
    <3>6. bh1750_OK'
      BY <2>1, <2>2, <2>6, <3>5 DEF bh1750_OK
    <3>7. Piece(r.bytes, Here'.bytes)
      BY <2>2, <3>0, <3>3, WindowPiece, 0 \in Nat
    <3>9. QED
      BY <2>1, <2>2, <2>6, SubjectOf, <3>3, <3>5, <3>6, <3>7, bh1750_Receives, ReportRespects DEF bh1750_OK, Choosy
  <2>7. QED
    BY <2>m, <2>1, <2>2, <2>3, <2>4, <2>5, <2>6 DEF bh1750_OK, bh1750_Types
<1>9. CASE Resets
  <2>1. s' = bh1750_reset /\ phase' = "stopped"
    BY <1>9, bh1750_Receives DEF Resets
  <2>2. s' \in bh1750_Types /\ s'.rep = <<>> /\ s'.state = "IDLE"
    BY <1>0, <2>1 DEF bh1750_reset, bh1750_Types, Byte
  <2>3. bh1750_OK'
    BY <2>1, <2>2 DEF bh1750_OK
  <2>4. QED
    BY <2>1, <2>2, <2>3, bh1750_Receives, SilentRespects
<1>10. QED
  BY <1>3, <1>4, <1>5, <1>6, <1>7, <1>8, <1>9 DEF Steps

\* It begins there, and stays there while nothing happens.
LEMMA bh1750_Begin ==
  ASSUME upper = "bh1750", phase = "stopped", s = ResetOf(upper)
  PROVE  bh1750_OK /\ Respects
<1>1. s = bh1750_reset
  BY bh1750_Receives
<1>2. <<>> \in Seq(Reports) /\ <<>> \in Seq(Byte)
  BY RepTyped
<1>3. bh1750_reset \in bh1750_Types /\ bh1750_reset.rep = <<>> /\ bh1750_reset.state = "IDLE"
  BY ONLY <1>2 DEF bh1750_reset, bh1750_Types, Byte
<1>4. bh1750_OK
  BY <1>1, <1>3 DEF bh1750_OK, Within
<1>5. QED
  BY <1>1, <1>3, <1>4, SilentBegins

LEMMA bh1750_Idle ==
  ASSUME bh1750_OK, UNCHANGED vars
  PROVE  bh1750_OK'
BY DEF bh1750_OK, vars, Within, Here, Met

-----------------------------------------------------------------------------
(* tcs3472x                                                                  *)

\* Only in a part for the chip does the decoder leave its first two states.
tcs3472x_OK ==
    /\ DOMAIN s = DOMAIN tcs3472x_reset /\ s.register_id \in Nat
    /\ phase = "stopped" => s.state = "INITIAL"
    /\ phase = "address" => s.state \in {"INITIAL", "START"}
    /\ Within => s.state # "START"
    /\ s.state \notin {"INITIAL", "START"} => Here.a = 41

\* The decoder among the others.
LEMMA tcs3472x_Receives ==
  /\ \A st, p : Recv("tcs3472x", st, p) = tcs3472x_recv(st, p)
  /\ \A st : Silenced("tcs3472x", st) = [st EXCEPT !.rep = <<>>]
  /\ ResetOf("tcs3472x") = tcs3472x_reset
  /\ Own("tcs3472x") = {41}
  /\ tcs3472x_reset.state = "INITIAL"
<1>1. /\ \A st, p : Recv("tcs3472x", st, p) = tcs3472x_recv(st, p)
      /\ ResetOf("tcs3472x") = tcs3472x_reset
  BY DEF Recv, ResetOf
<1>2. \A st : Silenced("tcs3472x", st) = [st EXCEPT !.rep = <<>>]
  BY DEF Silenced, Relays, Forwarders
<1>3. Own("tcs3472x") = {41}
  BY DEF Own
<1>4. tcs3472x_reset.state = "INITIAL"
  BY DEF tcs3472x_reset
<1>5. QED
  BY <1>1, <1>2, <1>3, <1>4

\* Every event of the bus keeps its invariant and is reported as it should be.
LEMMA tcs3472x_Step ==
  ASSUME upper = "tcs3472x", upper' = upper, BusOK, BusOK', tcs3472x_OK, Steps
  PROVE  tcs3472x_OK' /\ Respects'
<1> DEFINE t == [s EXCEPT !.rep = <<>>]
<1>0. <<>> \in Seq(Reports) /\ <<>> \in Seq(Byte)
  BY RepTyped
<1>1. /\ DOMAIN t = DOMAIN tcs3472x_reset /\ t.register_id \in Nat /\ t.rep = <<>>
      /\ t.state = s.state
  BY <1>0 DEF tcs3472x_OK, tcs3472x_reset
<1>2. Hushed = t
  BY tcs3472x_Receives DEF Hushed
<1> HIDE DEF t
<1> USE DEF To, IsAddress, IsData, Within
<1>3. ASSUME NEW p, Starts(p)
      PROVE  tcs3472x_OK' /\ Respects'
  <2>1. /\ s' = tcs3472x_recv(t, p) /\ p.cmd = "START"
        /\ phase = "stopped" /\ phase' = "address"
    BY <1>2, <1>3, tcs3472x_Receives DEF Starts
  <2>3. s' = To(t, "START")
    BY <1>1, <2>1 DEF tcs3472x_recv, tcs3472x_OK
  <2>4. /\ DOMAIN s' = DOMAIN tcs3472x_reset /\ s'.register_id \in Nat /\ s'.rep = <<>>
        /\ s'.state = "START"
    BY <1>0, <1>1, <2>1, <2>3 DEF tcs3472x_reset
  <2>5. tcs3472x_OK'
    BY <2>1, <2>4 DEF tcs3472x_OK
  <2>6. QED
    BY <2>1, <2>4, <2>5, tcs3472x_Receives, SilentRespects
<1>4. ASSUME NEW p, Repeats(p)
      PROVE  tcs3472x_OK' /\ Respects'
  <2>1. /\ s' = tcs3472x_recv(t, p) /\ p.cmd = "START REPEAT"
        /\ phase = "data" /\ phase' = "address" /\ xfer' = xfer
    BY <1>2, <1>4, tcs3472x_Receives DEF Repeats
  <2>2. /\ Here' = Here /\ Here.bytes \in Seq(Byte)
        /\ xfer' # <<>> /\ xfer' \in Seq(PartTypes)
    BY <2>1, HereTyped
  <2>3. CASE s.state = "INITIAL"
    <3>1. s' = t
      BY <1>1, <2>1, <2>2, <2>3 DEF tcs3472x_recv
    <3>2. /\ DOMAIN s' = DOMAIN tcs3472x_reset /\ s'.register_id \in Nat /\ s'.rep = <<>>
          /\ s'.state = "INITIAL"
      BY <1>0, <1>1, <2>1, <2>2, <2>3, <3>1 DEF tcs3472x_reset
    <3>3. tcs3472x_OK'
      BY <2>1, <2>2, <2>3, <3>2 DEF tcs3472x_OK
    <3>4. QED
      BY <2>1, <2>2, <3>2, <3>3, tcs3472x_Receives, SilentRespects
  <2>4. CASE s.state # "INITIAL"
    <3>1. s' = To(t, "INITIAL")
      BY <1>1, <2>1, <2>2, <2>4 DEF tcs3472x_recv, tcs3472x_OK
    <3>2. /\ DOMAIN s' = DOMAIN tcs3472x_reset /\ s'.register_id \in Nat /\ s'.rep = <<>>
          /\ s'.state = "INITIAL"
      BY <1>0, <1>1, <2>1, <2>2, <2>4, <3>1 DEF tcs3472x_reset
    <3>3. tcs3472x_OK'
      BY <2>1, <2>2, <2>4, <3>2 DEF tcs3472x_OK
    <3>4. QED
      BY <2>1, <2>2, <3>2, <3>3, tcs3472x_Receives, SilentRespects
  <2>5. QED
    BY <2>1, <2>2, <2>3, <2>4 DEF tcs3472x_OK
<1>5. ASSUME NEW w \in {0, 1}, NEW a \in 0 .. 127, NEW q, NEW p, Addresses(w, a, q, p)
      PROVE  tcs3472x_OK' /\ Respects'
  <2>0. tcs3472x_recv(t, q) = t
    BY <1>5 DEF tcs3472x_recv, Addresses
  <2>1. /\ s' = tcs3472x_recv(t, p) /\ p.val = a
        /\ p.cmd = (IF w = 1 THEN "ADDRESS WRITE" ELSE "ADDRESS READ")
        /\ phase = "address" /\ phase' = "address_ack"
    <3>1. /\ s' = Recv(upper, Recv(upper, Hushed, q), p)
          /\ p.val = a
          /\ p.cmd = (IF w = 1 THEN "ADDRESS WRITE" ELSE "ADDRESS READ")
          /\ phase = "address" /\ phase' = "address_ack"
      BY <1>5 DEF Addresses
    <3>2. Recv(upper, Recv(upper, Hushed, q), p) = tcs3472x_recv(t, p)
      BY <1>2, <2>0, tcs3472x_Receives
    <3>3. QED
      BY <3>1, <3>2
  <2>2. /\ Here'.w = w /\ Here'.a = a /\ Here'.bytes = <<>>
        /\ xfer' # <<>> /\ xfer' \in Seq(PartTypes) /\ a \in Nat
    BY <1>5, AddressesPart
  <2>3. CASE s.state = "INITIAL"
    <3>1. s' = t
      BY <1>1, <2>1, <2>2, <2>3 DEF tcs3472x_recv
    <3>2. /\ DOMAIN s' = DOMAIN tcs3472x_reset /\ s'.register_id \in Nat /\ s'.rep = <<>>
          /\ s'.state = "INITIAL"
      BY <1>0, <1>1, <2>1, <2>2, <2>3, <3>1 DEF tcs3472x_reset
    <3>3. tcs3472x_OK'
      BY <2>1, <2>2, <2>3, <3>2 DEF tcs3472x_OK
    <3>4. QED
      BY <2>1, <2>2, <3>2, <3>3, tcs3472x_Receives, SilentRespects
  <2>4. CASE s.state # "INITIAL" /\ a # 41
    <3>1. s' = To(t, "INITIAL")
      BY <1>1, <2>1, <2>2, <2>4 DEF tcs3472x_recv, tcs3472x_OK
    <3>2. /\ DOMAIN s' = DOMAIN tcs3472x_reset /\ s'.register_id \in Nat /\ s'.rep = <<>>
          /\ s'.state = "INITIAL"
      BY <1>0, <1>1, <2>1, <2>2, <2>4, <3>1 DEF tcs3472x_reset
    <3>3. tcs3472x_OK'
      BY <2>1, <2>2, <2>4, <3>2 DEF tcs3472x_OK
    <3>4. QED
      BY <2>1, <2>2, <3>2, <3>3, tcs3472x_Receives, SilentRespects
  <2>5. CASE s.state # "INITIAL" /\ a = 41 /\ w = 1
    <3>1. s' = To(t, "ADDR_WRITE")
      BY <1>1, <2>1, <2>2, <2>5 DEF tcs3472x_recv, tcs3472x_OK
    <3>2. /\ DOMAIN s' = DOMAIN tcs3472x_reset /\ s'.register_id \in Nat /\ s'.rep = <<>>
          /\ s'.state = "ADDR_WRITE"
      BY <1>0, <1>1, <2>1, <2>2, <2>5, <3>1 DEF tcs3472x_reset
    <3>3. tcs3472x_OK'
      BY <2>1, <2>2, <2>5, <3>2 DEF tcs3472x_OK
    <3>4. QED
      BY <2>1, <2>2, <3>2, <3>3, tcs3472x_Receives, SilentRespects
  <2>6. CASE s.state # "INITIAL" /\ a = 41 /\ w # 1
    <3>1. s' = To(t, "ADDR_READ")
      BY <1>1, <2>1, <2>2, <2>6 DEF tcs3472x_recv, tcs3472x_OK
    <3>2. /\ DOMAIN s' = DOMAIN tcs3472x_reset /\ s'.register_id \in Nat /\ s'.rep = <<>>
          /\ s'.state = "ADDR_READ"
      BY <1>0, <1>1, <2>1, <2>2, <2>6, <3>1 DEF tcs3472x_reset
    <3>3. tcs3472x_OK'
      BY <2>1, <2>2, <2>6, <3>2 DEF tcs3472x_OK
    <3>4. QED
      BY <2>1, <2>2, <3>2, <3>3, tcs3472x_Receives, SilentRespects
  <2>7. QED
    BY <2>1, <2>2, <2>3, <2>4, <2>5, <2>6 DEF tcs3472x_OK
<1>6. ASSUME NEW d \in Byte, NEW q, NEW p, Transfers(d, q, p)
      PROVE  tcs3472x_OK' /\ Respects'
  <2>0. tcs3472x_recv(t, q) = t
    BY <1>6 DEF tcs3472x_recv, Transfers
  <2>1. /\ s' = tcs3472x_recv(t, p) /\ p.val = d
        /\ p.cmd = (IF wr = 1 THEN "DATA WRITE" ELSE "DATA READ")
        /\ phase = "data" /\ phase' = "data_ack"
    <3>1. /\ s' = Recv(upper, Recv(upper, Hushed, q), p)
          /\ p.val = d
          /\ p.cmd = (IF wr = 1 THEN "DATA WRITE" ELSE "DATA READ")
          /\ phase = "data" /\ phase' = "data_ack"
      BY <1>6 DEF Transfers
    <3>2. Recv(upper, Recv(upper, Hushed, q), p) = tcs3472x_recv(t, p)
      BY <1>2, <2>0, tcs3472x_Receives
    <3>3. QED
      BY <3>1, <3>2
  <2>2. /\ Here'.w = Here.w /\ Here'.a = Here.a /\ Here'.bytes = Append(Here.bytes, d)
        /\ xfer' # <<>> /\ xfer' \in Seq(PartTypes) /\ Here.bytes \in Seq(Byte) /\ Here.w = wr
    BY <1>6, <2>1, TransfersPart, HereTyped DEF PartTypes
  <2>3. CASE s.state = "INITIAL"
    <3>1. s' = t
      BY <1>1, <2>1, <2>2, <2>3 DEF tcs3472x_recv
    <3>2. /\ DOMAIN s' = DOMAIN tcs3472x_reset /\ s'.register_id \in Nat /\ s'.rep = <<>>
          /\ s'.state = "INITIAL"
      BY <1>0, <1>1, <2>1, <2>2, <2>3, <3>1 DEF tcs3472x_reset
    <3>3. tcs3472x_OK'
      BY <2>1, <2>2, <2>3, <3>2 DEF tcs3472x_OK
    <3>4. QED
      BY <2>1, <2>2, <3>2, <3>3, tcs3472x_Receives, SilentRespects
  <2>4. CASE s.state # "INITIAL"
    <3>d. d % 64 \in Nat
      BY ByteIsNat
    <3>0. s.state # "START"
      BY <2>1, <2>4 DEF tcs3472x_OK
    <3>1. s' = tcs3472x_recv(t, p)
      BY <1>1, <2>1, <2>2, <2>4 DEF tcs3472x_recv
    <3>2. /\ DOMAIN s' = DOMAIN tcs3472x_reset /\ s'.register_id \in Nat /\ s'.rep = <<>>
          /\ s'.state # "START"
      BY <1>0, <1>1, <2>1, <2>2, <2>4, <3>1, <3>0, <3>d DEF tcs3472x_reset, tcs3472x_recv, tcs3472x_take
    <3>3. tcs3472x_OK'
      BY <2>1, <2>2, <2>4, <3>2, <3>0 DEF tcs3472x_OK
    <3>4. QED
      BY <2>1, <2>2, <3>2, <3>3, tcs3472x_Receives, SilentRespects
  <2>5. QED
    BY <2>1, <2>2, <2>3, <2>4 DEF tcs3472x_OK
<1>7. ASSUME NEW p, Acknowledges(p)
      PROVE  tcs3472x_OK' /\ Respects'
  <2>1. /\ s' = tcs3472x_recv(t, p) /\ p.cmd \in {"ACK", "NACK"}
        /\ phase \in {"address_ack", "data_ack"} /\ phase' = "data" /\ xfer' = xfer
    BY <1>2, <1>7, tcs3472x_Receives DEF Acknowledges
  <2>2. /\ Here' = Here /\ Here.bytes \in Seq(Byte)
        /\ xfer' # <<>> /\ xfer' \in Seq(PartTypes)
    BY <2>1, HereTyped
  <2>3. CASE s.state = "INITIAL"
    <3>1. s' = t
      BY <1>1, <2>1, <2>2, <2>3 DEF tcs3472x_recv
    <3>2. /\ DOMAIN s' = DOMAIN tcs3472x_reset /\ s'.register_id \in Nat /\ s'.rep = <<>>
          /\ s'.state = "INITIAL"
      BY <1>0, <1>1, <2>1, <2>2, <2>3, <3>1 DEF tcs3472x_reset
    <3>3. tcs3472x_OK'
      BY <2>1, <2>2, <2>3, <3>2 DEF tcs3472x_OK
    <3>4. QED
      BY <2>1, <2>2, <3>2, <3>3, tcs3472x_Receives, SilentRespects
  <2>4. CASE s.state # "INITIAL"
    <3>0. s.state # "START"
      BY <2>1, <2>4 DEF tcs3472x_OK
    <3>1. s' = tcs3472x_recv(t, p)
      BY <1>1, <2>1, <2>2, <2>4 DEF tcs3472x_recv
    <3>2. /\ DOMAIN s' = DOMAIN tcs3472x_reset /\ s'.register_id \in Nat /\ s'.rep = <<>>
          /\ s'.state # "START"
      BY <1>0, <1>1, <2>1, <2>2, <2>4, <3>1, <3>0 DEF tcs3472x_reset, tcs3472x_recv
    <3>3. tcs3472x_OK'
      BY <2>1, <2>2, <2>4, <3>2, <3>0 DEF tcs3472x_OK
    <3>4. QED
      BY <2>1, <2>2, <3>2, <3>3, tcs3472x_Receives, SilentRespects
  <2>5. QED
    BY <2>1, <2>2, <2>3, <2>4 DEF tcs3472x_OK
<1>8. ASSUME NEW p, Stops(p)
      PROVE  tcs3472x_OK' /\ Respects'
  <2>1. /\ s' = tcs3472x_recv(t, p) /\ p.cmd = "STOP"
        /\ phase = "data" /\ phase' = "stopped" /\ xfer' = xfer
    BY <1>2, <1>8, tcs3472x_Receives DEF Stops
  <2>2. /\ Here' = Here /\ Here.bytes \in Seq(Byte)
        /\ xfer' # <<>> /\ xfer' \in Seq(PartTypes)
    BY <2>1, HereTyped
  <2>3. CASE s.state = "INITIAL"
    <3>1. s' = t
      BY <1>1, <2>1, <2>2, <2>3 DEF tcs3472x_recv
    <3>2. /\ DOMAIN s' = DOMAIN tcs3472x_reset /\ s'.register_id \in Nat /\ s'.rep = <<>>
          /\ s'.state = "INITIAL"
      BY <1>0, <1>1, <2>1, <2>2, <2>3, <3>1 DEF tcs3472x_reset
    <3>3. tcs3472x_OK'
      BY <2>1, <2>2, <2>3, <3>2 DEF tcs3472x_OK
    <3>4. QED
      BY <2>1, <2>2, <3>2, <3>3, tcs3472x_Receives, SilentRespects
  <2>4. CASE ~(s.state \in {"ACK_DATA_WRITE", "DATA_READ", "ACK_DATA_READ"}) /\ s.state # "INITIAL"
    <3>1. s' = To(t, "INITIAL")
      BY <1>1, <2>1, <2>2, <2>4 DEF tcs3472x_recv, tcs3472x_OK
    <3>2. /\ DOMAIN s' = DOMAIN tcs3472x_reset /\ s'.register_id \in Nat /\ s'.rep = <<>>
          /\ s'.state = "INITIAL"
      BY <1>0, <1>1, <2>1, <2>2, <2>4, <3>1 DEF tcs3472x_reset
    <3>3. tcs3472x_OK'
      BY <2>1, <2>2, <2>4, <3>2 DEF tcs3472x_OK
    <3>4. QED
      BY <2>1, <2>2, <3>2, <3>3, tcs3472x_Receives, SilentRespects
  <2>5. CASE s.state \in {"ACK_DATA_WRITE", "DATA_READ", "ACK_DATA_READ"}
    <3>1. s' = tcs3472x_interpret(t)
      BY <1>1, <2>1, <2>2, <2>5 DEF tcs3472x_recv
    <3>2. /\ DOMAIN s' = DOMAIN tcs3472x_reset /\ s'.register_id \in Nat
          /\ s'.state = "INITIAL"
      BY <1>1, <2>1, <2>2, <2>5, <3>1 DEF tcs3472x_reset, tcs3472x_interpret, Say
    <3>3. tcs3472x_OK'
      BY <2>1, <2>2, <2>5, <3>2 DEF tcs3472x_OK
    <3>4. \A i \in DOMAIN s'.rep : s'.rep[i].reg # Warning
      <4> DEFINE r == Report(t.register_id, SubSeq(t.byte_values, 1, IF Len(t.byte_values) > 1 THEN 2 ELSE Len(t.byte_values)))
      <4>1. r.reg = t.register_id
        BY DEF Report
      <4>2. s'.rep = Append(<<>>, r)
        BY <1>1, <3>1 DEF tcs3472x_reset, tcs3472x_interpret, Say
      <4> HIDE DEF r
      <4>3. r.reg # Warning
        BY <1>1, <4>1 DEF Warning
      <4>4. QED
        BY <4>2, <4>3
    <3>5. QED
      BY <2>1, <2>2, <2>5, <3>2, <3>3, <3>4, tcs3472x_Receives, OwnRespects DEF tcs3472x_OK, Quoting, Choosy
  <2>6. QED
    BY <2>1, <2>2, <2>3, <2>4, <2>5 DEF tcs3472x_OK
<1>9. CASE Resets
  <2>1. s' = tcs3472x_reset /\ phase' = "stopped"
    BY <1>9, tcs3472x_Receives DEF Resets
  <2>2. DOMAIN s' = DOMAIN tcs3472x_reset /\ s'.register_id \in Nat /\ s'.rep = <<>> /\ s'.state = "INITIAL"
    BY <2>1 DEF tcs3472x_reset
  <2>3. tcs3472x_OK'
    BY <2>1, <2>2 DEF tcs3472x_OK
  <2>4. QED
    BY <2>1, <2>2, <2>3, tcs3472x_Receives, SilentRespects
<1>10. QED
  BY <1>3, <1>4, <1>5, <1>6, <1>7, <1>8, <1>9 DEF Steps

\* It begins there, and stays there while nothing happens.
LEMMA tcs3472x_Begin ==
  ASSUME upper = "tcs3472x", phase = "stopped", s = ResetOf(upper)
  PROVE  tcs3472x_OK /\ Respects
<1>1. s = tcs3472x_reset
  BY tcs3472x_Receives
<1>2. DOMAIN s = DOMAIN tcs3472x_reset /\ s.register_id \in Nat /\ s.rep = <<>> /\ s.state = "INITIAL"
  BY <1>1 DEF tcs3472x_reset
<1>3. tcs3472x_OK
  BY <1>2 DEF tcs3472x_OK, Within
<1>4. QED
  BY <1>2, <1>3, SilentBegins

LEMMA tcs3472x_Idle ==
  ASSUME tcs3472x_OK, UNCHANGED vars
  PROVE  tcs3472x_OK'
BY DEF tcs3472x_OK, vars, Within, Here, Met

-----------------------------------------------------------------------------
(* mpu6050                                                                   *)

mpu6050_Types ==
    [state : {"IDLE", "GET_SLAVE_ADDR", "GET_REG_ADDR", "WRITE_REGS"},
     reg : Nat, rep : Seq(Reports)]

\* Registers are read and written only in a part for the chip.
mpu6050_OK ==
    /\ s \in mpu6050_Types
    /\ phase = "stopped" => s.state = "IDLE"
    /\ phase = "address" => s.state \in {"IDLE", "GET_SLAVE_ADDR"}
    /\ Within => s.state # "GET_SLAVE_ADDR"
    /\ s.state \in {"GET_REG_ADDR", "WRITE_REGS"} => Here.a = 104

\* The decoder among the others.
LEMMA mpu6050_Receives ==
  /\ \A st, p : Recv("mpu6050", st, p) = mpu6050_recv(st, p)
  /\ \A st : Silenced("mpu6050", st) = [st EXCEPT !.rep = <<>>]
  /\ ResetOf("mpu6050") = mpu6050_reset
  /\ Own("mpu6050") = {104}
  /\ mpu6050_reset.state = "IDLE"
<1>1. /\ \A st, p : Recv("mpu6050", st, p) = mpu6050_recv(st, p)
      /\ ResetOf("mpu6050") = mpu6050_reset
  BY DEF Recv, ResetOf
<1>2. \A st : Silenced("mpu6050", st) = [st EXCEPT !.rep = <<>>]
  BY DEF Silenced, Relays, Forwarders
<1>3. Own("mpu6050") = {104}
  BY DEF Own
<1>4. mpu6050_reset.state = "IDLE"
  BY DEF mpu6050_reset
<1>5. QED
  BY <1>1, <1>2, <1>3, <1>4

\* Every event of the bus keeps its invariant and is reported as it should be.
LEMMA mpu6050_Step ==
  ASSUME upper = "mpu6050", upper' = upper, BusOK, BusOK', mpu6050_OK, Steps
  PROVE  mpu6050_OK' /\ Respects'
<1> DEFINE t == [s EXCEPT !.rep = <<>>]
<1>0. <<>> \in Seq(Reports) /\ <<>> \in Seq(Byte)
  BY RepTyped
<1>1. /\ t \in mpu6050_Types /\ t.rep = <<>>
      /\ t.state = s.state /\ t.reg = s.reg
  BY <1>0 DEF mpu6050_OK, mpu6050_Types
<1>2. Hushed = t
  BY mpu6050_Receives DEF Hushed
<1> HIDE DEF t
<1>a. /\ Mention(t) = [t EXCEPT !.rep = <<Remark>>]
      /\ <<Remark>> \in Seq(Reports) /\ Remark.reg \in Subjects /\ Remark.bytes = <<>>
  BY <1>1, Remarks
<1>b. ASSUME NEW a \in Int
      PROVE  /\ Warn(t, a) = [t EXCEPT !.rep = <<Complaint(a)>>]
             /\ <<Complaint(a)>> \in Seq(Reports)
             /\ Complaint(a).reg = Warning /\ Complaint(a).bytes = <<a>>
  BY <1>1, Complaints
<1> USE DEF To, IsAddress, IsData, Within
<1>3. ASSUME NEW p, Starts(p)
      PROVE  mpu6050_OK' /\ Respects'
  <2>1. /\ s' = mpu6050_recv(t, p) /\ p.cmd = "START"
        /\ phase = "stopped" /\ phase' = "address"
    BY <1>2, <1>3, mpu6050_Receives DEF Starts
  <2>3. CASE s.state = "IDLE"
    <3>1. s' = To(t, "GET_SLAVE_ADDR")
      BY <1>1, <2>1, <2>3 DEF mpu6050_recv
    <3>2. /\ s' \in mpu6050_Types /\ s'.rep = <<>>
          /\ s'.state = "GET_SLAVE_ADDR"
      BY <1>0, <1>1, <2>1, <2>3, <3>1, ByteIsNat DEF mpu6050_Types
    <3>3. mpu6050_OK'
      BY <2>1, <2>3, <3>2 DEF mpu6050_OK
    <3>4. QED
      BY <2>1, <3>2, <3>3, mpu6050_Receives, SilentRespects
  <2>4. QED
    BY <2>1, <2>3 DEF mpu6050_OK, mpu6050_Types
<1>4. ASSUME NEW p, Repeats(p)
      PROVE  mpu6050_OK' /\ Respects'
  <2>1. /\ s' = mpu6050_recv(t, p) /\ p.cmd = "START REPEAT"
        /\ phase = "data" /\ phase' = "address" /\ xfer' = xfer
    BY <1>2, <1>4, mpu6050_Receives DEF Repeats
  <2>2. /\ Here' = Here /\ Here.bytes \in Seq(Byte)
        /\ xfer' # <<>> /\ xfer' \in Seq(PartTypes)
    BY <2>1, HereTyped
  <2>3. CASE s.state = "IDLE"
    <3>1. s' = t
      BY <1>1, <2>1, <2>2, <2>3 DEF mpu6050_recv
    <3>2. /\ s' \in mpu6050_Types /\ s'.rep = <<>>
          /\ s'.state = s.state
      BY <1>0, <1>1, <2>1, <2>2, <2>3, <3>1, ByteIsNat DEF mpu6050_Types
    <3>3. mpu6050_OK'
      BY <2>1, <2>2, <2>3, <3>2 DEF mpu6050_OK
    <3>4. QED
      BY <2>1, <2>2, <3>2, <3>3, mpu6050_Receives, SilentRespects
  <2>4. CASE s.state \in {"GET_REG_ADDR", "WRITE_REGS"}
    <3>1. s' = To(t, "GET_SLAVE_ADDR")
      BY <1>1, <2>1, <2>2, <2>4 DEF mpu6050_recv
    <3>2. /\ s' \in mpu6050_Types /\ s'.rep = <<>>
          /\ s'.state = "GET_SLAVE_ADDR"
      BY <1>0, <1>1, <2>1, <2>2, <2>4, <3>1, ByteIsNat DEF mpu6050_Types
    <3>3. mpu6050_OK'
      BY <2>1, <2>2, <2>4, <3>2 DEF mpu6050_OK
    <3>4. QED
      BY <2>1, <2>2, <3>2, <3>3, mpu6050_Receives, SilentRespects
  <2>5. QED
    BY <2>1, <2>2, <2>3, <2>4 DEF mpu6050_OK, mpu6050_Types
<1>5. ASSUME NEW w \in {0, 1}, NEW a \in 0 .. 127, NEW q, NEW p, Addresses(w, a, q, p)
      PROVE  mpu6050_OK' /\ Respects'
  <2>0. mpu6050_recv(t, q) = t
    BY <1>5 DEF mpu6050_recv, Addresses
  <2>1. /\ s' = mpu6050_recv(t, p) /\ p.val = a
        /\ p.cmd = (IF w = 1 THEN "ADDRESS WRITE" ELSE "ADDRESS READ")
        /\ phase = "address" /\ phase' = "address_ack"
    <3>1. /\ s' = Recv(upper, Recv(upper, Hushed, q), p)
          /\ p.val = a
          /\ p.cmd = (IF w = 1 THEN "ADDRESS WRITE" ELSE "ADDRESS READ")
          /\ phase = "address" /\ phase' = "address_ack"
      BY <1>5 DEF Addresses
    <3>2. Recv(upper, Recv(upper, Hushed, q), p) = mpu6050_recv(t, p)
      BY <1>2, <2>0, mpu6050_Receives
    <3>3. QED
      BY <3>1, <3>2
  <2>2. /\ Here'.w = w /\ Here'.a = a /\ Here'.bytes = <<>>
        /\ xfer' # <<>> /\ xfer' \in Seq(PartTypes) /\ a \in Nat
    BY <1>5, AddressesPart
  <2>3. CASE s.state = "IDLE"
    <3>1. s' = t
      BY <1>1, <2>1, <2>2, <2>3 DEF mpu6050_recv
    <3>2. /\ s' \in mpu6050_Types /\ s'.rep = <<>>
          /\ s'.state = s.state
      BY <1>0, <1>1, <2>1, <2>2, <2>3, <3>1, ByteIsNat DEF mpu6050_Types
    <3>3. mpu6050_OK'
      BY <2>1, <2>2, <2>3, <3>2 DEF mpu6050_OK
    <3>4. QED
      BY <2>1, <2>2, <3>2, <3>3, mpu6050_Receives, SilentRespects
  <2>4. CASE s.state = "GET_SLAVE_ADDR" /\ a \in {104, 127}
    <3>1. s' = To(t, IF a = 104 THEN "GET_REG_ADDR" ELSE "IDLE")
      BY <1>1, <2>1, <2>2, <2>4 DEF mpu6050_recv
    <3>2. /\ s' \in mpu6050_Types /\ s'.rep = <<>>
          /\ s'.state \in {"GET_REG_ADDR", "IDLE"}
          /\ s'.state = "GET_REG_ADDR" => a = 104
      BY <1>0, <1>1, <2>1, <2>2, <2>4, <3>1, ByteIsNat DEF mpu6050_Types
    <3>3. mpu6050_OK'
      BY <2>1, <2>2, <2>4, <3>2 DEF mpu6050_OK
    <3>4. QED
      BY <2>1, <2>2, <3>2, <3>3, mpu6050_Receives, SilentRespects
  <2>w. CASE s.state = "GET_SLAVE_ADDR" /\ a \notin {104, 127}
    <3>w. /\ Warn(t, a) = [t EXCEPT !.rep = <<Complaint(a)>>]
          /\ <<Complaint(a)>> \in Seq(Reports)
          /\ Complaint(a).reg = Warning /\ Complaint(a).bytes = <<a>>
      <4>1. a \in Int
        BY <1>1, <2>2 DEF mpu6050_Types
      <4>2. QED
        BY <1>b, <4>1
    <3>1. s' = [t EXCEPT !.rep = <<Complaint(a)>>, !.state = "IDLE"]
      BY <3>w, <1>1, <2>1, <2>2, <2>w DEF mpu6050_recv
    <3>2. /\ s' \in mpu6050_Types /\ s'.rep = <<Complaint(a)>>
          /\ s'.state = "IDLE"
      BY <3>w, <1>0, <1>1, <2>1, <2>2, <2>w, <3>1, ByteIsNat DEF mpu6050_Types
    <3>3. mpu6050_OK'
      BY <2>1, <2>2, <2>w, <3>2 DEF mpu6050_OK
    <3>4. QED
      BY <2>1, <2>2, <3>2, <3>3, <2>w, <3>w, mpu6050_Receives, WarnRespects DEF Choosy, Forgetful
  <2>5. QED
    BY <2>w, <2>1, <2>2, <2>3, <2>4 DEF mpu6050_OK, mpu6050_Types
<1>6. ASSUME NEW d \in Byte, NEW q, NEW p, Transfers(d, q, p)
      PROVE  mpu6050_OK' /\ Respects'
  <2>0. mpu6050_recv(t, q) = t
    BY <1>6 DEF mpu6050_recv, Transfers
  <2>1. /\ s' = mpu6050_recv(t, p) /\ p.val = d
        /\ p.cmd = (IF wr = 1 THEN "DATA WRITE" ELSE "DATA READ")
        /\ phase = "data" /\ phase' = "data_ack"
    <3>1. /\ s' = Recv(upper, Recv(upper, Hushed, q), p)
          /\ p.val = d
          /\ p.cmd = (IF wr = 1 THEN "DATA WRITE" ELSE "DATA READ")
          /\ phase = "data" /\ phase' = "data_ack"
      BY <1>6 DEF Transfers
    <3>2. Recv(upper, Recv(upper, Hushed, q), p) = mpu6050_recv(t, p)
      BY <1>2, <2>0, mpu6050_Receives
    <3>3. QED
      BY <3>1, <3>2
  <2>2. /\ Here'.w = Here.w /\ Here'.a = Here.a /\ Here'.bytes = Append(Here.bytes, d)
        /\ xfer' # <<>> /\ xfer' \in Seq(PartTypes) /\ Here.bytes \in Seq(Byte) /\ Here.w = wr
    BY <1>6, <2>1, TransfersPart, HereTyped DEF PartTypes
  <2>3. CASE s.state = "IDLE" \/ (s.state = "WRITE_REGS" /\ wr # 1)
    <3>1. s' = t
      BY <1>1, <2>1, <2>2, <2>3 DEF mpu6050_recv
    <3>2. /\ s' \in mpu6050_Types /\ s'.rep = <<>>
          /\ s'.state = s.state
      BY <1>0, <1>1, <2>1, <2>2, <2>3, <3>1, ByteIsNat DEF mpu6050_Types
    <3>3. mpu6050_OK'
      BY <2>1, <2>2, <2>3, <3>2 DEF mpu6050_OK
    <3>4. QED
      BY <2>1, <2>2, <3>2, <3>3, mpu6050_Receives, SilentRespects
  <2>4. CASE s.state = "GET_REG_ADDR" /\ wr = 1
    <3>1. s' = [t EXCEPT !.reg = d, !.state = "WRITE_REGS"]
      BY <1>1, <2>1, <2>2, <2>4 DEF mpu6050_recv
    <3>2. /\ s' \in mpu6050_Types /\ s'.rep = <<>>
          /\ s'.state = "WRITE_REGS"
      BY <1>0, <1>1, <2>1, <2>2, <2>4, <3>1, ByteIsNat DEF mpu6050_Types
    <3>3. mpu6050_OK'
      BY <2>1, <2>2, <2>4, <3>2 DEF mpu6050_OK
    <3>4. QED
      BY <2>1, <2>2, <3>2, <3>3, mpu6050_Receives, SilentRespects
  <2>5. CASE (s.state = "GET_REG_ADDR" /\ wr # 1) \/ (s.state = "WRITE_REGS" /\ wr = 1)
    <3>1. s' = mpu6050_handle_reg(t, d)
      BY <1>1, <2>1, <2>2, <2>5 DEF mpu6050_recv
    <3>2. s.reg \in Subjects /\ <<d>> \in Seq(Byte)
      BY SubjectOf, <1>0, <1>1, <2>5, ByteIsNat DEF mpu6050_Types
    <3> DEFINE r == Report(s.reg, <<d>>)
               u == Say(t, s.reg, <<d>>)
    <3>3. /\ r.reg = s.reg /\ r.bytes = <<d>> /\ <<r>> \in Seq(Reports)
          /\ Append(<<>>, r) = <<r>> /\ Last(<<r>>) = r
      BY <3>2, OneReport
    <3>a. u = [t EXCEPT !.rep = <<r>>]
      BY <1>1, <3>3 DEF Say
    <3>b. s' = u \/ s' = [u EXCEPT !.reg = u.reg + 1]
      BY <1>1, <2>5, <3>1 DEF Say, mpu6050_handle_reg, mpu6050_handle_reg_data, mpu6050_handle_reg_control
    <3> HIDE DEF r, u
    <3>4. /\ u \in mpu6050_Types /\ u.rep = <<r>>
          /\ u.state = s.state /\ u.reg = s.reg
      BY <1>1, <3>3, <3>a DEF mpu6050_Types
    <3>c. u.reg + 1 \in Nat
      BY <1>1, <3>4 DEF mpu6050_Types
    <3> DEFINE g == u.reg + 1
    <3>d. g \in Nat /\ (s' = u \/ s' = [u EXCEPT !.reg = g])
      BY <3>b, <3>c
    <3> HIDE DEF g
    <3>5. /\ s' \in mpu6050_Types /\ s'.rep = <<r>>
          /\ s'.state = s.state
      BY <3>4, <3>d DEF mpu6050_Types
    <3>6. mpu6050_OK'
      BY <2>1, <2>2, <2>5, <3>5 DEF mpu6050_OK
    <3>7. Piece(r.bytes, Here'.bytes)
      BY <2>2, <3>3, LastPiece
    <3>9. QED
      BY <2>1, <2>2, <2>5, <3>2, <3>3, <3>5, <3>6, <3>7, mpu6050_Receives, ReportRespects DEF mpu6050_OK, Choosy
  <2>6. QED
    BY <2>1, <2>2, <2>3, <2>4, <2>5 DEF mpu6050_OK, mpu6050_Types
<1>7. ASSUME NEW p, Acknowledges(p)
      PROVE  mpu6050_OK' /\ Respects'
  <2>1. /\ s' = mpu6050_recv(t, p) /\ p.cmd \in {"ACK", "NACK"}
        /\ phase \in {"address_ack", "data_ack"} /\ phase' = "data" /\ xfer' = xfer
    BY <1>2, <1>7, mpu6050_Receives DEF Acknowledges
  <2>2. /\ Here' = Here /\ Here.bytes \in Seq(Byte)
        /\ xfer' # <<>> /\ xfer' \in Seq(PartTypes)
    BY <2>1, HereTyped
  <2>3. s' = t
    BY <1>1, <2>1, <2>2 DEF mpu6050_recv
  <2>4. /\ s' \in mpu6050_Types /\ s'.rep = <<>>
        /\ s'.state = s.state
    BY <1>0, <1>1, <2>1, <2>2, <2>3, ByteIsNat DEF mpu6050_Types
  <2>5. mpu6050_OK'
    BY <2>1, <2>2, <2>4 DEF mpu6050_OK
  <2>6. QED
    BY <2>1, <2>2, <2>4, <2>5, mpu6050_Receives, SilentRespects
<1>8. ASSUME NEW p, Stops(p)
      PROVE  mpu6050_OK' /\ Respects'
  <2>1. /\ s' = mpu6050_recv(t, p) /\ p.cmd = "STOP"
        /\ phase = "data" /\ phase' = "stopped" /\ xfer' = xfer
    BY <1>2, <1>8, mpu6050_Receives DEF Stops
  <2>2. /\ Here' = Here /\ Here.bytes \in Seq(Byte)
        /\ xfer' # <<>> /\ xfer' \in Seq(PartTypes)
    BY <2>1, HereTyped
  <2>3. CASE s.state = "IDLE"
    <3>1. s' = t
      BY <1>1, <2>1, <2>2, <2>3 DEF mpu6050_recv
    <3>2. /\ s' \in mpu6050_Types /\ s'.rep = <<>>
          /\ s'.state = "IDLE"
      BY <1>0, <1>1, <2>1, <2>2, <2>3, <3>1, ByteIsNat DEF mpu6050_Types
    <3>3. mpu6050_OK'
      BY <2>1, <2>2, <2>3, <3>2 DEF mpu6050_OK
    <3>4. QED
      BY <2>1, <2>2, <3>2, <3>3, mpu6050_Receives, SilentRespects
  <2>4. CASE s.state # "IDLE"
    <3>1. s' = To(t, "IDLE")
      BY <1>1, <2>1, <2>2, <2>4 DEF mpu6050_recv, mpu6050_OK, mpu6050_Types
    <3>2. /\ s' \in mpu6050_Types /\ s'.rep = <<>>
          /\ s'.state = "IDLE"
      BY <1>0, <1>1, <2>1, <2>2, <2>4, <3>1, ByteIsNat DEF mpu6050_Types
    <3>3. mpu6050_OK'
      BY <2>1, <2>2, <2>4, <3>2 DEF mpu6050_OK
    <3>4. QED
      BY <2>1, <2>2, <3>2, <3>3, mpu6050_Receives, SilentRespects
  <2>5. QED
    BY <2>1, <2>2, <2>3, <2>4 DEF mpu6050_OK, mpu6050_Types
<1>9. CASE Resets
  <2>1. s' = mpu6050_reset /\ phase' = "stopped"
    BY <1>9, mpu6050_Receives DEF Resets
  <2>2. s' \in mpu6050_Types /\ s'.rep = <<>> /\ s'.state = "IDLE"
    BY <1>0, <2>1 DEF mpu6050_reset, mpu6050_Types, Byte
  <2>3. mpu6050_OK'
    BY <2>1, <2>2 DEF mpu6050_OK
  <2>4. QED
    BY <2>1, <2>2, <2>3, mpu6050_Receives, SilentRespects
<1>10. QED
  BY <1>3, <1>4, <1>5, <1>6, <1>7, <1>8, <1>9 DEF Steps

\* It begins there, and stays there while nothing happens.
LEMMA mpu6050_Begin ==
  ASSUME upper = "mpu6050", phase = "stopped", s = ResetOf(upper)
  PROVE  mpu6050_OK /\ Respects
<1>1. s = mpu6050_reset
  BY mpu6050_Receives
<1>2. <<>> \in Seq(Reports) /\ <<>> \in Seq(Byte)
  BY RepTyped
<1>3. mpu6050_reset \in mpu6050_Types /\ mpu6050_reset.rep = <<>> /\ mpu6050_reset.state = "IDLE"
  BY ONLY <1>2 DEF mpu6050_reset, mpu6050_Types, Byte
<1>4. mpu6050_OK
  BY <1>1, <1>3 DEF mpu6050_OK, Within
<1>5. QED
  BY <1>1, <1>3, <1>4, SilentBegins

LEMMA mpu6050_Idle ==
  ASSUME mpu6050_OK, UNCHANGED vars
  PROVE  mpu6050_OK'
BY DEF mpu6050_OK, vars, Within, Here, Met

-----------------------------------------------------------------------------
(* mxc6225xu                                                                 *)

mxc6225xu_Types ==
    [state : {"IDLE", "GET_SLAVE_ADDR", "GET_REG_ADDR", "WRITE_REGS", "READ_REGS", "READ_REGS2"}, reg : Nat, rep : Seq(Reports)]

\* The register never falls below the first one.
mxc6225xu_OK ==
    /\ s \in mxc6225xu_Types

\* The decoder among the others.
LEMMA mxc6225xu_Receives ==
  /\ \A st, p : Recv("mxc6225xu", st, p) = mxc6225xu_recv(st, p)
  /\ \A st : Silenced("mxc6225xu", st) = [st EXCEPT !.rep = <<>>]
  /\ ResetOf("mxc6225xu") = mxc6225xu_reset
<1>1. /\ \A st, p : Recv("mxc6225xu", st, p) = mxc6225xu_recv(st, p)
      /\ ResetOf("mxc6225xu") = mxc6225xu_reset
  BY DEF Recv, ResetOf
<1>2. \A st : Silenced("mxc6225xu", st) = [st EXCEPT !.rep = <<>>]
  BY DEF Silenced, Relays, Forwarders
<1>3. QED
  BY <1>1, <1>2

\* Every event of the bus keeps its invariant and is reported as it should be.
LEMMA mxc6225xu_Step ==
  ASSUME upper = "mxc6225xu", upper' = upper, BusOK, BusOK', mxc6225xu_OK, Steps
  PROVE  mxc6225xu_OK' /\ Respects'
<1> DEFINE t == [s EXCEPT !.rep = <<>>]
<1>0. <<>> \in Seq(Reports) /\ <<>> \in Seq(Byte)
  BY RepTyped
<1>1. /\ t \in mxc6225xu_Types /\ t.rep = <<>>
      /\ t.state = s.state /\ t.reg = s.reg
  BY <1>0 DEF mxc6225xu_OK, mxc6225xu_Types
<1>2. Hushed = t
  BY mxc6225xu_Receives DEF Hushed
<1> HIDE DEF t
<1>a. /\ Mention(t) = [t EXCEPT !.rep = <<Remark>>]
      /\ <<Remark>> \in Seq(Reports) /\ Remark.reg \in Subjects /\ Remark.bytes = <<>>
  BY <1>1, Remarks
<1>b. ASSUME NEW a \in Int
      PROVE  /\ Warn(t, a) = [t EXCEPT !.rep = <<Complaint(a)>>]
             /\ <<Complaint(a)>> \in Seq(Reports)
             /\ Complaint(a).reg = Warning /\ Complaint(a).bytes = <<a>>
  BY <1>1, Complaints
<1> USE DEF To, IsAddress, IsData, Within
<1>3. ASSUME NEW p, Starts(p)
      PROVE  mxc6225xu_OK' /\ Respects'
  <2>1. /\ s' = mxc6225xu_recv(t, p) /\ p.cmd = "START"
        /\ phase = "stopped" /\ phase' = "address"
    BY <1>2, <1>3, mxc6225xu_Receives DEF Starts
  <2>3. s' = mxc6225xu_recv(t, p)
    BY <1>1, <2>1 DEF mxc6225xu_recv
  <2>4. /\ s' \in mxc6225xu_Types /\ s'.rep = <<>>
    BY <1>0, <1>1, <2>1, <2>3, ByteIsNat DEF mxc6225xu_Types, mxc6225xu_recv
  <2>5. mxc6225xu_OK'
    BY <2>1, <2>4 DEF mxc6225xu_OK
  <2>6. QED
    BY <2>1, <2>4, <2>5, mxc6225xu_Receives, SilentRespects DEF Tidy
<1>4. ASSUME NEW p, Repeats(p)
      PROVE  mxc6225xu_OK' /\ Respects'
  <2>1. /\ s' = mxc6225xu_recv(t, p) /\ p.cmd = "START REPEAT"
        /\ phase = "data" /\ phase' = "address" /\ xfer' = xfer
    BY <1>2, <1>4, mxc6225xu_Receives DEF Repeats
  <2>2. /\ Here' = Here /\ Here.bytes \in Seq(Byte)
        /\ xfer' # <<>> /\ xfer' \in Seq(PartTypes)
    BY <2>1, HereTyped
  <2>3. s' = mxc6225xu_recv(t, p)
    BY <1>1, <2>1, <2>2 DEF mxc6225xu_recv
  <2>4. /\ s' \in mxc6225xu_Types /\ s'.rep = <<>>
    BY <1>0, <1>1, <2>1, <2>2, <2>3, ByteIsNat DEF mxc6225xu_Types, mxc6225xu_recv
  <2>5. mxc6225xu_OK'
    BY <2>1, <2>2, <2>4 DEF mxc6225xu_OK
  <2>6. QED
    BY <2>1, <2>2, <2>4, <2>5, mxc6225xu_Receives, SilentRespects DEF Tidy
<1>5. ASSUME NEW w \in {0, 1}, NEW a \in 0 .. 127, NEW q, NEW p, Addresses(w, a, q, p)
      PROVE  mxc6225xu_OK' /\ Respects'
  <2>0. mxc6225xu_recv(t, q) = t
    BY <1>5 DEF mxc6225xu_recv, Addresses
  <2>1. /\ s' = mxc6225xu_recv(t, p) /\ p.val = a
        /\ p.cmd = (IF w = 1 THEN "ADDRESS WRITE" ELSE "ADDRESS READ")
        /\ phase = "address" /\ phase' = "address_ack"
    <3>1. /\ s' = Recv(upper, Recv(upper, Hushed, q), p)
          /\ p.val = a
          /\ p.cmd = (IF w = 1 THEN "ADDRESS WRITE" ELSE "ADDRESS READ")
          /\ phase = "address" /\ phase' = "address_ack"
      BY <1>5 DEF Addresses
    <3>2. Recv(upper, Recv(upper, Hushed, q), p) = mxc6225xu_recv(t, p)
      BY <1>2, <2>0, mxc6225xu_Receives
    <3>3. QED
      BY <3>1, <3>2
  <2>2. /\ Here'.w = w /\ Here'.a = a /\ Here'.bytes = <<>>
        /\ xfer' # <<>> /\ xfer' \in Seq(PartTypes) /\ a \in Nat
    BY <1>5, AddressesPart
  <2>3. CASE s.state \in {"GET_SLAVE_ADDR", "READ_REGS"} /\ a # 42 /\ (w = 1 <=> s.state = "GET_SLAVE_ADDR")
    <3>w. /\ Warn(t, a) = [t EXCEPT !.rep = <<Complaint(a)>>]
          /\ <<Complaint(a)>> \in Seq(Reports) /\ Complaint(a).reg = Warning
      BY <1>b, <2>2
    <3>1. s' = [t EXCEPT !.rep = <<Complaint(a)>>, !.state = "IDLE"]
      BY <3>w, <1>1, <2>1, <2>3 DEF mxc6225xu_recv
    <3>2. /\ s' \in mxc6225xu_Types /\ s'.rep = <<Complaint(a)>>
      BY <3>w, <1>1, <3>1 DEF mxc6225xu_Types
    <3>3. mxc6225xu_OK'
      BY <3>2 DEF mxc6225xu_OK
    <3>4. QED
      BY <2>1, <2>2, <3>2, <3>3, <3>w, mxc6225xu_Receives, WarnRespects DEF Choosy, Tidy
  <2>4. CASE ~(s.state \in {"GET_SLAVE_ADDR", "READ_REGS"} /\ a # 42 /\ (w = 1 <=> s.state = "GET_SLAVE_ADDR"))
    <3>1. \/ s' = t
          \/ \E c \in {"GET_REG_ADDR", "READ_REGS2"} : s' = [t EXCEPT !.state = c]
      BY <1>1, <2>1, <2>4 DEF mxc6225xu_recv
    <3>2. /\ s' \in mxc6225xu_Types /\ s'.rep = <<>>
      BY <1>0, <1>1, <3>1 DEF mxc6225xu_Types
    <3>3. mxc6225xu_OK'
      BY <3>2 DEF mxc6225xu_OK
    <3>4. QED
      BY <2>1, <2>2, <3>2, <3>3, mxc6225xu_Receives, SilentRespects DEF Tidy
  <2>5. QED
    BY <2>3, <2>4
<1>6. ASSUME NEW d \in Byte, NEW q, NEW p, Transfers(d, q, p)
      PROVE  mxc6225xu_OK' /\ Respects'
  <2>0. mxc6225xu_recv(t, q) = t
    BY <1>6 DEF mxc6225xu_recv, Transfers
  <2>1. /\ s' = mxc6225xu_recv(t, p) /\ p.val = d
        /\ p.cmd = (IF wr = 1 THEN "DATA WRITE" ELSE "DATA READ")
        /\ phase = "data" /\ phase' = "data_ack"
    <3>1. /\ s' = Recv(upper, Recv(upper, Hushed, q), p)
          /\ p.val = d
          /\ p.cmd = (IF wr = 1 THEN "DATA WRITE" ELSE "DATA READ")
          /\ phase = "data" /\ phase' = "data_ack"
      BY <1>6 DEF Transfers
    <3>2. Recv(upper, Recv(upper, Hushed, q), p) = mxc6225xu_recv(t, p)
      BY <1>2, <2>0, mxc6225xu_Receives
    <3>3. QED
      BY <3>1, <3>2
  <2>2. /\ Here'.w = Here.w /\ Here'.a = Here.a /\ Here'.bytes = Append(Here.bytes, d)
        /\ xfer' # <<>> /\ xfer' \in Seq(PartTypes) /\ Here.bytes \in Seq(Byte) /\ Here.w = wr
    BY <1>6, <2>1, TransfersPart, HereTyped DEF PartTypes
  <2>3. CASE ~(((s.state = "WRITE_REGS" /\ wr = 1) \/ (s.state = "READ_REGS2" /\ wr # 1)))
    <3>1. s' = IF s.state = "GET_REG_ADDR" /\ wr = 1
               THEN [t EXCEPT !.reg = d, !.state = "WRITE_REGS"] ELSE t
      BY <1>1, <2>1, <2>2, <2>3 DEF mxc6225xu_recv
    <3>2. /\ s' \in mxc6225xu_Types /\ s'.rep = <<>>
      BY <1>0, <1>1, <2>1, <2>2, <2>3, <3>1, ByteIsNat DEF mxc6225xu_Types
    <3>3. mxc6225xu_OK'
      BY <2>1, <2>2, <2>3, <3>2 DEF mxc6225xu_OK
    <3>4. QED
      BY <2>1, <2>2, <3>2, <3>3, mxc6225xu_Receives, SilentRespects DEF Tidy
  <2>4. CASE ((s.state = "WRITE_REGS" /\ wr = 1) \/ (s.state = "READ_REGS2" /\ wr # 1)) /\ s.reg \notin 0 .. 3
    <3> DEFINE g == t.reg + 1
    <3>0. g \in Nat /\ ~(t.reg \in 0 .. 3)
      BY <1>1, <2>4 DEF mxc6225xu_Types
    <3>1. s' = [t EXCEPT !.reg = g]
      BY <1>1, <2>1, <2>2, <2>4, <3>0 DEF mxc6225xu_recv, mxc6225xu_handle_reg
    <3> HIDE DEF g
    <3>2. /\ s' \in mxc6225xu_Types /\ s'.rep = <<>>
      BY <1>0, <1>1, <2>1, <2>2, <2>4, <3>1, ByteIsNat, <3>0 DEF mxc6225xu_Types
    <3>3. mxc6225xu_OK'
      BY <2>1, <2>2, <2>4, <3>2 DEF mxc6225xu_OK
    <3>4. QED
      BY <2>1, <2>2, <3>2, <3>3, mxc6225xu_Receives, SilentRespects DEF Tidy
  <2>5. CASE ((s.state = "WRITE_REGS" /\ wr = 1) \/ (s.state = "READ_REGS2" /\ wr # 1)) /\ s.reg \in 0 .. 3
    <3>1. s' = mxc6225xu_handle_reg(t, d)
      BY <1>1, <2>1, <2>2, <2>5 DEF mxc6225xu_recv
    <3>2. s.reg \in Subjects /\ <<d>> \in Seq(Byte)
      BY SubjectOf, <1>0, <1>1, <2>5, ByteIsNat DEF mxc6225xu_Types
    <3> DEFINE r == Report(s.reg, <<d>>)
               u == Say(t, s.reg, <<d>>)
    <3>3. /\ r.reg = s.reg /\ r.bytes = <<d>> /\ <<r>> \in Seq(Reports)
          /\ Append(<<>>, r) = <<r>> /\ Last(<<r>>) = r
      BY <3>2, OneReport
    <3>a. u = [t EXCEPT !.rep = <<r>>]
      BY <1>1, <3>3 DEF Say
    <3>b. s' = [u EXCEPT !.reg = u.reg + 1]
      BY <1>1, <2>5, <3>1 DEF Say, mxc6225xu_handle_reg
    <3> HIDE DEF r, u
    <3>4. /\ u \in mxc6225xu_Types /\ u.rep = <<r>>
          /\ u.state = s.state /\ u.reg = s.reg
      BY <1>1, <3>3, <3>a DEF mxc6225xu_Types
    <3> DEFINE g == u.reg + 1
    <3>c. u.reg \in Nat
      BY <3>4 DEF mxc6225xu_Types
    <3>d. g \in Nat /\ s' = [u EXCEPT !.reg = g]
      BY <3>b, <3>c
    <3> HIDE DEF g
    <3>5. /\ s' \in mxc6225xu_Types /\ s'.rep = <<r>>
      BY <3>4, <3>d DEF mxc6225xu_Types
    <3>6. mxc6225xu_OK'
      BY <2>1, <2>2, <2>5, <3>5 DEF mxc6225xu_OK
    <3>7. Piece(r.bytes, Here'.bytes)
      BY <2>2, <3>3, LastPiece
    <3>9. QED
      BY <2>1, <2>2, <2>5, <3>2, <3>3, <3>5, <3>6, <3>7, mxc6225xu_Receives, ReportRespects DEF mxc6225xu_OK, Choosy, Tidy
  <2>6. QED
    BY <2>1, <2>2, <2>3, <2>4, <2>5 DEF mxc6225xu_OK, mxc6225xu_Types
<1>7. ASSUME NEW p, Acknowledges(p)
      PROVE  mxc6225xu_OK' /\ Respects'
  <2>1. /\ s' = mxc6225xu_recv(t, p) /\ p.cmd \in {"ACK", "NACK"}
        /\ phase \in {"address_ack", "data_ack"} /\ phase' = "data" /\ xfer' = xfer
    BY <1>2, <1>7, mxc6225xu_Receives DEF Acknowledges
  <2>2. /\ Here' = Here /\ Here.bytes \in Seq(Byte)
        /\ xfer' # <<>> /\ xfer' \in Seq(PartTypes)
    BY <2>1, HereTyped
  <2>3. s' = mxc6225xu_recv(t, p)
    BY <1>1, <2>1, <2>2 DEF mxc6225xu_recv
  <2>4. /\ s' \in mxc6225xu_Types /\ s'.rep = <<>>
    BY <1>0, <1>1, <2>1, <2>2, <2>3, ByteIsNat DEF mxc6225xu_Types, mxc6225xu_recv
  <2>5. mxc6225xu_OK'
    BY <2>1, <2>2, <2>4 DEF mxc6225xu_OK
  <2>6. QED
    BY <2>1, <2>2, <2>4, <2>5, mxc6225xu_Receives, SilentRespects DEF Tidy
<1>8. ASSUME NEW p, Stops(p)
      PROVE  mxc6225xu_OK' /\ Respects'
  <2>1. /\ s' = mxc6225xu_recv(t, p) /\ p.cmd = "STOP"
        /\ phase = "data" /\ phase' = "stopped" /\ xfer' = xfer
    BY <1>2, <1>8, mxc6225xu_Receives DEF Stops
  <2>2. /\ Here' = Here /\ Here.bytes \in Seq(Byte)
        /\ xfer' # <<>> /\ xfer' \in Seq(PartTypes)
    BY <2>1, HereTyped
  <2>3. s' = mxc6225xu_recv(t, p)
    BY <1>1, <2>1, <2>2 DEF mxc6225xu_recv
  <2>4. /\ s' \in mxc6225xu_Types /\ s'.rep = <<>>
    BY <1>0, <1>1, <2>1, <2>2, <2>3, ByteIsNat DEF mxc6225xu_Types, mxc6225xu_recv
  <2>5. mxc6225xu_OK'
    BY <2>1, <2>2, <2>4 DEF mxc6225xu_OK
  <2>6. QED
    BY <2>1, <2>2, <2>4, <2>5, mxc6225xu_Receives, SilentRespects DEF Tidy
<1>9. CASE Resets
  <2>1. s' = mxc6225xu_reset /\ phase' = "stopped"
    BY <1>9, mxc6225xu_Receives DEF Resets
  <2>2. s' \in mxc6225xu_Types /\ s'.rep = <<>>
    BY <1>0, <2>1 DEF mxc6225xu_reset, mxc6225xu_Types, Byte
  <2>3. mxc6225xu_OK'
    BY <2>1, <2>2 DEF mxc6225xu_OK
  <2>4. QED
    BY <2>1, <2>2, <2>3, mxc6225xu_Receives, SilentRespects DEF Tidy
<1>10. QED
  BY <1>3, <1>4, <1>5, <1>6, <1>7, <1>8, <1>9 DEF Steps

\* It begins there, and stays there while nothing happens.
LEMMA mxc6225xu_Begin ==
  ASSUME upper = "mxc6225xu", phase = "stopped", s = ResetOf(upper)
  PROVE  mxc6225xu_OK /\ Respects
<1>1. s = mxc6225xu_reset
  BY mxc6225xu_Receives
<1>2. <<>> \in Seq(Reports) /\ <<>> \in Seq(Byte)
  BY RepTyped
<1>3. mxc6225xu_reset \in mxc6225xu_Types /\ mxc6225xu_reset.rep = <<>>
  BY ONLY <1>2 DEF mxc6225xu_reset, mxc6225xu_Types, Byte
<1>4. mxc6225xu_OK
  BY <1>1, <1>3 DEF mxc6225xu_OK, Within
<1>5. QED
  BY <1>1, <1>3, <1>4, SilentBegins

LEMMA mxc6225xu_Idle ==
  ASSUME mxc6225xu_OK, UNCHANGED vars
  PROVE  mxc6225xu_OK'
BY DEF mxc6225xu_OK, vars, Within, Here, Met

-----------------------------------------------------------------------------
(* ds1307                                                                    *)

ds1307_Types ==
    [state : {"IDLE", "GET_SLAVE_ADDR", "GET_REG_ADDR", "WRITE_RTC_REGS",
              "READ_RTC_REGS", "READ_RTC_REGS2"},
     reg : Nat, kept : [0 .. 6 -> Int], rep : Seq(Reports)]

\* The kept bytes that have been seen were on the bus for their registers.
Held(kept, bytes) == \A k \in 0 .. 6 : kept[k] # Unseen => <<k, kept[k]>> \in bytes

\* The decoder's register is the pointer of the chip wherever a byte can be
\* reported, and across the repeated START of a read.
Registered == s'.rep # <<>> => Last(s'.rep).reg \in {ptr, Warning, Summary}

ds1307_OK ==
    /\ s \in ds1307_Types /\ Held(s.kept, carried)
    /\ phase = "stopped" => s.state = "IDLE"
    /\ phase = "address" => s.state \in {"GET_SLAVE_ADDR", "READ_RTC_REGS"}
    /\ Within => s.state # "GET_SLAVE_ADDR"
    /\ s.state \in {"GET_REG_ADDR", "WRITE_RTC_REGS", "READ_RTC_REGS2"} => Here.a = 104
    /\ s.state = "GET_REG_ADDR" => Here.bytes = <<>> /\ Here.w = 1
    /\ s.state = "WRITE_RTC_REGS" => Here.bytes # <<>> /\ Here.w = 1
    /\ s.state = "READ_RTC_REGS2" => Here.w # 1
    /\ (\/ s.state \in {"WRITE_RTC_REGS", "READ_RTC_REGS2"}
        \/ s.state = "READ_RTC_REGS" /\ phase = "address") => s.reg = ptr

\* The decoder among the others.
LEMMA ds1307_Receives ==
  /\ \A st, p : Recv("ds1307", st, p) = ds1307_recv(st, p)
  /\ \A st : Silenced("ds1307", st) = [st EXCEPT !.rep = <<>>]
  /\ ResetOf("ds1307") = ds1307_reset
  /\ Own("ds1307") = {104}
  /\ ds1307_reset.state = "IDLE"
<1>1. /\ \A st, p : Recv("ds1307", st, p) = ds1307_recv(st, p)
      /\ ResetOf("ds1307") = ds1307_reset
  BY DEF Recv, ResetOf
<1>2. \A st : Silenced("ds1307", st) = [st EXCEPT !.rep = <<>>]
  BY DEF Silenced, Relays, Forwarders
<1>3. Own("ds1307") = {104}
  BY DEF Own
<1>4. ds1307_reset.state = "IDLE"
  BY DEF ds1307_reset
<1>5. QED
  BY <1>1, <1>2, <1>3, <1>4

\* Every event of the bus keeps its invariant and is reported as it should be.
LEMMA ds1307_Step ==
  ASSUME upper = "ds1307", upper' = upper, BusOK, BusOK', ds1307_OK, Steps
  PROVE  ds1307_OK' /\ Respects' /\ Registered
<1> DEFINE t == [s EXCEPT !.rep = <<>>]
<1>0. <<>> \in Seq(Reports) /\ <<>> \in Seq(Byte)
  BY RepTyped
<1>1. /\ t \in ds1307_Types /\ t.rep = <<>>
      /\ t.state = s.state /\ t.reg = s.reg /\ t.kept = s.kept
  BY <1>0 DEF ds1307_OK, ds1307_Types
<1>2. Hushed = t
  BY ds1307_Receives DEF Hushed
<1> HIDE DEF t
<1>a. /\ Mention(t) = [t EXCEPT !.rep = <<Remark>>]
      /\ <<Remark>> \in Seq(Reports) /\ Remark.reg \in Subjects /\ Remark.bytes = <<>>
  BY <1>1, Remarks
<1>b. ASSUME NEW a \in Int
      PROVE  /\ Warn(t, a) = [t EXCEPT !.rep = <<Complaint(a)>>]
             /\ <<Complaint(a)>> \in Seq(Reports)
             /\ Complaint(a).reg = Warning /\ Complaint(a).bytes = <<a>>
  BY <1>1, Complaints
<1> USE DEF To, IsAddress, IsData, Within
<1>3. ASSUME NEW p, Starts(p)
      PROVE  ds1307_OK' /\ Respects' /\ Registered
  <2>1. /\ s' = ds1307_recv(t, p) /\ p.cmd = "START"
        /\ phase = "stopped" /\ phase' = "address" /\ carried' = carried
    BY <1>2, <1>3, ds1307_Receives DEF Starts
  <2>3. s' = To(t, "GET_SLAVE_ADDR")
    BY <1>1, <2>1 DEF ds1307_recv
  <2>4. /\ s' \in ds1307_Types /\ s'.rep = <<>> /\ s'.kept = s.kept
        /\ s'.state = "GET_SLAVE_ADDR"
    BY <1>0, <1>1, <2>1, <2>3, ByteIsNat DEF ds1307_Types
  <2>5. ds1307_OK'
    BY <2>1, <2>4 DEF ds1307_OK
  <2>6. QED
    BY <2>1, <2>4, <2>5, ds1307_Receives, SilentRespects DEF Registered
<1>4. ASSUME NEW p, Repeats(p)
      PROVE  ds1307_OK' /\ Respects' /\ Registered
  <2>1. /\ s' = ds1307_recv(t, p) /\ p.cmd = "START REPEAT"
        /\ phase = "data" /\ phase' = "address" /\ xfer' = xfer /\ carried' = carried
    BY <1>2, <1>4, ds1307_Receives DEF Repeats
  <2>2. /\ Here' = Here /\ Here.bytes \in Seq(Byte)
        /\ xfer' # <<>> /\ xfer' \in Seq(PartTypes)
    BY <2>1, HereTyped
  <2>3. CASE s.state = "WRITE_RTC_REGS"
    <3>1. s' = To(t, "READ_RTC_REGS")
      BY <1>1, <2>1, <2>2, <2>3 DEF ds1307_recv
    <3>2. /\ s' \in ds1307_Types /\ s'.rep = <<>> /\ s'.kept = s.kept
          /\ s'.state = "READ_RTC_REGS" /\ s'.reg = s.reg
      BY <1>0, <1>1, <2>1, <2>2, <2>3, <3>1, ByteIsNat DEF ds1307_Types
    <3>3. ds1307_OK'
      BY <2>1, <2>2, <2>3, <3>2, <1>4 DEF ds1307_OK, Repeats
    <3>4. QED
      BY <2>1, <2>2, <3>2, <3>3, ds1307_Receives, SilentRespects DEF Registered
  <2>4. CASE s.state # "WRITE_RTC_REGS"
    <3>1. s' = To(t, "GET_SLAVE_ADDR")
      BY <1>1, <2>1, <2>2, <2>4 DEF ds1307_recv
    <3>2. /\ s' \in ds1307_Types /\ s'.rep = <<>> /\ s'.kept = s.kept
          /\ s'.state = "GET_SLAVE_ADDR"
      BY <1>0, <1>1, <2>1, <2>2, <2>4, <3>1, ByteIsNat DEF ds1307_Types
    <3>3. ds1307_OK'
      BY <2>1, <2>2, <2>4, <3>2 DEF ds1307_OK
    <3>4. QED
      BY <2>1, <2>2, <3>2, <3>3, ds1307_Receives, SilentRespects DEF Registered
  <2>5. QED
    BY <2>1, <2>2, <2>3, <2>4 DEF ds1307_OK, ds1307_Types
<1>5. ASSUME NEW w \in {0, 1}, NEW a \in 0 .. 127, NEW q, NEW p, Addresses(w, a, q, p)
      PROVE  ds1307_OK' /\ Respects' /\ Registered
  <2>0. ds1307_recv(t, q) = t
    BY <1>5 DEF ds1307_recv, Addresses
  <2>1. /\ s' = ds1307_recv(t, p) /\ p.val = a
        /\ p.cmd = (IF w = 1 THEN "ADDRESS WRITE" ELSE "ADDRESS READ")
        /\ phase = "address" /\ phase' = "address_ack" /\ carried' = carried
    <3>1. /\ s' = Recv(upper, Recv(upper, Hushed, q), p)
          /\ p.val = a
          /\ p.cmd = (IF w = 1 THEN "ADDRESS WRITE" ELSE "ADDRESS READ")
          /\ phase = "address" /\ phase' = "address_ack" /\ carried' = carried
      BY <1>5 DEF Addresses
    <3>2. Recv(upper, Recv(upper, Hushed, q), p) = ds1307_recv(t, p)
      BY <1>2, <2>0, ds1307_Receives
    <3>3. QED
      BY <3>1, <3>2
  <2>2. /\ Here'.w = w /\ Here'.a = a /\ Here'.bytes = <<>>
        /\ xfer' # <<>> /\ xfer' \in Seq(PartTypes) /\ a \in Nat
    BY <1>5, AddressesPart
  <2>3. CASE a # 104 /\ (s.state = "GET_SLAVE_ADDR" \/ w # 1) /\ a = 127
    <3>0. t.state = "GET_SLAVE_ADDR" \/ (t.state = "READ_RTC_REGS" /\ w # 1)
      BY <1>1, <2>1, <2>3 DEF ds1307_OK
    <3>f. ds1307_recv(t, p) = ds1307_foreign(t, a)
      BY <2>1, <2>3, <3>0 DEF ds1307_recv
    <3>1. s' = To(t, "IDLE")
      BY <1>1, <2>1, <2>3, <3>f DEF ds1307_foreign
    <3>2. /\ s' \in ds1307_Types /\ s'.rep = <<>> /\ s'.kept = s.kept
          /\ s'.state = "IDLE"
      BY <1>0, <1>1, <3>1 DEF ds1307_Types
    <3>3. ds1307_OK'
      BY <2>1, <2>2, <2>3, <3>2 DEF ds1307_OK
    <3>4. QED
      BY <2>1, <2>2, <3>2, <3>3, ds1307_Receives, SilentRespects DEF Registered
  <2>w. CASE a # 104 /\ (s.state = "GET_SLAVE_ADDR" \/ w # 1) /\ a # 127
    <3>w. /\ Warn(t, a) = [t EXCEPT !.rep = <<Complaint(a)>>]
          /\ <<Complaint(a)>> \in Seq(Reports)
          /\ Complaint(a).reg = Warning /\ Complaint(a).bytes = <<a>>
      <4>1. a \in Int
        BY <1>1, <2>2 DEF ds1307_Types
      <4>2. QED
        BY <1>b, <4>1
    <3>0. t.state = "GET_SLAVE_ADDR" \/ (t.state = "READ_RTC_REGS" /\ w # 1)
      BY <1>1, <2>1, <2>w DEF ds1307_OK
    <3>f. ds1307_recv(t, p) = ds1307_foreign(t, a)
      BY <2>1, <2>w, <3>0 DEF ds1307_recv
    <3>1. s' = [t EXCEPT !.rep = <<Complaint(a)>>, !.state = "IDLE"]
      BY <3>w, <1>1, <2>1, <2>w, <3>f DEF ds1307_foreign
    <3>2. /\ s' \in ds1307_Types /\ s'.rep = <<Complaint(a)>> /\ s'.kept = s.kept
          /\ s'.state = "IDLE"
      BY <3>w, <1>0, <1>1, <2>1, <2>2, <2>w, <3>1, ByteIsNat DEF ds1307_Types
    <3>3. ds1307_OK'
      BY <2>1, <2>2, <2>w, <3>2 DEF ds1307_OK
    <3>x. Registered
      <4>1. Last(<<Complaint(a)>>) = Complaint(a)
        BY Remarks DEF Last
      <4>2. QED
        BY <3>2, <3>w, <4>1 DEF Registered
    <3>4. QED
      BY <2>1, <2>2, <3>2, <3>3, <2>w, <3>w, ds1307_Receives, WarnRespects, <3>x DEF Choosy, Forgetful
  <2>4. CASE a = 104 /\ s.state = "GET_SLAVE_ADDR" /\ w = 1
    <3>1. s' = To(t, "GET_REG_ADDR")
      BY <1>1, <2>1, <2>2, <2>4 DEF ds1307_recv
    <3>2. /\ s' \in ds1307_Types /\ s'.rep = <<>> /\ s'.kept = s.kept
          /\ s'.state = "GET_REG_ADDR"
      BY <1>0, <1>1, <2>1, <2>2, <2>4, <3>1, ByteIsNat DEF ds1307_Types
    <3>3. ds1307_OK'
      BY <2>1, <2>2, <2>4, <3>2 DEF ds1307_OK
    <3>4. QED
      BY <2>1, <2>2, <3>2, <3>3, ds1307_Receives, SilentRespects DEF Registered
  <2>5. CASE a = 104 /\ s.state = "GET_SLAVE_ADDR" /\ w # 1
    <3>1. s' = To(t, "READ_RTC_REGS")
      BY <1>1, <2>1, <2>2, <2>5 DEF ds1307_recv
    <3>2. /\ s' \in ds1307_Types /\ s'.rep = <<>> /\ s'.kept = s.kept
          /\ s'.state = "READ_RTC_REGS"
      BY <1>0, <1>1, <2>1, <2>2, <2>5, <3>1, ByteIsNat DEF ds1307_Types
    <3>3. ds1307_OK'
      BY <2>1, <2>2, <2>5, <3>2 DEF ds1307_OK
    <3>4. QED
      BY <2>1, <2>2, <3>2, <3>3, ds1307_Receives, SilentRespects DEF Registered
  <2>6. CASE s.state = "READ_RTC_REGS" /\ w = 1
    <3>1. s' = t
      BY <1>1, <2>1, <2>2, <2>6 DEF ds1307_recv
    <3>2. /\ s' \in ds1307_Types /\ s'.rep = <<>> /\ s'.kept = s.kept
          /\ s'.state = "READ_RTC_REGS"
      BY <1>0, <1>1, <2>1, <2>2, <2>6, <3>1, ByteIsNat DEF ds1307_Types
    <3>3. ds1307_OK'
      BY <2>1, <2>2, <2>6, <3>2 DEF ds1307_OK
    <3>4. QED
      BY <2>1, <2>2, <3>2, <3>3, ds1307_Receives, SilentRespects DEF Registered
  <2>7. CASE a = 104 /\ s.state = "READ_RTC_REGS" /\ w # 1
    <3>1. s' = To(t, "READ_RTC_REGS2")
      BY <1>1, <2>1, <2>2, <2>7 DEF ds1307_recv
    <3>2. /\ s' \in ds1307_Types /\ s'.rep = <<>> /\ s'.kept = s.kept
          /\ s'.state = "READ_RTC_REGS2" /\ s'.reg = s.reg
      BY <1>0, <1>1, <2>1, <2>2, <2>7, <3>1, ByteIsNat DEF ds1307_Types
    <3>3. ds1307_OK'
      BY <2>1, <2>2, <2>7, <3>2, <1>5 DEF ds1307_OK, Addresses
    <3>4. QED
      BY <2>1, <2>2, <3>2, <3>3, ds1307_Receives, SilentRespects DEF Registered
  <2>8. QED
    BY <2>w, <2>1, <2>2, <2>3, <2>4, <2>5, <2>6, <2>7 DEF ds1307_OK, ds1307_Types
<1>6. ASSUME NEW d \in Byte, NEW q, NEW p, Transfers(d, q, p)
      PROVE  ds1307_OK' /\ Respects' /\ Registered
  <2>0. ds1307_recv(t, q) = t
    BY <1>6 DEF ds1307_recv, Transfers
  <2>1. /\ s' = ds1307_recv(t, p) /\ p.val = d
        /\ p.cmd = (IF wr = 1 THEN "DATA WRITE" ELSE "DATA READ")
        /\ phase = "data" /\ phase' = "data_ack"
    <3>1. /\ s' = Recv(upper, Recv(upper, Hushed, q), p)
          /\ p.val = d
          /\ p.cmd = (IF wr = 1 THEN "DATA WRITE" ELSE "DATA READ")
          /\ phase = "data" /\ phase' = "data_ack"
      BY <1>6 DEF Transfers
    <3>2. Recv(upper, Recv(upper, Hushed, q), p) = ds1307_recv(t, p)
      BY <1>2, <2>0, ds1307_Receives
    <3>3. QED
      BY <3>1, <3>2
  <2>2. /\ Here'.w = Here.w /\ Here'.a = Here.a /\ Here'.bytes = Append(Here.bytes, d)
        /\ xfer' # <<>> /\ xfer' \in Seq(PartTypes) /\ Here.bytes \in Seq(Byte) /\ Here.w = wr
    BY <1>6, <2>1, TransfersPart, HereTyped DEF PartTypes
  <2>c. /\ carried' = carried \cup Carries(Here, d)
        /\ \A f : Held(f, carried) => Held(f, carried')
    <3>1. carried' = carried \cup Carries(Here, d)
      BY <1>6 DEF Transfers
    <3>2. QED
      BY <3>1 DEF Held
  <2>3. CASE s.state \in {"IDLE", "READ_RTC_REGS"}
    <3>1. s' = t
      BY <1>1, <2>1, <2>2, <2>3 DEF ds1307_recv
    <3>2. /\ s' \in ds1307_Types /\ s'.rep = <<>> /\ s'.kept = s.kept
          /\ s'.state = s.state
      BY <1>0, <1>1, <2>1, <2>2, <2>3, <3>1, ByteIsNat DEF ds1307_Types
    <3>3. ds1307_OK'
      BY <2>c, <2>1, <2>2, <2>3, <3>2 DEF ds1307_OK
    <3>4. QED
      BY <2>1, <2>2, <3>2, <3>3, ds1307_Receives, SilentRespects DEF Registered
  <2>4. CASE s.state = "GET_REG_ADDR"
    <3>0. Here.bytes = <<>> /\ wr = 1 /\ Here.a = 104
      BY <2>2, <2>4 DEF ds1307_OK
    <3>1. s' = [t EXCEPT !.reg = d, !.state = "WRITE_RTC_REGS"]
      BY <1>1, <2>1, <2>2, <2>4, <3>0 DEF ds1307_recv
    <3>2. /\ s' \in ds1307_Types /\ s'.rep = <<>> /\ s'.kept = s.kept
          /\ s'.state = "WRITE_RTC_REGS" /\ s'.reg = d
      BY <1>0, <1>1, <2>1, <2>2, <2>4, <3>1, ByteIsNat DEF ds1307_Types
    <3>5. ptr' = d
      BY <1>6, <3>0, <2>2, ds1307_Receives DEF Transfers, Pointed
    <3>6. Here'.bytes # <<>>
      BY <2>2
    <3>3. ds1307_OK'
      BY <2>c, <2>1, <2>2, <2>4, <3>2, <3>0, <3>5, <3>6 DEF ds1307_OK
    <3>4. QED
      BY <2>1, <2>2, <3>2, <3>3, ds1307_Receives, SilentRespects DEF Registered
  <2>5. CASE s.state \in {"WRITE_RTC_REGS", "READ_RTC_REGS2"}
    <3>0. /\ s.state = "WRITE_RTC_REGS" <=> wr = 1
          /\ Here.a = 104 /\ s.reg = ptr /\ (Here.bytes = <<>> => wr # 1)
      BY <2>2, <2>5 DEF ds1307_OK
    <3>1. s' = ds1307_handle_reg(t, d)
      BY <1>1, <2>1, <2>2, <2>5, <3>0 DEF ds1307_recv
    <3>2. s.reg \in Subjects /\ s.reg \in Nat /\ <<d>> \in Seq(Byte)
      <4>1. s.reg \in Nat /\ <<d>> \in Seq(Byte)
        BY <1>0, <1>1, <2>5, ByteIsNat DEF ds1307_Types
      <4>2. QED
        BY <4>1, SubjectOf
    <3> DEFINE v == ds1307_keep(t, d)
    <3>v. /\ v \in ds1307_Types /\ v.rep = <<>> /\ v.state = s.state /\ v.reg = s.reg
          /\ Held(v.kept, carried')
      <4>1. CASE s.reg <= 6
        <5> DEFINE f == [s.kept EXCEPT ![s.reg] = d]
        <5>0. v = [t EXCEPT !.kept = f]
          BY <1>1, <4>1 DEF ds1307_keep
        <5>1. s.kept \in [0 .. 6 -> Int] /\ s.reg \in 0 .. 6 /\ d \in Int
          BY <1>1, <3>2, <4>1, ByteIsNat DEF ds1307_Types
        <5>2. f \in [0 .. 6 -> Int] /\ f[s.reg] = d /\ \A k \in 0 .. 6 : k # s.reg => f[k] = s.kept[k]
          BY <5>1
        <5>3. Carries(Here, d) = {<<s.reg, d>>}
          <6>1. ~(ptr > 6) /\ ptr = s.reg
            BY <3>0, <3>2, <4>1
          <6>2. QED
            BY <6>1, <3>0, <2>2, ds1307_Receives DEF Carries
        <5> HIDE DEF f
        <5>4. Held(f, carried')
          <6>1. Held(s.kept, carried)
            BY DEF ds1307_OK
          <6>2. <<s.reg, d>> \in carried' /\ \A x \in carried : x \in carried'
            BY <2>c, <5>3
          <6>3. QED
            BY <5>2, <6>1, <6>2 DEF Held
        <5>5. QED
          BY <1>1, <5>0, <5>2, <5>4 DEF ds1307_Types
      <4>2. CASE ~(s.reg <= 6)
        <5>1. v = t
          BY <1>1, <4>2 DEF ds1307_keep
        <5>2. QED
          BY <1>1, <2>c, <5>1 DEF ds1307_OK
      <4>3. QED
        BY <4>1, <4>2
    <3> HIDE DEF v
    <3> DEFINE r == Report(s.reg, <<d>>)
               u == Say(v, s.reg, <<d>>)
    <3>3. /\ r.reg = s.reg /\ r.bytes = <<d>> /\ <<r>> \in Seq(Reports)
          /\ Append(<<>>, r) = <<r>> /\ Last(<<r>>) = r
      BY <3>2, OneReport
    <3>a. u = [v EXCEPT !.rep = <<r>>]
      BY <3>v, <3>3 DEF Say
    <3>b. s' = [u EXCEPT !.reg = IF u.reg + 1 > 63 THEN 0 ELSE u.reg + 1]
      BY <1>1, <2>5, <3>1 DEF v, Say, ds1307_handle_reg
    <3> HIDE DEF r, u
    <3>4. /\ u \in ds1307_Types /\ u.rep = <<r>>
          /\ u.state = s.state /\ u.reg = s.reg /\ Held(u.kept, carried')
      BY <3>v, <3>3, <3>a DEF ds1307_Types
    <3> DEFINE g == IF u.reg + 1 > 63 THEN 0 ELSE u.reg + 1
    <3>c. u.reg \in Nat
      BY <3>4 DEF ds1307_Types
    <3>d. g \in Nat /\ s' = [u EXCEPT !.reg = g]
      BY <3>b, <3>c
    <3>e. ptr' = g
      <4>1. ptr' = IF ptr >= 63 THEN 0 ELSE ptr + 1
        BY <1>6, <3>0, <2>2, ds1307_Receives DEF Transfers, Pointed
      <4>2. QED
        BY <3>0, <3>4, <3>c, <4>1
    <3>f. Here'.bytes # <<>>
      BY <2>2
    <3> HIDE DEF g
    <3>5. /\ s' \in ds1307_Types /\ s'.rep = <<r>>
          /\ s'.state = s.state /\ s'.reg = g /\ Held(s'.kept, carried')
      BY <3>4, <3>d DEF ds1307_Types
    <3>6. ds1307_OK'
      BY <2>1, <2>2, <2>5, <3>5, <3>0, <3>e, <3>f DEF ds1307_OK
    <3>7. Piece(r.bytes, Here'.bytes)
      BY <2>2, <3>3, LastPiece
    <3>8. Registered
      BY <3>3, <3>5, <3>0, <3>e DEF Registered
    <3>9. QED
      BY <2>1, <2>2, <2>5, <3>2, <3>3, <3>5, <3>6, <3>7, <3>8, ds1307_Receives, ReportRespects DEF ds1307_OK, Choosy
  <2>6. QED
    BY <2>1, <2>2, <2>3, <2>4, <2>5 DEF ds1307_OK, ds1307_Types
<1>7. ASSUME NEW p, Acknowledges(p)
      PROVE  ds1307_OK' /\ Respects' /\ Registered
  <2>1. /\ s' = ds1307_recv(t, p) /\ p.cmd \in {"ACK", "NACK"}
        /\ phase \in {"address_ack", "data_ack"} /\ phase' = "data" /\ xfer' = xfer /\ carried' = carried
    BY <1>2, <1>7, ds1307_Receives DEF Acknowledges
  <2>2. /\ Here' = Here /\ Here.bytes \in Seq(Byte)
        /\ xfer' # <<>> /\ xfer' \in Seq(PartTypes)
    BY <2>1, HereTyped
  <2>3. s' = t
    BY <1>1, <2>1, <2>2 DEF ds1307_recv
  <2>4. /\ s' \in ds1307_Types /\ s'.rep = <<>> /\ s'.kept = s.kept
        /\ s'.state = s.state /\ s'.reg = s.reg
    BY <1>0, <1>1, <2>1, <2>2, <2>3, ByteIsNat DEF ds1307_Types
  <2>5. ds1307_OK'
    BY <2>1, <2>2, <2>4, <1>7 DEF ds1307_OK, Acknowledges
  <2>6. QED
    BY <2>1, <2>2, <2>4, <2>5, ds1307_Receives, SilentRespects DEF Registered
<1>8. ASSUME NEW p, Stops(p)
      PROVE  ds1307_OK' /\ Respects' /\ Registered
  <2>1. /\ s' = ds1307_recv(t, p) /\ p.cmd = "STOP"
        /\ phase = "data" /\ phase' = "stopped" /\ xfer' = xfer /\ carried' = carried
    BY <1>2, <1>8, ds1307_Receives DEF Stops
  <2>2. /\ Here' = Here /\ Here.bytes \in Seq(Byte)
        /\ xfer' # <<>> /\ xfer' \in Seq(PartTypes)
    BY <2>1, HereTyped
  <2> DEFINE shows == (\A k \in 0 .. 6 : t.kept[k] # Unseen) /\ t.kept[3] % 8 # 0
             all == [k \in 1 .. 7 |-> t.kept[k - 1]]
             r == Report(Summary, all)
  <2>3. CASE s.state \in {"WRITE_RTC_REGS", "READ_RTC_REGS2"} /\ shows
    <3>1. Here.a = 104 /\ Held(t.kept, carried')
      BY <1>1, <2>1, <2>3 DEF ds1307_OK
    <3>2. /\ t.kept \in [0 .. 6 -> Int]
          /\ \A k \in 0 .. 6 : t.kept[k] # Unseen
      BY <1>1, <2>3 DEF ds1307_Types
    <3>3. all \in Seq(Int) /\ \A k \in 0 .. 6 : all[k + 1] = t.kept[k]
      BY <3>2
    <3>4. s' = To(Say(t, Summary, all), "IDLE")
      BY <1>1, <2>1, <2>3 DEF ds1307_recv, ds1307_output_datetime
    <3> HIDE DEF all
    <3>5. /\ r.reg = Summary /\ r.bytes = all /\ <<r>> \in Seq(Reports)
          /\ Append(<<>>, r) = <<r>> /\ Last(<<r>>) = r
      <4>1. Summary \in Int
        BY DEF Summary
      <4>2. QED
        BY <3>3, <4>1, OneReportAny
    <3>6. s' = [t EXCEPT !.rep = <<r>>, !.state = "IDLE"]
      BY <1>1, <3>4, <3>5 DEF Say
    <3> HIDE DEF r
    <3>7. s' \in ds1307_Types /\ s'.rep = <<r>> /\ s'.kept = s.kept /\ s'.state = "IDLE"
      BY <1>1, <3>5, <3>6 DEF ds1307_Types
    <3>8. ds1307_OK'
      BY <2>1, <2>2, <3>7 DEF ds1307_OK
    <3>9. \A k \in 0 .. 6 : <<k, r.bytes[k + 1]>> \in carried'
      BY <3>1, <3>2, <3>3, <3>5 DEF Held
    <3>10. Registered
      BY <3>5, <3>7 DEF Registered
    <3>11. QED
      BY <2>1, <2>2, <3>1, <3>5, <3>7, <3>8, <3>9, <3>10, ds1307_Receives, SummaryRespects
  <2>4. CASE ~(s.state \in {"WRITE_RTC_REGS", "READ_RTC_REGS2"} /\ shows)
    <3>1. s' = To(t, "IDLE")
      BY <1>1, <2>1, <2>4 DEF ds1307_recv, ds1307_output_datetime
    <3>2. s' \in ds1307_Types /\ s'.rep = <<>> /\ s'.kept = s.kept /\ s'.state = "IDLE"
      BY <1>0, <1>1, <3>1 DEF ds1307_Types
    <3>3. ds1307_OK'
      BY <2>1, <2>2, <3>2 DEF ds1307_OK
    <3>4. QED
      BY <2>1, <2>2, <3>2, <3>3, ds1307_Receives, SilentRespects DEF Registered
  <2>5. QED
    BY <2>3, <2>4
<1>9. CASE Resets
  <2>1. s' = ds1307_reset /\ phase' = "stopped"
    BY <1>9, ds1307_Receives DEF Resets
  <2>2. s' \in ds1307_Types /\ s'.rep = <<>> /\ Held(s'.kept, carried') /\ s'.state = "IDLE"
    BY <1>0, <2>1 DEF ds1307_reset, ds1307_Types, Byte, Held, Unseen
  <2>3. ds1307_OK'
    BY <2>1, <2>2 DEF ds1307_OK
  <2>4. QED
    BY <2>1, <2>2, <2>3, ds1307_Receives, SilentRespects DEF Registered
<1>10. QED
  BY <1>3, <1>4, <1>5, <1>6, <1>7, <1>8, <1>9 DEF Steps

\* It begins there, and stays there while nothing happens.
LEMMA ds1307_Begin ==
  ASSUME upper = "ds1307", phase = "stopped", s = ResetOf(upper)
  PROVE  ds1307_OK /\ Respects
<1>1. s = ds1307_reset
  BY ds1307_Receives
<1>2. <<>> \in Seq(Reports) /\ <<>> \in Seq(Byte)
  BY RepTyped
<1>3. ds1307_reset \in ds1307_Types /\ ds1307_reset.rep = <<>> /\ ds1307_reset.state = "IDLE"
      /\ Held(ds1307_reset.kept, carried)
  BY ONLY <1>2 DEF ds1307_reset, ds1307_Types, Byte, Held, Unseen
<1>4. ds1307_OK
  BY <1>1, <1>3 DEF ds1307_OK, Within
<1>5. QED
  BY <1>1, <1>3, <1>4, SilentBegins

LEMMA ds1307_Idle ==
  ASSUME ds1307_OK, UNCHANGED vars
  PROVE  ds1307_OK'
BY DEF ds1307_OK, vars, Within, Here, Met

-----------------------------------------------------------------------------
(* ds3231                                                                    *)

ds3231_Types ==
    [state : {"IDLE", "GET_SLAVE_ADDR", "SET_REG_ADDR", "WRITE_RTC_REGS", "READ_RTC_REGS"},
     reg : Nat, block : BOOLEAN, kept : [0 .. 18 -> Int], rep : Seq(Reports)]

\* Registers are read and written only in a part for the chip.
ds3231_OK ==
    /\ s \in ds3231_Types
    /\ phase = "stopped" => s.state = "IDLE"
    /\ phase = "address" => s.state = "GET_SLAVE_ADDR"
    /\ Within => s.state # "GET_SLAVE_ADDR"
    /\ s.state \in {"SET_REG_ADDR", "WRITE_RTC_REGS", "READ_RTC_REGS"} => Here.a = 104

\* The decoder among the others.
LEMMA ds3231_Receives ==
  /\ \A st, p : Recv("ds3231", st, p) = ds3231_recv(st, p)
  /\ \A st : Silenced("ds3231", st) = [st EXCEPT !.rep = <<>>]
  /\ ResetOf("ds3231") = ds3231_reset
  /\ Own("ds3231") = {104}
  /\ ds3231_reset.state = "IDLE"
<1>1. /\ \A st, p : Recv("ds3231", st, p) = ds3231_recv(st, p)
      /\ ResetOf("ds3231") = ds3231_reset
  BY DEF Recv, ResetOf
<1>2. \A st : Silenced("ds3231", st) = [st EXCEPT !.rep = <<>>]
  BY DEF Silenced, Relays, Forwarders
<1>3. Own("ds3231") = {104}
  BY DEF Own
<1>4. ds3231_reset.state = "IDLE"
  BY DEF ds3231_reset
<1>5. QED
  BY <1>1, <1>2, <1>3, <1>4

\* Every event of the bus keeps its invariant and is reported as it should be.
LEMMA ds3231_Step ==
  ASSUME upper = "ds3231", upper' = upper, BusOK, BusOK', ds3231_OK, Steps
  PROVE  ds3231_OK' /\ Respects'
<1> DEFINE t == [s EXCEPT !.rep = <<>>]
<1>0. <<>> \in Seq(Reports) /\ <<>> \in Seq(Byte)
  BY RepTyped
<1>1. /\ t \in ds3231_Types /\ t.rep = <<>>
      /\ t.state = s.state /\ t.reg = s.reg /\ t.kept = s.kept /\ t.block = s.block
  BY <1>0 DEF ds3231_OK, ds3231_Types
<1>2. Hushed = t
  BY ds3231_Receives DEF Hushed
<1> HIDE DEF t
<1>t. t.reg \in Nat /\ t.kept \in [0 .. 18 -> Int] /\ t.block \in BOOLEAN
  BY <1>1 DEF ds3231_Types
<1> USE DEF To, IsAddress, IsData, Within
<1>3. ASSUME NEW p, Starts(p)
      PROVE  ds3231_OK' /\ Respects'
  <2>1. /\ s' = ds3231_recv(t, p) /\ p.cmd = "START"
        /\ phase = "stopped" /\ phase' = "address"
    BY <1>2, <1>3, ds3231_Receives DEF Starts
  <2>3. s' = To(t, "GET_SLAVE_ADDR")
    BY <1>1, <2>1 DEF ds3231_recv
  <2>4. /\ s' \in ds3231_Types /\ s'.rep = <<>>
        /\ s'.state = "GET_SLAVE_ADDR"
    BY <1>0, <1>1, <2>1, <2>3, ByteIsNat DEF ds3231_Types
  <2>5. ds3231_OK'
    BY <2>1, <2>4 DEF ds3231_OK
  <2>6. QED
    BY <2>1, <2>4, <2>5, ds3231_Receives, SilentRespects
<1>4. ASSUME NEW p, Repeats(p)
      PROVE  ds3231_OK' /\ Respects'
  <2>1. /\ s' = ds3231_recv(t, p) /\ p.cmd = "START REPEAT"
        /\ phase = "data" /\ phase' = "address" /\ xfer' = xfer
    BY <1>2, <1>4, ds3231_Receives DEF Repeats
  <2>2. /\ Here' = Here /\ Here.bytes \in Seq(Byte)
        /\ xfer' # <<>> /\ xfer' \in Seq(PartTypes)
    BY <2>1, HereTyped
  <2>3. s' = To(t, "GET_SLAVE_ADDR")
    BY <1>1, <2>1, <2>2 DEF ds3231_recv
  <2>4. /\ s' \in ds3231_Types /\ s'.rep = <<>>
        /\ s'.state = "GET_SLAVE_ADDR"
    BY <1>0, <1>1, <2>1, <2>2, <2>3, ByteIsNat DEF ds3231_Types
  <2>5. ds3231_OK'
    BY <2>1, <2>2, <2>4 DEF ds3231_OK
  <2>6. QED
    BY <2>1, <2>2, <2>4, <2>5, ds3231_Receives, SilentRespects
<1>5. ASSUME NEW w \in {0, 1}, NEW a \in 0 .. 127, NEW q, NEW p, Addresses(w, a, q, p)
      PROVE  ds3231_OK' /\ Respects'
  <2>0. ds3231_recv(t, q) \in {t, To(t, "IDLE")}
    BY <1>1, <1>5 DEF ds3231_recv, ds3231_OK, Addresses
  <2>1. /\ s' = ds3231_recv(ds3231_recv(t, q), p) /\ p.val = a
        /\ p.cmd = (IF w = 1 THEN "ADDRESS WRITE" ELSE "ADDRESS READ")
        /\ phase = "address" /\ phase' = "address_ack"
    <3>1. /\ s' = Recv(upper, Recv(upper, Hushed, q), p)
          /\ p.val = a
          /\ p.cmd = (IF w = 1 THEN "ADDRESS WRITE" ELSE "ADDRESS READ")
          /\ phase = "address" /\ phase' = "address_ack"
      BY <1>5 DEF Addresses
    <3>2. Recv(upper, Recv(upper, Hushed, q), p) = ds3231_recv(ds3231_recv(t, q), p)
      BY <1>2, <2>0, ds3231_Receives
    <3>3. QED
      BY <3>1, <3>2
  <2>2. /\ Here'.w = w /\ Here'.a = a /\ Here'.bytes = <<>>
        /\ xfer' # <<>> /\ xfer' \in Seq(PartTypes) /\ a \in Nat
    BY <1>5, AddressesPart
  <2>3. s' \in {To(t, "IDLE"), To(t, "SET_REG_ADDR"), To(t, "READ_RTC_REGS")}
        /\ (s' # To(t, "IDLE") => a = 104)
    <3>1. CASE ds3231_recv(t, q) = To(t, "IDLE")
      <4> DEFINE v == To(t, "IDLE")
      <4>1. v.state = "IDLE"
        BY <1>1 DEF ds3231_Types
      <4> HIDE DEF v
      <4>2. s' = ds3231_recv(v, p)
        BY <2>1, <3>1 DEF v
      <4>3. ds3231_recv(v, p) = v
        BY <2>1, <4>1 DEF ds3231_recv
      <4>4. QED
        BY <4>2, <4>3 DEF v
    <3>2. CASE ds3231_recv(t, q) = t
      <4>1. t.state = "GET_SLAVE_ADDR" /\ s' = ds3231_recv(t, p)
        BY <1>1, <2>1, <3>2 DEF ds3231_OK
      <4>2. CASE a # 104
        BY <2>1, <4>1, <4>2 DEF ds3231_recv
      <4>3. CASE a = 104 /\ w = 1
        BY <2>1, <4>1, <4>3 DEF ds3231_recv
      <4>4. CASE a = 104 /\ w # 1
        BY <2>1, <4>1, <4>4 DEF ds3231_recv
      <4>5. QED
        BY <4>2, <4>3, <4>4
    <3>3. QED
      BY <2>0, <3>1, <3>2
  <2>4. /\ s' \in ds3231_Types /\ s'.rep = <<>>
        /\ s'.state \in {"IDLE", "SET_REG_ADDR", "READ_RTC_REGS"} /\ (s'.state # "IDLE" => a = 104)
    BY <1>1, <2>3 DEF ds3231_Types
  <2>5. ds3231_OK'
    BY <2>1, <2>2, <2>4 DEF ds3231_OK
  <2>6. QED
    BY <2>1, <2>2, <2>4, <2>5, ds3231_Receives, SilentRespects
<1>6. ASSUME NEW d \in Byte, NEW q, NEW p, Transfers(d, q, p)
      PROVE  ds3231_OK' /\ Respects'
  <2>0. ds3231_recv(t, q) = t
    BY <1>1, <1>6 DEF ds3231_recv, ds3231_OK, Transfers
  <2>1. /\ s' = ds3231_recv(t, p) /\ p.val = d
        /\ p.cmd = (IF wr = 1 THEN "DATA WRITE" ELSE "DATA READ")
        /\ phase = "data" /\ phase' = "data_ack"
    <3>1. /\ s' = Recv(upper, Recv(upper, Hushed, q), p)
          /\ p.val = d
          /\ p.cmd = (IF wr = 1 THEN "DATA WRITE" ELSE "DATA READ")
          /\ phase = "data" /\ phase' = "data_ack"
      BY <1>6 DEF Transfers
    <3>2. Recv(upper, Recv(upper, Hushed, q), p) = ds3231_recv(t, p)
      BY <1>2, <2>0, ds3231_Receives
    <3>3. QED
      BY <3>1, <3>2
  <2>2. /\ Here'.w = Here.w /\ Here'.a = Here.a /\ Here'.bytes = Append(Here.bytes, d)
        /\ xfer' # <<>> /\ xfer' \in Seq(PartTypes) /\ Here.bytes \in Seq(Byte) /\ Here.w = wr
    BY <1>6, <2>1, TransfersPart, HereTyped DEF PartTypes
  <2>3. CASE s.state = "IDLE" \/ (s.state \in {"SET_REG_ADDR", "WRITE_RTC_REGS"} /\ wr # 1)
         \/ (s.state = "READ_RTC_REGS" /\ wr = 1)
    <3>1. s' = t
      BY <1>1, <2>1, <2>2, <2>3 DEF ds3231_recv
    <3>2. /\ s' \in ds3231_Types /\ s'.rep = <<>>
          /\ s'.state = s.state
      BY <1>0, <1>1, <2>1, <2>2, <2>3, <3>1, ByteIsNat DEF ds3231_Types
    <3>3. ds3231_OK'
      BY <2>1, <2>2, <2>3, <3>2 DEF ds3231_OK
    <3>4. QED
      BY <2>1, <2>2, <3>2, <3>3, ds3231_Receives, SilentRespects
  <2>4. CASE s.state = "SET_REG_ADDR" /\ wr = 1
    <3> DEFINE r == Report(-1, <<d>>)
    <3>1. -1 \in Subjects /\ <<d>> \in Seq(Byte)
      BY SubjectOf
    <3>2. /\ r.reg = -1 /\ r.bytes = <<d>> /\ <<r>> \in Seq(Reports)
          /\ Append(<<>>, r) = <<r>>
      BY <3>1, OneReport
    <3>3. s' = [Say(t, -1, <<d>>) EXCEPT !.reg = d, !.state = "WRITE_RTC_REGS"]
      BY <1>1, <2>1, <2>4 DEF ds3231_recv
    <3>4. s' = [t EXCEPT !.rep = <<r>>, !.reg = d, !.state = "WRITE_RTC_REGS"]
      BY <1>1, <3>2, <3>3 DEF Say
    <3> HIDE DEF r
    <3>5. s' \in ds3231_Types /\ s'.rep = <<r>> /\ s'.state = "WRITE_RTC_REGS"
      BY <1>1, <3>2, <3>4, ByteIsNat DEF ds3231_Types
    <3>6. ds3231_OK'
      BY <2>1, <2>2, <2>4, <3>5 DEF ds3231_OK
    <3>7. Piece(r.bytes, Here'.bytes)
      BY <2>2, <3>2, LastPiece
    <3>8. r.reg \in Subjects
      BY <3>1, <3>2
    <3>9. QED
      BY <2>1, <2>2, <2>4, <3>8, <3>5, <3>6, <3>7, ds3231_Receives, ReportRespects DEF ds3231_OK, Choosy
  <2>5. CASE ((s.state = "WRITE_RTC_REGS" /\ wr = 1) \/ (s.state = "READ_RTC_REGS" /\ wr # 1)) /\ ~(s.reg < 19)
    <3>h. \E begins : s' = ds3231_handle_reg(t, d, begins)
      BY <1>1, <2>1, <2>2, <2>5 DEF ds3231_recv
    <3>i. PICK begins : s' = ds3231_handle_reg(t, d, begins)
      BY <3>h
    <3> DEFINE k == t.block \/ t.reg \in begins
    <3>k. k \in BOOLEAN
      BY <1>1 DEF ds3231_Types
    <3> DEFINE g == IF t.reg + 1 > 18 THEN 0 ELSE t.reg + 1
    <3>0. g \in Nat /\ ~(t.reg < 19)
      BY <1>1, <1>t, <2>5
    <3>1. s' = [t EXCEPT !.block = k, !.reg = g]
      BY <1>1, <3>i, <3>0 DEF ds3231_handle_reg, ds3231_keep
    <3> HIDE DEF g, k
    <3>2. /\ s' \in ds3231_Types /\ s'.rep = <<>>
          /\ s'.state = s.state
      BY <1>0, <1>1, <2>1, <2>2, <2>5, <3>1, ByteIsNat, <3>0, <3>k DEF ds3231_Types
    <3>3. ds3231_OK'
      BY <2>1, <2>2, <2>5, <3>2 DEF ds3231_OK
    <3>4. QED
      BY <2>1, <2>2, <3>2, <3>3, ds3231_Receives, SilentRespects
  <2>6. CASE ((s.state = "WRITE_RTC_REGS" /\ wr = 1) \/ (s.state = "READ_RTC_REGS" /\ wr # 1)) /\ s.reg < 19
    <3>h. \E begins : s' = ds3231_handle_reg(t, d, begins)
      BY <1>1, <2>1, <2>2, <2>6 DEF ds3231_recv
    <3>i. PICK begins : s' = ds3231_handle_reg(t, d, begins)
      BY <3>h
    <3> DEFINE k == t.block \/ t.reg \in begins
    <3>k. k \in BOOLEAN
      BY <1>1 DEF ds3231_Types
    <3>2. s.reg \in Subjects /\ s.reg \in Nat /\ <<d>> \in Seq(Byte)
      <4>1. s.reg \in Nat /\ <<d>> \in Seq(Byte)
        BY <1>1, <1>t
      <4>2. QED
        BY <4>1, SubjectOf
    <3> DEFINE f == [t.kept EXCEPT ![t.reg] = d]
               v == [t EXCEPT !.kept = f]
    <3>v. v \in ds3231_Types /\ v.rep = <<>> /\ v.state = s.state /\ v.reg = s.reg
      <4>2. f \in [0 .. 18 -> Int]
        <5>2. d \in Int
          BY ByteIsNat
        <5>3. QED
          BY <1>t, <5>2
      <4> HIDE DEF f
      <4>3. QED
        BY <1>1, <4>2 DEF ds3231_Types
    <3> DEFINE r == Report(s.reg, <<d>>)
               u == Say(v, s.reg, <<d>>)
    <3>3. /\ r.reg = s.reg /\ r.bytes = <<d>> /\ <<r>> \in Seq(Reports)
          /\ Append(<<>>, r) = <<r>> /\ Last(<<r>>) = r
      BY <3>2, OneReport
    <3>b. s' = [u EXCEPT !.block = k, !.reg = IF u.reg + 1 > 18 THEN 0 ELSE u.reg + 1]
      BY <1>1, <2>6, <3>i DEF Say, ds3231_handle_reg, ds3231_keep
    <3> HIDE DEF v, f, k
    <3>a. u = [v EXCEPT !.rep = <<r>>]
      BY <3>v, <3>3 DEF Say
    <3> HIDE DEF r, u
    <3>4. /\ u \in ds3231_Types /\ u.rep = <<r>>
          /\ u.state = s.state /\ u.reg = s.reg
      BY <3>v, <3>3, <3>a DEF ds3231_Types
    <3> DEFINE g == IF u.reg + 1 > 18 THEN 0 ELSE u.reg + 1
    <3>c. u.reg \in Nat
      BY <3>4 DEF ds3231_Types
    <3>d. g \in Nat /\ s' = [u EXCEPT !.block = k, !.reg = g]
      BY <3>b, <3>c
    <3> HIDE DEF g
    <3>5. /\ s' \in ds3231_Types /\ s'.rep = <<r>>
          /\ s'.state = s.state
      BY <3>4, <3>d, <3>k DEF ds3231_Types
    <3>6. ds3231_OK'
      BY <2>1, <2>2, <2>6, <3>5 DEF ds3231_OK
    <3>7. Piece(r.bytes, Here'.bytes)
      BY <2>2, <3>3, LastPiece
    <3>9. QED
      BY <2>1, <2>2, <2>6, <3>2, <3>3, <3>5, <3>6, <3>7, ds3231_Receives, ReportRespects DEF ds3231_OK, Choosy
  <2>7. QED
    BY <2>1, <2>2, <2>3, <2>4, <2>5, <2>6 DEF ds3231_OK, ds3231_Types
<1>7. ASSUME NEW p, Acknowledges(p)
      PROVE  ds3231_OK' /\ Respects'
  <2>1. /\ s' = ds3231_recv(t, p) /\ p.cmd \in {"ACK", "NACK"}
        /\ phase \in {"address_ack", "data_ack"} /\ phase' = "data" /\ xfer' = xfer
    BY <1>2, <1>7, ds3231_Receives DEF Acknowledges
  <2>2. /\ Here' = Here /\ Here.bytes \in Seq(Byte)
        /\ xfer' # <<>> /\ xfer' \in Seq(PartTypes)
    BY <2>1, HereTyped
  <2>3. CASE s.state = "SET_REG_ADDR" /\ p.cmd = "NACK"
    <3>1. s' = To(t, "IDLE")
      BY <1>1, <2>1, <2>2, <2>3 DEF ds3231_recv
    <3>2. /\ s' \in ds3231_Types /\ s'.rep = <<>>
          /\ s'.state = "IDLE"
      BY <1>0, <1>1, <2>1, <2>2, <2>3, <3>1, ByteIsNat DEF ds3231_Types
    <3>3. ds3231_OK'
      BY <2>1, <2>2, <2>3, <3>2 DEF ds3231_OK
    <3>4. QED
      BY <2>1, <2>2, <3>2, <3>3, ds3231_Receives, SilentRespects
  <2>4. CASE s.state \in {"WRITE_RTC_REGS", "READ_RTC_REGS"}
    <3>1. Here.a = 104
      BY <2>4 DEF ds3231_OK
    <3>2. s' = t \/ \E reading \in BOOLEAN : s' = ds3231_output_group(t, reading)
      BY <1>1, <2>1, <2>4 DEF ds3231_recv
    <3>3. s' = t \/ \E first, last \in 0 .. 18 : first <= last /\ s' = ds3231_output(t, first, last)
      BY <3>2 DEF ds3231_output_group
    <3>4. CASE s' = t
      <4>1. ds3231_OK'
        BY <1>1, <2>1, <2>2, <3>4 DEF ds3231_OK
      <4>2. QED
        BY <1>1, <2>1, <3>4, <4>1, ds3231_Receives, SilentRespects
    <3>5. CASE \E first, last \in 0 .. 18 : first <= last /\ s' = ds3231_output(t, first, last)
      <4>1. PICK first, last \in 0 .. 18 : first <= last /\ s' = ds3231_output(t, first, last)
        BY <3>5
      <4> DEFINE all == [k \in 1 .. last - first + 1 |-> t.kept[first + k - 1]]
                 r == Report(Summary, all)
      <4>2. all \in Seq(Int)
        <5>1. t.kept \in [0 .. 18 -> Int]
          BY <1>1 DEF ds3231_Types
        <5>2. last - first + 1 \in Nat /\ \A k \in 1 .. last - first + 1 : first + k - 1 \in 0 .. 18
          BY <4>1
        <5>3. QED
          BY <5>1, <5>2
      <4>3. s' = Say(t, Summary, all)
        BY <4>1 DEF ds3231_output
      <4> HIDE DEF all
      <4>4. /\ r.reg = Summary /\ r.bytes = all /\ <<r>> \in Seq(Reports)
            /\ Append(<<>>, r) = <<r>>
        <5>1. Summary \in Int
          BY DEF Summary
        <5>2. QED
          BY <4>2, <5>1, OneReportAny
      <4>5. s' = [t EXCEPT !.rep = <<r>>]
        BY <1>1, <4>3, <4>4 DEF Say
      <4> HIDE DEF r
      <4>6. s' \in ds3231_Types /\ s'.rep = <<r>> /\ s'.state = s.state
        BY <1>1, <4>4, <4>5 DEF ds3231_Types
      <4>7. ds3231_OK'
        BY <2>1, <2>2, <2>4, <4>6 DEF ds3231_OK
      <4>8. QED
        BY <2>1, <2>2, <3>1, <4>4, <4>6, <4>7, ds3231_Receives, SummaryRespects
    <3>6. QED
      BY <3>3, <3>4, <3>5
  <2>5. CASE ~(s.state \in {"WRITE_RTC_REGS", "READ_RTC_REGS"}) /\ ~(s.state = "SET_REG_ADDR" /\ p.cmd = "NACK")
    <3>1. s' = t
      BY <1>1, <2>1, <2>5 DEF ds3231_recv, ds3231_OK
    <3>3. ds3231_OK'
      BY <1>1, <2>1, <2>2, <3>1 DEF ds3231_OK
    <3>4. QED
      BY <1>1, <2>1, <3>1, <3>3, ds3231_Receives, SilentRespects
  <2>6. QED
    BY <2>3, <2>4, <2>5
<1>8. ASSUME NEW p, Stops(p)
      PROVE  ds3231_OK' /\ Respects'
  <2>1. /\ s' = ds3231_recv(t, p) /\ p.cmd = "STOP"
        /\ phase = "data" /\ phase' = "stopped" /\ xfer' = xfer
    BY <1>2, <1>8, ds3231_Receives DEF Stops
  <2>2. /\ Here' = Here /\ Here.bytes \in Seq(Byte)
        /\ xfer' # <<>> /\ xfer' \in Seq(PartTypes)
    BY <2>1, HereTyped
  <2>3. s' = [t EXCEPT !.block = FALSE, !.state = "IDLE"]
    BY <1>1, <2>1, <2>2 DEF ds3231_recv
  <2>4. /\ s' \in ds3231_Types /\ s'.rep = <<>>
        /\ s'.state = "IDLE"
    BY <1>0, <1>1, <2>1, <2>2, <2>3, ByteIsNat DEF ds3231_Types
  <2>5. ds3231_OK'
    BY <2>1, <2>2, <2>4 DEF ds3231_OK
  <2>6. QED
    BY <2>1, <2>2, <2>4, <2>5, ds3231_Receives, SilentRespects
<1>9. CASE Resets
  <2>1. s' = ds3231_reset /\ phase' = "stopped"
    BY <1>9, ds3231_Receives DEF Resets
  <2>2. s' \in ds3231_Types /\ s'.rep = <<>> /\ s'.state = "IDLE"
    BY <1>0, <2>1 DEF ds3231_reset, ds3231_Types, Byte, Unseen
  <2>3. ds3231_OK'
    BY <2>1, <2>2 DEF ds3231_OK
  <2>4. QED
    BY <2>1, <2>2, <2>3, ds3231_Receives, SilentRespects
<1>10. QED
  BY <1>3, <1>4, <1>5, <1>6, <1>7, <1>8, <1>9 DEF Steps

\* It begins there, and stays there while nothing happens.
LEMMA ds3231_Begin ==
  ASSUME upper = "ds3231", phase = "stopped", s = ResetOf(upper)
  PROVE  ds3231_OK /\ Respects
<1>1. s = ds3231_reset
  BY ds3231_Receives
<1>2. <<>> \in Seq(Reports) /\ <<>> \in Seq(Byte)
  BY RepTyped
<1>3. ds3231_reset \in ds3231_Types /\ ds3231_reset.rep = <<>> /\ ds3231_reset.state = "IDLE"
  BY ONLY <1>2 DEF ds3231_reset, ds3231_Types, Byte, Unseen
<1>4. ds3231_OK
  BY <1>1, <1>3 DEF ds3231_OK, Within
<1>5. QED
  BY <1>1, <1>3, <1>4, SilentBegins

LEMMA ds3231_Idle ==
  ASSUME ds3231_OK, UNCHANGED vars
  PROVE  ds3231_OK'
BY DEF ds3231_OK, vars, Within, Here, Met

-----------------------------------------------------------------------------
(* rtc8564                                                                   *)

rtc8564_Types ==
    [state : {"IDLE", "GET_SLAVE_ADDR", "GET_REG_ADDR", "WRITE_RTC_REGS", "READ_RTC_REGS", "READ_RTC_REGS2"}, reg : Nat,
     kept : [2 .. 8 -> Int], rep : Seq(Reports)]

\* The register never falls below the first one.
rtc8564_OK ==
    /\ s \in rtc8564_Types

\* The decoder among the others.
LEMMA rtc8564_Receives ==
  /\ \A st, p : Recv("rtc8564", st, p) = rtc8564_recv(st, p)
  /\ \A st : Silenced("rtc8564", st) = [st EXCEPT !.rep = <<>>]
  /\ ResetOf("rtc8564") = rtc8564_reset
<1>1. /\ \A st, p : Recv("rtc8564", st, p) = rtc8564_recv(st, p)
      /\ ResetOf("rtc8564") = rtc8564_reset
  BY DEF Recv, ResetOf
<1>2. \A st : Silenced("rtc8564", st) = [st EXCEPT !.rep = <<>>]
  BY DEF Silenced, Relays, Forwarders
<1>3. QED
  BY <1>1, <1>2

\* Every event of the bus keeps its invariant and is reported as it should be.
LEMMA rtc8564_Step ==
  ASSUME upper = "rtc8564", upper' = upper, BusOK, BusOK', rtc8564_OK, Steps
  PROVE  rtc8564_OK' /\ Respects'
<1> DEFINE t == [s EXCEPT !.rep = <<>>]
<1>0. <<>> \in Seq(Reports) /\ <<>> \in Seq(Byte)
  BY RepTyped
<1>1. /\ t \in rtc8564_Types /\ t.rep = <<>>
      /\ t.state = s.state /\ t.reg = s.reg /\ t.kept = s.kept
  BY <1>0 DEF rtc8564_OK, rtc8564_Types
<1>2. Hushed = t
  BY rtc8564_Receives DEF Hushed
<1> HIDE DEF t
<1> USE DEF To, IsAddress, IsData, Within
<1>3. ASSUME NEW p, Starts(p)
      PROVE  rtc8564_OK' /\ Respects'
  <2>1. /\ s' = rtc8564_recv(t, p) /\ p.cmd = "START"
        /\ phase = "stopped" /\ phase' = "address"
    BY <1>2, <1>3, rtc8564_Receives DEF Starts
  <2>3. s' = rtc8564_recv(t, p)
    BY <1>1, <2>1 DEF rtc8564_recv
  <2>4. /\ s' \in rtc8564_Types /\ s'.rep = <<>>
    BY <1>0, <1>1, <2>1, <2>3, ByteIsNat DEF rtc8564_Types, rtc8564_recv
  <2>5. rtc8564_OK'
    BY <2>1, <2>4 DEF rtc8564_OK
  <2>6. QED
    BY <2>1, <2>4, <2>5, rtc8564_Receives, SilentRespects DEF Tidy
<1>4. ASSUME NEW p, Repeats(p)
      PROVE  rtc8564_OK' /\ Respects'
  <2>1. /\ s' = rtc8564_recv(t, p) /\ p.cmd = "START REPEAT"
        /\ phase = "data" /\ phase' = "address" /\ xfer' = xfer
    BY <1>2, <1>4, rtc8564_Receives DEF Repeats
  <2>2. /\ Here' = Here /\ Here.bytes \in Seq(Byte)
        /\ xfer' # <<>> /\ xfer' \in Seq(PartTypes)
    BY <2>1, HereTyped
  <2>3. s' = rtc8564_recv(t, p)
    BY <1>1, <2>1, <2>2 DEF rtc8564_recv
  <2>4. /\ s' \in rtc8564_Types /\ s'.rep = <<>>
    BY <1>0, <1>1, <2>1, <2>2, <2>3, ByteIsNat DEF rtc8564_Types, rtc8564_recv
  <2>5. rtc8564_OK'
    BY <2>1, <2>2, <2>4 DEF rtc8564_OK
  <2>6. QED
    BY <2>1, <2>2, <2>4, <2>5, rtc8564_Receives, SilentRespects DEF Tidy
<1>5. ASSUME NEW w \in {0, 1}, NEW a \in 0 .. 127, NEW q, NEW p, Addresses(w, a, q, p)
      PROVE  rtc8564_OK' /\ Respects'
  <2>0. rtc8564_recv(t, q) = t
    BY <1>5 DEF rtc8564_recv, Addresses
  <2>1. /\ s' = rtc8564_recv(t, p) /\ p.val = a
        /\ p.cmd = (IF w = 1 THEN "ADDRESS WRITE" ELSE "ADDRESS READ")
        /\ phase = "address" /\ phase' = "address_ack"
    <3>1. /\ s' = Recv(upper, Recv(upper, Hushed, q), p)
          /\ p.val = a
          /\ p.cmd = (IF w = 1 THEN "ADDRESS WRITE" ELSE "ADDRESS READ")
          /\ phase = "address" /\ phase' = "address_ack"
      BY <1>5 DEF Addresses
    <3>2. Recv(upper, Recv(upper, Hushed, q), p) = rtc8564_recv(t, p)
      BY <1>2, <2>0, rtc8564_Receives
    <3>3. QED
      BY <3>1, <3>2
  <2>2. /\ Here'.w = w /\ Here'.a = a /\ Here'.bytes = <<>>
        /\ xfer' # <<>> /\ xfer' \in Seq(PartTypes) /\ a \in Nat
    BY <1>5, AddressesPart
  <2>3. s' = rtc8564_recv(t, p)
    BY <1>1, <2>1, <2>2 DEF rtc8564_recv
  <2>4. /\ s' \in rtc8564_Types /\ s'.rep = <<>>
    BY <1>0, <1>1, <2>1, <2>2, <2>3, ByteIsNat DEF rtc8564_Types, rtc8564_recv
  <2>5. rtc8564_OK'
    BY <2>1, <2>2, <2>4 DEF rtc8564_OK
  <2>6. QED
    BY <2>1, <2>2, <2>4, <2>5, rtc8564_Receives, SilentRespects DEF Tidy
<1>6. ASSUME NEW d \in Byte, NEW q, NEW p, Transfers(d, q, p)
      PROVE  rtc8564_OK' /\ Respects'
  <2>0. rtc8564_recv(t, q) = t
    BY <1>6 DEF rtc8564_recv, Transfers
  <2>1. /\ s' = rtc8564_recv(t, p) /\ p.val = d
        /\ p.cmd = (IF wr = 1 THEN "DATA WRITE" ELSE "DATA READ")
        /\ phase = "data" /\ phase' = "data_ack"
    <3>1. /\ s' = Recv(upper, Recv(upper, Hushed, q), p)
          /\ p.val = d
          /\ p.cmd = (IF wr = 1 THEN "DATA WRITE" ELSE "DATA READ")
          /\ phase = "data" /\ phase' = "data_ack"
      BY <1>6 DEF Transfers
    <3>2. Recv(upper, Recv(upper, Hushed, q), p) = rtc8564_recv(t, p)
      BY <1>2, <2>0, rtc8564_Receives
    <3>3. QED
      BY <3>1, <3>2
  <2>2. /\ Here'.w = Here.w /\ Here'.a = Here.a /\ Here'.bytes = Append(Here.bytes, d)
        /\ xfer' # <<>> /\ xfer' \in Seq(PartTypes) /\ Here.bytes \in Seq(Byte) /\ Here.w = wr
    BY <1>6, <2>1, TransfersPart, HereTyped DEF PartTypes
  <2>3. CASE ~((s.state = "WRITE_RTC_REGS" /\ wr = 1) \/ (s.state = "READ_RTC_REGS2" /\ wr # 1))
    <3>1. s' = IF s.state = "GET_REG_ADDR" /\ wr = 1
               THEN [t EXCEPT !.reg = d, !.state = "WRITE_RTC_REGS"] ELSE t
      BY <1>1, <2>1, <2>2, <2>3 DEF rtc8564_recv
    <3>2. /\ s' \in rtc8564_Types /\ s'.rep = <<>>
      BY <1>0, <1>1, <2>1, <2>2, <2>3, <3>1, ByteIsNat DEF rtc8564_Types
    <3>3. rtc8564_OK'
      BY <2>1, <2>2, <2>3, <3>2 DEF rtc8564_OK
    <3>4. QED
      BY <2>1, <2>2, <3>2, <3>3, rtc8564_Receives, SilentRespects DEF Tidy
  <2>4. CASE (s.state = "WRITE_RTC_REGS" /\ wr = 1) \/ (s.state = "READ_RTC_REGS2" /\ wr # 1)
    <3>1. s' = rtc8564_handle_reg(t, d)
      BY <1>1, <2>1, <2>2, <2>4 DEF rtc8564_recv
    <3>2. s.reg \in Subjects /\ s.reg \in Nat /\ <<d>> \in Seq(Byte)
      <4>1. s.reg \in Nat /\ <<d>> \in Seq(Byte)
        BY <1>0, <1>1, ByteIsNat DEF rtc8564_Types
      <4>2. QED
        BY <4>1, SubjectOf
    <3> DEFINE v == rtc8564_keep(t, d)
               m == t.reg % 256
               f == [t.kept EXCEPT ![m] = d]
    <3>v. v \in rtc8564_Types /\ v.rep = <<>> /\ v.state = s.state /\ v.reg = s.reg
      <4>1. v = t \/ v = [t EXCEPT !.kept = f]
        BY DEF rtc8564_keep
      <4>2. f \in [2 .. 8 -> Int]
        <5>1. t.kept \in [2 .. 8 -> Int]
          BY <1>1 DEF rtc8564_Types
        <5>2. d \in Int
          BY ByteIsNat
        <5> HIDE DEF m
        <5>3. QED
          BY <5>1, <5>2
      <4> HIDE DEF f, v
      <4>3. QED
        BY <1>1, <4>1, <4>2 DEF rtc8564_Types
    <3> HIDE DEF v, f, m
    <3> DEFINE r == Report(s.reg, <<d>>)
               u == Say(v, s.reg, <<d>>)
    <3>3. /\ r.reg = s.reg /\ r.bytes = <<d>> /\ <<r>> \in Seq(Reports)
          /\ Append(<<>>, r) = <<r>> /\ Last(<<r>>) = r
      BY <3>2, OneReport
    <3>a. u = [v EXCEPT !.rep = <<r>>]
      BY <3>v, <3>3 DEF Say
    <3>b. s' = [u EXCEPT !.reg = u.reg + 1]
      BY <1>1, <2>4, <3>1 DEF v, Say, rtc8564_handle_reg
    <3> HIDE DEF r, u
    <3>4. /\ u \in rtc8564_Types /\ u.rep = <<r>>
          /\ u.state = s.state /\ u.reg = s.reg
      BY <3>v, <3>3, <3>a DEF rtc8564_Types
    <3> DEFINE g == u.reg + 1
    <3>c. u.reg \in Nat
      BY <3>4 DEF rtc8564_Types
    <3>d. g \in Nat /\ s' = [u EXCEPT !.reg = g]
      BY <3>b, <3>c
    <3> HIDE DEF g
    <3>5. /\ s' \in rtc8564_Types /\ s'.rep = <<r>>
      BY <3>4, <3>d DEF rtc8564_Types
    <3>6. rtc8564_OK'
      BY <2>1, <2>2, <2>4, <3>5 DEF rtc8564_OK
    <3>7. Piece(r.bytes, Here'.bytes)
      BY <2>2, <3>3, LastPiece
    <3>9. QED
      BY <2>1, <2>2, <2>4, <3>2, <3>3, <3>5, <3>6, <3>7, rtc8564_Receives, ReportRespects DEF rtc8564_OK, Choosy, Tidy
  <2>5. QED
    BY <2>1, <2>2, <2>3, <2>4 DEF rtc8564_OK, rtc8564_Types
<1>7. ASSUME NEW p, Acknowledges(p)
      PROVE  rtc8564_OK' /\ Respects'
  <2>1. /\ s' = rtc8564_recv(t, p) /\ p.cmd \in {"ACK", "NACK"}
        /\ phase \in {"address_ack", "data_ack"} /\ phase' = "data" /\ xfer' = xfer
    BY <1>2, <1>7, rtc8564_Receives DEF Acknowledges
  <2>2. /\ Here' = Here /\ Here.bytes \in Seq(Byte)
        /\ xfer' # <<>> /\ xfer' \in Seq(PartTypes)
    BY <2>1, HereTyped
  <2>3. s' = rtc8564_recv(t, p)
    BY <1>1, <2>1, <2>2 DEF rtc8564_recv
  <2>4. /\ s' \in rtc8564_Types /\ s'.rep = <<>>
    BY <1>0, <1>1, <2>1, <2>2, <2>3, ByteIsNat DEF rtc8564_Types, rtc8564_recv
  <2>5. rtc8564_OK'
    BY <2>1, <2>2, <2>4 DEF rtc8564_OK
  <2>6. QED
    BY <2>1, <2>2, <2>4, <2>5, rtc8564_Receives, SilentRespects DEF Tidy
<1>8. ASSUME NEW p, Stops(p)
      PROVE  rtc8564_OK' /\ Respects'
  <2>1. /\ s' = rtc8564_recv(t, p) /\ p.cmd = "STOP"
        /\ phase = "data" /\ phase' = "stopped" /\ xfer' = xfer
    BY <1>2, <1>8, rtc8564_Receives DEF Stops
  <2>2. /\ Here' = Here /\ Here.bytes \in Seq(Byte)
        /\ xfer' # <<>> /\ xfer' \in Seq(PartTypes)
    BY <2>1, HereTyped
  <2> DEFINE all == [i \in DOMAIN rtc8564_fields |-> t.kept[rtc8564_fields[i]]]
             r == Report(Summary, all)
  <2>3. CASE s.state \in {"WRITE_RTC_REGS", "READ_RTC_REGS2"}
    <3>1. all \in Seq(Int)
      <4>1. DOMAIN rtc8564_fields = 1 .. 6 /\ \A i \in 1 .. 6 : rtc8564_fields[i] \in 2 .. 8
        BY DEF rtc8564_fields
      <4>2. t.kept \in [2 .. 8 -> Int]
        BY <1>1 DEF rtc8564_Types
      <4>3. QED
        BY <4>1, <4>2
    <3>2. s' = To(Say(t, Summary, all), "IDLE")
      BY <1>1, <2>1, <2>3 DEF rtc8564_recv, rtc8564_output_datetime
    <3> HIDE DEF all
    <3>3. /\ r.reg = Summary /\ r.bytes = all /\ <<r>> \in Seq(Reports)
          /\ Append(<<>>, r) = <<r>>
      <4>1. Summary \in Int
        BY DEF Summary
      <4>2. QED
        BY <3>1, <4>1, OneReportAny
    <3>4. s' = [t EXCEPT !.rep = <<r>>, !.state = "IDLE"]
      BY <1>1, <3>2, <3>3 DEF Say
    <3> HIDE DEF r
    <3>5. s' \in rtc8564_Types /\ s'.rep = <<r>>
      BY <1>1, <3>3, <3>4 DEF rtc8564_Types
    <3>6. rtc8564_OK'
      BY <3>5 DEF rtc8564_OK
    <3>7. QED
      BY <2>2, <3>3, <3>5, <3>6, rtc8564_Receives, SummaryRespects DEF Choosy, Tidy
  <2>4. CASE ~(s.state \in {"WRITE_RTC_REGS", "READ_RTC_REGS2"})
    <3>1. s' = t
      BY <1>1, <2>1, <2>4 DEF rtc8564_recv
    <3>2. rtc8564_OK'
      BY <1>1, <3>1 DEF rtc8564_OK
    <3>3. QED
      BY <1>1, <3>1, <3>2, rtc8564_Receives, SilentRespects DEF Tidy
  <2>5. QED
    BY <2>3, <2>4
<1>9. CASE Resets
  <2>1. s' = rtc8564_reset /\ phase' = "stopped"
    BY <1>9, rtc8564_Receives DEF Resets
  <2>2. s' \in rtc8564_Types /\ s'.rep = <<>>
    BY <1>0, <2>1 DEF rtc8564_reset, rtc8564_Types, Byte, Unseen
  <2>3. rtc8564_OK'
    BY <2>1, <2>2 DEF rtc8564_OK
  <2>4. QED
    BY <2>1, <2>2, <2>3, rtc8564_Receives, SilentRespects DEF Tidy
<1>10. QED
  BY <1>3, <1>4, <1>5, <1>6, <1>7, <1>8, <1>9 DEF Steps

\* It begins there, and stays there while nothing happens.
LEMMA rtc8564_Begin ==
  ASSUME upper = "rtc8564", phase = "stopped", s = ResetOf(upper)
  PROVE  rtc8564_OK /\ Respects
<1>1. s = rtc8564_reset
  BY rtc8564_Receives
<1>2. <<>> \in Seq(Reports) /\ <<>> \in Seq(Byte)
  BY RepTyped
<1>3. rtc8564_reset \in rtc8564_Types /\ rtc8564_reset.rep = <<>>
  BY ONLY <1>2 DEF rtc8564_reset, rtc8564_Types, Byte, Unseen
<1>4. rtc8564_OK
  BY <1>1, <1>3 DEF rtc8564_OK, Within
<1>5. QED
  BY <1>1, <1>3, <1>4, SilentBegins

LEMMA rtc8564_Idle ==
  ASSUME rtc8564_OK, UNCHANGED vars
  PROVE  rtc8564_OK'
BY DEF rtc8564_OK, vars, Within, Here, Met

-----------------------------------------------------------------------------
(* pca9571                                                                   *)

\* Data is taken only in a part for the chip.
pca9571_OK ==
    /\ DOMAIN s = DOMAIN pca9571_reset
    /\ phase = "stopped" => s.state = "IDLE"
    /\ phase = "address" => s.state = "GET_SLAVE_ADDR"
    /\ s.state \in {"READ_DATA", "WRITE_DATA"} => Here.a = 37

\* The decoder among the others.
LEMMA pca9571_Receives ==
  /\ \A st, p : Recv("pca9571", st, p) = pca9571_recv(st, p)
  /\ \A st : Silenced("pca9571", st) = [st EXCEPT !.rep = <<>>]
  /\ ResetOf("pca9571") = pca9571_reset
  /\ Own("pca9571") = {37}
  /\ pca9571_reset.state = "IDLE"
<1>1. /\ \A st, p : Recv("pca9571", st, p) = pca9571_recv(st, p)
      /\ ResetOf("pca9571") = pca9571_reset
  BY DEF Recv, ResetOf
<1>2. \A st : Silenced("pca9571", st) = [st EXCEPT !.rep = <<>>]
  BY DEF Silenced, Relays, Forwarders
<1>3. Own("pca9571") = {37}
  BY DEF Own
<1>4. pca9571_reset.state = "IDLE"
  BY DEF pca9571_reset
<1>5. QED
  BY <1>1, <1>2, <1>3, <1>4

\* Every event of the bus keeps its invariant and is reported as it should be.
LEMMA pca9571_Step ==
  ASSUME upper = "pca9571", upper' = upper, BusOK, BusOK', pca9571_OK, Steps
  PROVE  pca9571_OK' /\ Respects'
<1> DEFINE t == [s EXCEPT !.rep = <<>>]
<1>0. <<>> \in Seq(Reports) /\ <<>> \in Seq(Byte)
  BY RepTyped
<1>1. /\ DOMAIN t = DOMAIN pca9571_reset /\ t.rep = <<>>
      /\ t.state = s.state
  BY <1>0 DEF pca9571_OK, pca9571_reset
<1>2. Hushed = t
  BY pca9571_Receives DEF Hushed
<1> HIDE DEF t
<1>a. /\ Mention(t) = [t EXCEPT !.rep = <<Remark>>]
      /\ <<Remark>> \in Seq(Reports) /\ Remark.reg \in Subjects /\ Remark.bytes = <<>>
  BY <1>1, Remarks
<1>b. ASSUME NEW a \in Int
      PROVE  /\ Warn(t, a) = [t EXCEPT !.rep = <<Complaint(a)>>]
             /\ <<Complaint(a)>> \in Seq(Reports)
             /\ Complaint(a).reg = Warning /\ Complaint(a).bytes = <<a>>
  BY <1>1, Complaints
<1> USE DEF To, IsAddress, IsData, Within
<1>3. ASSUME NEW p, Starts(p)
      PROVE  pca9571_OK' /\ Respects'
  <2>1. /\ s' = pca9571_recv(t, p) /\ p.cmd = "START"
        /\ phase = "stopped" /\ phase' = "address"
    BY <1>2, <1>3, pca9571_Receives DEF Starts
  <2>3. s' = To(t, "GET_SLAVE_ADDR")
    BY <1>1, <2>1 DEF pca9571_recv
  <2>4. /\ DOMAIN s' = DOMAIN pca9571_reset /\ s'.rep = <<>>
        /\ s'.state = "GET_SLAVE_ADDR"
    BY <1>0, <1>1, <2>1, <2>3 DEF pca9571_reset
  <2>5. pca9571_OK'
    BY <2>1, <2>4 DEF pca9571_OK
  <2>6. QED
    BY <2>1, <2>4, <2>5, pca9571_Receives, SilentRespects
<1>4. ASSUME NEW p, Repeats(p)
      PROVE  pca9571_OK' /\ Respects'
  <2>1. /\ s' = pca9571_recv(t, p) /\ p.cmd = "START REPEAT"
        /\ phase = "data" /\ phase' = "address" /\ xfer' = xfer
    BY <1>2, <1>4, pca9571_Receives DEF Repeats
  <2>2. /\ Here' = Here /\ Here.bytes \in Seq(Byte)
        /\ xfer' # <<>> /\ xfer' \in Seq(PartTypes)
    BY <2>1, HereTyped
  <2>3. s' = To(t, "GET_SLAVE_ADDR")
    BY <1>1, <2>1, <2>2 DEF pca9571_recv
  <2>4. /\ DOMAIN s' = DOMAIN pca9571_reset /\ s'.rep = <<>>
        /\ s'.state = "GET_SLAVE_ADDR"
    BY <1>0, <1>1, <2>1, <2>2, <2>3 DEF pca9571_reset
  <2>5. pca9571_OK'
    BY <2>1, <2>2, <2>4 DEF pca9571_OK
  <2>6. QED
    BY <2>1, <2>2, <2>4, <2>5, pca9571_Receives, SilentRespects
<1>5. ASSUME NEW w \in {0, 1}, NEW a \in 0 .. 127, NEW q, NEW p, Addresses(w, a, q, p)
      PROVE  pca9571_OK' /\ Respects'
  <2>0. pca9571_recv(t, q) = t
    BY <1>5 DEF pca9571_recv, Addresses
  <2>1. /\ s' = pca9571_recv(t, p) /\ p.val = a
        /\ p.cmd = (IF w = 1 THEN "ADDRESS WRITE" ELSE "ADDRESS READ")
        /\ phase = "address" /\ phase' = "address_ack"
    <3>1. /\ s' = Recv(upper, Recv(upper, Hushed, q), p)
          /\ p.val = a
          /\ p.cmd = (IF w = 1 THEN "ADDRESS WRITE" ELSE "ADDRESS READ")
          /\ phase = "address" /\ phase' = "address_ack"
      BY <1>5 DEF Addresses
    <3>2. Recv(upper, Recv(upper, Hushed, q), p) = pca9571_recv(t, p)
      BY <1>2, <2>0, pca9571_Receives
    <3>3. QED
      BY <3>1, <3>2
  <2>2. /\ Here'.w = w /\ Here'.a = a /\ Here'.bytes = <<>>
        /\ xfer' # <<>> /\ xfer' \in Seq(PartTypes) /\ a \in Nat
    BY <1>5, AddressesPart
  <2>3. CASE a # 37
    <3>w. /\ Warn(t, a) = [t EXCEPT !.rep = <<Complaint(a)>>]
          /\ Complaint(a).reg = Warning /\ Complaint(a).bytes = <<a>>
      BY <1>b, <2>2
    <3>1. s' = [t EXCEPT !.rep = <<Complaint(a)>>, !.state = "IDLE"]
      BY <3>w, <1>1, <2>1, <2>2, <2>3 DEF pca9571_recv, pca9571_OK
    <3>2. /\ DOMAIN s' = DOMAIN pca9571_reset /\ s'.rep = <<Complaint(a)>>
          /\ s'.state = "IDLE"
      BY <1>0, <1>1, <2>1, <2>2, <2>3, <3>1 DEF pca9571_reset
    <3>3. pca9571_OK'
      BY <2>1, <2>2, <2>3, <3>2 DEF pca9571_OK
    <3>4. QED
      BY <2>1, <2>2, <2>3, <3>2, <3>3, <3>w, pca9571_Receives, WarnRespects DEF Choosy, Forgetful
  <2>4. CASE a = 37 /\ w = 1
    <3>1. s' = To(t, "WRITE_DATA")
      BY <1>1, <2>1, <2>2, <2>4 DEF pca9571_recv, pca9571_OK
    <3>2. /\ DOMAIN s' = DOMAIN pca9571_reset /\ s'.rep = <<>>
          /\ s'.state = "WRITE_DATA"
      BY <1>0, <1>1, <2>1, <2>2, <2>4, <3>1 DEF pca9571_reset
    <3>3. pca9571_OK'
      BY <2>1, <2>2, <2>4, <3>2 DEF pca9571_OK
    <3>4. QED
      BY <2>1, <2>2, <3>2, <3>3, pca9571_Receives, SilentRespects
  <2>5. CASE a = 37 /\ w # 1
    <3>1. s' = To(t, "READ_DATA")
      BY <1>1, <2>1, <2>2, <2>5 DEF pca9571_recv, pca9571_OK
    <3>2. /\ DOMAIN s' = DOMAIN pca9571_reset /\ s'.rep = <<>>
          /\ s'.state = "READ_DATA"
      BY <1>0, <1>1, <2>1, <2>2, <2>5, <3>1 DEF pca9571_reset
    <3>3. pca9571_OK'
      BY <2>1, <2>2, <2>5, <3>2 DEF pca9571_OK
    <3>4. QED
      BY <2>1, <2>2, <3>2, <3>3, pca9571_Receives, SilentRespects
  <2>6. QED
    BY <2>1, <2>2, <2>3, <2>4, <2>5 DEF pca9571_OK
<1>6. ASSUME NEW d \in Byte, NEW q, NEW p, Transfers(d, q, p)
      PROVE  pca9571_OK' /\ Respects'
  <2>0. pca9571_recv(t, q) = t
    BY <1>6 DEF pca9571_recv, Transfers
  <2>1. /\ s' = pca9571_recv(t, p) /\ p.val = d
        /\ p.cmd = (IF wr = 1 THEN "DATA WRITE" ELSE "DATA READ")
        /\ phase = "data" /\ phase' = "data_ack"
    <3>1. /\ s' = Recv(upper, Recv(upper, Hushed, q), p)
          /\ p.val = d
          /\ p.cmd = (IF wr = 1 THEN "DATA WRITE" ELSE "DATA READ")
          /\ phase = "data" /\ phase' = "data_ack"
      BY <1>6 DEF Transfers
    <3>2. Recv(upper, Recv(upper, Hushed, q), p) = pca9571_recv(t, p)
      BY <1>2, <2>0, pca9571_Receives
    <3>3. QED
      BY <3>1, <3>2
  <2>2. /\ Here'.w = Here.w /\ Here'.a = Here.a /\ Here'.bytes = Append(Here.bytes, d)
        /\ xfer' # <<>> /\ xfer' \in Seq(PartTypes) /\ Here.bytes \in Seq(Byte) /\ Here.w = wr
    BY <1>6, <2>1, TransfersPart, HereTyped DEF PartTypes
  <2>3. CASE s.state \notin {"READ_DATA", "WRITE_DATA"}
    <3>1. s' = To(t, "IDLE")
      BY <1>1, <2>1, <2>2, <2>3 DEF pca9571_recv
    <3>2. /\ DOMAIN s' = DOMAIN pca9571_reset /\ s'.rep = <<>>
          /\ s'.state = "IDLE"
      BY <1>0, <1>1, <2>1, <2>2, <2>3, <3>1 DEF pca9571_reset
    <3>3. pca9571_OK'
      BY <2>1, <2>2, <2>3, <3>2 DEF pca9571_OK
    <3>4. QED
      BY <2>1, <2>2, <3>2, <3>3, pca9571_Receives, SilentRespects
  <2>4. CASE s.state \in {"READ_DATA", "WRITE_DATA"}
    <3>1. s' = pca9571_handle_io(t, d)
      BY <1>1, <2>1, <2>2, <2>4 DEF pca9571_recv
    <3>2. /\ DOMAIN s' = DOMAIN pca9571_reset
          /\ s'.state = s.state
      BY <1>1, <2>1, <2>2, <2>4, <3>1 DEF pca9571_reset, pca9571_handle_io, Say
    <3>3. pca9571_OK'
      BY <2>1, <2>2, <2>4, <3>2 DEF pca9571_OK
    <3>4. \A i \in DOMAIN s'.rep : s'.rep[i].reg # Warning
      <4> DEFINE r0 == Report(0, <<d>>)
                 r1 == Report(1, <<t.last_write>>)
      <4>1. r0.reg = 0 /\ r1.reg = 1 /\ Warning # 0 /\ Warning # 1
        BY DEF Report, Warning
      <4>2. s'.rep = Append(<<>>, r0) \/ s'.rep = Append(Append(<<>>, r0), r1)
        BY <1>1, <3>1 DEF pca9571_reset, pca9571_handle_io, Say
      <4> HIDE DEF r0, r1
      <4>3. QED
        BY <4>1, <4>2
    <3>5. QED
      BY <2>1, <2>2, <2>4, <3>2, <3>3, <3>4, pca9571_Receives, OwnRespects DEF pca9571_OK, Quoting, Choosy
  <2>5. QED
    BY <2>1, <2>2, <2>3, <2>4 DEF pca9571_OK
<1>7. ASSUME NEW p, Acknowledges(p)
      PROVE  pca9571_OK' /\ Respects'
  <2>1. /\ s' = pca9571_recv(t, p) /\ p.cmd \in {"ACK", "NACK"}
        /\ phase \in {"address_ack", "data_ack"} /\ phase' = "data" /\ xfer' = xfer
    BY <1>2, <1>7, pca9571_Receives DEF Acknowledges
  <2>2. /\ Here' = Here /\ Here.bytes \in Seq(Byte)
        /\ xfer' # <<>> /\ xfer' \in Seq(PartTypes)
    BY <2>1, HereTyped
  <2>3. CASE p.cmd = "ACK"
    <3>1. s' = t
      BY <1>1, <2>1, <2>2, <2>3 DEF pca9571_recv
    <3>2. /\ DOMAIN s' = DOMAIN pca9571_reset /\ s'.rep = <<>>
          /\ s'.state = s.state
      BY <1>0, <1>1, <2>1, <2>2, <2>3, <3>1 DEF pca9571_reset
    <3>3. pca9571_OK'
      BY <2>1, <2>2, <2>3, <3>2 DEF pca9571_OK
    <3>4. QED
      BY <2>1, <2>2, <3>2, <3>3, pca9571_Receives, SilentRespects
  <2>4. CASE p.cmd = "NACK"
    <3>1. s' = To(t, "IDLE")
      BY <1>1, <2>1, <2>2, <2>4 DEF pca9571_recv
    <3>2. /\ DOMAIN s' = DOMAIN pca9571_reset /\ s'.rep = <<>>
          /\ s'.state = "IDLE"
      BY <1>0, <1>1, <2>1, <2>2, <2>4, <3>1 DEF pca9571_reset
    <3>3. pca9571_OK'
      BY <2>1, <2>2, <2>4, <3>2 DEF pca9571_OK
    <3>4. QED
      BY <2>1, <2>2, <3>2, <3>3, pca9571_Receives, SilentRespects
  <2>5. QED
    BY <2>1, <2>2, <2>3, <2>4 DEF pca9571_OK
<1>8. ASSUME NEW p, Stops(p)
      PROVE  pca9571_OK' /\ Respects'
  <2>1. /\ s' = pca9571_recv(t, p) /\ p.cmd = "STOP"
        /\ phase = "data" /\ phase' = "stopped" /\ xfer' = xfer
    BY <1>2, <1>8, pca9571_Receives DEF Stops
  <2>2. /\ Here' = Here /\ Here.bytes \in Seq(Byte)
        /\ xfer' # <<>> /\ xfer' \in Seq(PartTypes)
    BY <2>1, HereTyped
  <2>3. s' = To(t, "IDLE")
    BY <1>1, <2>1, <2>2 DEF pca9571_recv
  <2>4. /\ DOMAIN s' = DOMAIN pca9571_reset /\ s'.rep = <<>>
        /\ s'.state = "IDLE"
    BY <1>0, <1>1, <2>1, <2>2, <2>3 DEF pca9571_reset
  <2>5. pca9571_OK'
    BY <2>1, <2>2, <2>4 DEF pca9571_OK
  <2>6. QED
    BY <2>1, <2>2, <2>4, <2>5, pca9571_Receives, SilentRespects
<1>9. CASE Resets
  <2>1. s' = pca9571_reset /\ phase' = "stopped"
    BY <1>9, pca9571_Receives DEF Resets
  <2>2. DOMAIN s' = DOMAIN pca9571_reset /\ s'.rep = <<>> /\ s'.state = "IDLE"
    BY <2>1 DEF pca9571_reset
  <2>3. pca9571_OK'
    BY <2>1, <2>2 DEF pca9571_OK
  <2>4. QED
    BY <2>1, <2>2, <2>3, pca9571_Receives, SilentRespects
<1>10. QED
  BY <1>3, <1>4, <1>5, <1>6, <1>7, <1>8, <1>9 DEF Steps

\* It begins there, and stays there while nothing happens.
LEMMA pca9571_Begin ==
  ASSUME upper = "pca9571", phase = "stopped", s = ResetOf(upper)
  PROVE  pca9571_OK /\ Respects
<1>1. s = pca9571_reset
  BY pca9571_Receives
<1>2. DOMAIN s = DOMAIN pca9571_reset /\ s.rep = <<>> /\ s.state = "IDLE"
  BY <1>1 DEF pca9571_reset
<1>3. pca9571_OK
  BY <1>2 DEF pca9571_OK, Within
<1>4. QED
  BY <1>2, <1>3, SilentBegins

LEMMA pca9571_Idle ==
  ASSUME pca9571_OK, UNCHANGED vars
  PROVE  pca9571_OK'
BY DEF pca9571_OK, vars, Within, Here, Met

-----------------------------------------------------------------------------
(* hdmi_scdc                                                                 *)

hdmi_scdc_Types ==
    [state : {"IDLE", "GET_SLAVE_ADDR", "GET_OFFSET", "OFFSET_RECEIVED",
              "READ_REGISTER", "WRITE_REGISTER"},
     offset : Nat, databytes_len : Nat, err_det_lower : Byte, rep : Seq(Reports)]

\* Behind GET_SLAVE_ADDR the chip has been addressed in this transfer.
hdmi_scdc_OK ==
    /\ s \in hdmi_scdc_Types
    /\ phase = "stopped" => s.state = "IDLE"
    /\ s.state \notin {"IDLE", "GET_SLAVE_ADDR"} => Met(84)

\* The decoder among the others.
LEMMA hdmi_scdc_Receives ==
  /\ \A st, p : Recv("hdmi_scdc", st, p) = hdmi_scdc_recv(st, p)
  /\ \A st : Silenced("hdmi_scdc", st) = [st EXCEPT !.rep = <<>>]
  /\ ResetOf("hdmi_scdc") = hdmi_scdc_reset
  /\ Own("hdmi_scdc") = {84}
  /\ hdmi_scdc_reset.state = "IDLE"
<1>1. /\ \A st, p : Recv("hdmi_scdc", st, p) = hdmi_scdc_recv(st, p)
      /\ ResetOf("hdmi_scdc") = hdmi_scdc_reset
  BY DEF Recv, ResetOf
<1>2. \A st : Silenced("hdmi_scdc", st) = [st EXCEPT !.rep = <<>>]
  BY DEF Silenced, Relays, Forwarders
<1>3. Own("hdmi_scdc") = {84}
  BY DEF Own
<1>4. hdmi_scdc_reset.state = "IDLE"
  BY DEF hdmi_scdc_reset
<1>5. QED
  BY <1>1, <1>2, <1>3, <1>4

\* What a register value shows: nothing, the error counter with its kept low
\* byte, or that byte or a text about it.
hdmi_scdc_Text(r, d) == r.reg = Summary \/ (r.reg \in Subjects /\ r.bytes \in {<<>>, <<d>>})
hdmi_scdc_Shown(u, d) == u.rep = <<>> \/ \E r : u.rep = <<r>> /\ hdmi_scdc_Text(r, d)

LEMMA hdmi_scdc_Shows ==
  ASSUME NEW t \in hdmi_scdc_Types, t.rep = <<>>, NEW d \in Byte
  PROVE  /\ hdmi_scdc_handle_scdc(t, d) \in hdmi_scdc_Types
         /\ hdmi_scdc_handle_scdc(t, d).state = t.state
         /\ hdmi_scdc_Shown(hdmi_scdc_handle_scdc(t, d), d)
<1> DEFINE v == hdmi_scdc_show(t, d)
<1>0. t.offset \in Nat /\ t.err_det_lower \in Byte /\ <<d>> \in Seq(Byte)
  BY DEF hdmi_scdc_Types
<1>1. /\ v \in hdmi_scdc_Types /\ v.state = t.state /\ hdmi_scdc_Shown(v, d)
  <2>1. CASE v = [t EXCEPT !.err_det_lower = d]
    <3>1. v \in hdmi_scdc_Types /\ v.state = t.state /\ v.rep = <<>>
      BY <2>1 DEF hdmi_scdc_Types
    <3>2. QED
      BY <3>1 DEF hdmi_scdc_Shown, hdmi_scdc_Text
  <2>2. CASE v = Say(t, Summary, <<t.err_det_lower, d>>)
    <3> DEFINE two == <<t.err_det_lower, d>>
               r == Report(Summary, two)
    <3>1. two \in Seq(Int) /\ Summary \in Int
      BY <1>0, ByteIsNat DEF Summary
    <3>2. v = Say(t, Summary, two)
      BY <2>2
    <3> HIDE DEF two
    <3>3. r.reg = Summary /\ <<r>> \in Seq(Reports) /\ Append(<<>>, r) = <<r>>
      BY <3>1, OneReportAny
    <3>4. v = [t EXCEPT !.rep = <<r>>]
      BY <3>2, <3>3 DEF Say
    <3> HIDE DEF r, v
    <3>5. v \in hdmi_scdc_Types /\ v.state = t.state /\ v.rep = <<r>>
      BY <3>3, <3>4 DEF hdmi_scdc_Types
    <3>6. QED
      BY <3>3, <3>5 DEF hdmi_scdc_Shown, hdmi_scdc_Text
  <2>3. CASE v = Mention(t)
    <3>1. v = [t EXCEPT !.rep = <<Remark>>] /\ <<Remark>> \in Seq(Reports)
          /\ Remark.reg \in Subjects /\ Remark.bytes = <<>>
      BY <2>3, Remarks
    <3> HIDE DEF v
    <3>2. v \in hdmi_scdc_Types /\ v.state = t.state /\ v.rep = <<Remark>>
      BY <3>1 DEF hdmi_scdc_Types
    <3>3. QED
      BY <3>1, <3>2 DEF hdmi_scdc_Shown, hdmi_scdc_Text
  <2>4. CASE v = Say(t, t.offset, <<d>>)
    <3> DEFINE r == Report(t.offset, <<d>>)
    <3>1. t.offset \in Subjects
      BY <1>0, SubjectOf
    <3>2. /\ r.reg \in Subjects /\ r.bytes = <<d>> /\ <<r>> \in Seq(Reports)
          /\ Append(<<>>, r) = <<r>>
      BY <1>0, <3>1, OneReport
    <3>3. v = [t EXCEPT !.rep = <<r>>]
      BY <2>4, <3>2 DEF Say
    <3> HIDE DEF r, v
    <3>4. v \in hdmi_scdc_Types /\ v.state = t.state /\ v.rep = <<r>>
      BY <3>2, <3>3 DEF hdmi_scdc_Types
    <3>5. QED
      BY <3>2, <3>4 DEF hdmi_scdc_Shown, hdmi_scdc_Text
  <2>5. CASE v = t
    <3>1. v \in hdmi_scdc_Types /\ v.state = t.state /\ v.rep = <<>>
      BY <2>5
    <3>2. QED
      BY <3>1 DEF hdmi_scdc_Shown, hdmi_scdc_Text
  <2>6. QED
    BY <2>1, <2>2, <2>3, <2>4, <2>5 DEF hdmi_scdc_show
<1> DEFINE u == hdmi_scdc_handle_scdc(t, d)
           g == IF v.offset \in 80 .. 86 THEN v.offset + 1 ELSE v.offset
           k == v.databytes_len + 1
<1>2. u = [v EXCEPT !.databytes_len = k, !.offset = g]
  BY <1>1 DEF hdmi_scdc_handle_scdc, hdmi_scdc_Types
<1> HIDE DEF v, u
<1>3. v.offset \in Nat /\ v.databytes_len \in Nat
  BY <1>1 DEF hdmi_scdc_Types
<1>4. g \in Nat /\ k \in Nat
  BY <1>3
<1> HIDE DEF g, k
<1>5. u \in hdmi_scdc_Types /\ u.state = t.state /\ u.rep = v.rep
  BY <1>1, <1>2, <1>4 DEF hdmi_scdc_Types
<1>6. hdmi_scdc_Shown(u, d)
  BY <1>1, <1>5 DEF hdmi_scdc_Shown, hdmi_scdc_Text
<1>7. QED
  BY <1>5, <1>6 DEF u

\* Every event of the bus keeps its invariant and is reported as it should be.
LEMMA hdmi_scdc_Step ==
  ASSUME upper = "hdmi_scdc", upper' = upper, BusOK, BusOK', hdmi_scdc_OK, Steps
  PROVE  hdmi_scdc_OK' /\ Respects'
<1> DEFINE t == [s EXCEPT !.rep = <<>>]
<1>0. <<>> \in Seq(Reports) /\ <<>> \in Seq(Byte)
  BY RepTyped
<1>1. /\ t \in hdmi_scdc_Types /\ t.rep = <<>>
      /\ t.state = s.state /\ t.offset = s.offset /\ t.databytes_len = s.databytes_len
  BY <1>0 DEF hdmi_scdc_OK, hdmi_scdc_Types
<1>2. Hushed = t
  BY hdmi_scdc_Receives DEF Hushed
<1> HIDE DEF t
<1>a. /\ Mention(t) = [t EXCEPT !.rep = <<Remark>>]
      /\ <<Remark>> \in Seq(Reports) /\ Remark.reg \in Subjects /\ Remark.bytes = <<>>
  BY <1>1, Remarks
<1>b. ASSUME NEW a \in Int
      PROVE  /\ Warn(t, a) = [t EXCEPT !.rep = <<Complaint(a)>>]
             /\ <<Complaint(a)>> \in Seq(Reports)
             /\ Complaint(a).reg = Warning /\ Complaint(a).bytes = <<a>>
  BY <1>1, Complaints
<1> USE DEF To, IsAddress, IsData, Within
<1>3. ASSUME NEW p, Starts(p)
      PROVE  hdmi_scdc_OK' /\ Respects'
  <2>1. /\ s' = hdmi_scdc_recv(t, p) /\ p.cmd = "START"
        /\ phase = "stopped" /\ phase' = "address"
    BY <1>2, <1>3, hdmi_scdc_Receives DEF Starts
  <2>3. s' = To(t, "GET_SLAVE_ADDR")
    BY <1>1, <2>1 DEF hdmi_scdc_recv, hdmi_scdc_OK
  <2>4. /\ s' \in hdmi_scdc_Types /\ s'.rep = <<>>
        /\ s'.state = "GET_SLAVE_ADDR"
    BY <1>0, <1>1, <2>1, <2>3, ByteIsNat DEF hdmi_scdc_Types
  <2>5. hdmi_scdc_OK'
    BY <2>1, <2>4 DEF hdmi_scdc_OK
  <2>6. QED
    BY <2>1, <2>4, <2>5, hdmi_scdc_Receives, SilentRespects
<1>4. ASSUME NEW p, Repeats(p)
      PROVE  hdmi_scdc_OK' /\ Respects'
  <2>1. /\ s' = hdmi_scdc_recv(t, p) /\ p.cmd = "START REPEAT"
        /\ phase = "data" /\ phase' = "address" /\ xfer' = xfer
    BY <1>2, <1>4, hdmi_scdc_Receives DEF Repeats
  <2>2. /\ Here' = Here /\ Here.bytes \in Seq(Byte)
        /\ xfer' # <<>> /\ xfer' \in Seq(PartTypes)
    BY <2>1, HereTyped
  <2>3. CASE s.state \in {"READ_REGISTER", "WRITE_REGISTER"}
    <3>1. s' = [hdmi_scdc_reset EXCEPT !.rep = <<>>]
      BY <1>1, <2>1, <2>2, <2>3 DEF hdmi_scdc_recv
    <3>5. hdmi_scdc_reset \in hdmi_scdc_Types /\ hdmi_scdc_reset.state = "IDLE"
      BY <1>0 DEF hdmi_scdc_reset, hdmi_scdc_Types, Byte
    <3>2. /\ s' \in hdmi_scdc_Types /\ s'.rep = <<>>
          /\ s'.state = "IDLE"
      BY <1>0, <1>1, <2>1, <2>2, <2>3, <3>1, ByteIsNat, <3>5 DEF hdmi_scdc_Types
    <3>3. hdmi_scdc_OK'
      BY <2>1, <2>2, <2>3, <3>2 DEF hdmi_scdc_OK
    <3>4. QED
      BY <2>1, <2>2, <3>2, <3>3, hdmi_scdc_Receives, SilentRespects
  <2>4. CASE s.state = "OFFSET_RECEIVED"
    <3>1. s' = To(t, "GET_SLAVE_ADDR")
      BY <1>1, <2>1, <2>2, <2>4 DEF hdmi_scdc_recv
    <3>2. /\ s' \in hdmi_scdc_Types /\ s'.rep = <<>>
          /\ s'.state = "GET_SLAVE_ADDR"
      BY <1>0, <1>1, <2>1, <2>2, <2>4, <3>1, ByteIsNat DEF hdmi_scdc_Types
    <3>3. hdmi_scdc_OK'
      BY <2>1, <2>2, <2>4, <3>2 DEF hdmi_scdc_OK
    <3>4. QED
      BY <2>1, <2>2, <3>2, <3>3, hdmi_scdc_Receives, SilentRespects
  <2>5. CASE s.state \in {"IDLE", "GET_SLAVE_ADDR", "GET_OFFSET"}
    <3>1. s' = t
      BY <1>1, <2>1, <2>2, <2>5 DEF hdmi_scdc_recv
    <3>2. /\ s' \in hdmi_scdc_Types /\ s'.rep = <<>>
          /\ s'.state = s.state
      BY <1>0, <1>1, <2>1, <2>2, <2>5, <3>1, ByteIsNat DEF hdmi_scdc_Types
    <3>5. Met(84) => Met(84)'
      BY <2>1 DEF Met
    <3>3. hdmi_scdc_OK'
      BY <2>1, <2>2, <2>5, <3>2, <3>5 DEF hdmi_scdc_OK
    <3>4. QED
      BY <2>1, <2>2, <3>2, <3>3, hdmi_scdc_Receives, SilentRespects
  <2>6. QED
    BY <2>1, <2>2, <2>3, <2>4, <2>5 DEF hdmi_scdc_OK, hdmi_scdc_Types
<1>5. ASSUME NEW w \in {0, 1}, NEW a \in 0 .. 127, NEW q, NEW p, Addresses(w, a, q, p)
      PROVE  hdmi_scdc_OK' /\ Respects'
  <2>0. hdmi_scdc_recv(t, q) = t
    BY <1>5 DEF hdmi_scdc_recv, Addresses
  <2>1. /\ s' = hdmi_scdc_recv(t, p) /\ p.val = a
        /\ p.cmd = (IF w = 1 THEN "ADDRESS WRITE" ELSE "ADDRESS READ")
        /\ phase = "address" /\ phase' = "address_ack"
    <3>1. /\ s' = Recv(upper, Recv(upper, Hushed, q), p)
          /\ p.val = a
          /\ p.cmd = (IF w = 1 THEN "ADDRESS WRITE" ELSE "ADDRESS READ")
          /\ phase = "address" /\ phase' = "address_ack"
      BY <1>5 DEF Addresses
    <3>2. Recv(upper, Recv(upper, Hushed, q), p) = hdmi_scdc_recv(t, p)
      BY <1>2, <2>0, hdmi_scdc_Receives
    <3>3. QED
      BY <3>1, <3>2
  <2>2. /\ Here'.w = w /\ Here'.a = a /\ Here'.bytes = <<>>
        /\ xfer' # <<>> /\ xfer' \in Seq(PartTypes) /\ a \in Nat
    BY <1>5, AddressesPart
  <2>3. CASE s.state # "GET_SLAVE_ADDR" \/ a # 84
    <3>0. Met(a)' /\ (Met(84) => Met(84)')
      BY <1>5, Meets
    <3>1. s' = t
      BY <1>1, <2>1, <2>2, <2>3 DEF hdmi_scdc_recv
    <3>2. /\ s' \in hdmi_scdc_Types /\ s'.rep = <<>>
          /\ s'.state = s.state
      BY <1>0, <1>1, <2>1, <2>2, <2>3, <3>1, ByteIsNat DEF hdmi_scdc_Types
    <3>3. hdmi_scdc_OK'
      BY <2>1, <2>2, <2>3, <3>2, <3>0 DEF hdmi_scdc_OK
    <3>4. QED
      BY <2>1, <2>2, <3>2, <3>3, hdmi_scdc_Receives, SilentRespects
  <2>4. CASE s.state = "GET_SLAVE_ADDR" /\ a = 84 /\ w = 1
    <3>0. Met(a)' /\ (Met(84) => Met(84)')
      BY <1>5, Meets
    <3>1. s' = [t EXCEPT !.rep = <<Remark>>, !.state = "GET_OFFSET"]
      BY <1>a, <1>1, <2>1, <2>2, <2>4 DEF hdmi_scdc_recv
    <3>5. /\ s' \in hdmi_scdc_Types /\ s'.rep = <<Remark>>
          /\ s'.state = "GET_OFFSET"
      BY <1>a, <1>1, <3>1 DEF hdmi_scdc_Types
    <3>6. hdmi_scdc_OK'
      BY <2>1, <2>2, <2>4, <3>5, <3>0 DEF hdmi_scdc_OK
    <3>7. Piece(Remark.bytes, Here'.bytes)
      BY <1>0, <1>a, <2>2, NonePiece
    <3>8. \E i \in DOMAIN xfer' : xfer'[i].a \in Own(upper')
      BY <3>0, <2>4, hdmi_scdc_Receives DEF Met
    <3>9. QED
      BY <1>a, <2>1, <2>2, <2>4, <3>5, <3>6, <3>7, <3>8, hdmi_scdc_Receives, ReportRespects DEF hdmi_scdc_OK, Choosy
  <2>5. CASE s.state = "GET_SLAVE_ADDR" /\ a = 84 /\ w # 1
    <3>0. Met(a)' /\ (Met(84) => Met(84)')
      BY <1>5, Meets
    <3>1. s' = [t EXCEPT !.rep = <<Remark>>, !.state = "READ_REGISTER"]
      BY <1>a, <1>1, <2>1, <2>2, <2>5 DEF hdmi_scdc_recv
    <3>5. /\ s' \in hdmi_scdc_Types /\ s'.rep = <<Remark>>
          /\ s'.state = "READ_REGISTER"
      BY <1>a, <1>1, <3>1 DEF hdmi_scdc_Types
    <3>6. hdmi_scdc_OK'
      BY <2>1, <2>2, <2>5, <3>5, <3>0 DEF hdmi_scdc_OK
    <3>7. Piece(Remark.bytes, Here'.bytes)
      BY <1>0, <1>a, <2>2, NonePiece
    <3>8. \E i \in DOMAIN xfer' : xfer'[i].a \in Own(upper')
      BY <3>0, <2>5, hdmi_scdc_Receives DEF Met
    <3>9. QED
      BY <1>a, <2>1, <2>2, <2>5, <3>5, <3>6, <3>7, <3>8, hdmi_scdc_Receives, ReportRespects DEF hdmi_scdc_OK, Choosy
  <2>6. QED
    BY <2>1, <2>2, <2>3, <2>4, <2>5 DEF hdmi_scdc_OK, hdmi_scdc_Types
<1>6. ASSUME NEW d \in Byte, NEW q, NEW p, Transfers(d, q, p)
      PROVE  hdmi_scdc_OK' /\ Respects'
  <2>0. hdmi_scdc_recv(t, q) = t
    BY <1>6 DEF hdmi_scdc_recv, Transfers
  <2>1. /\ s' = hdmi_scdc_recv(t, p) /\ p.val = d
        /\ p.cmd = (IF wr = 1 THEN "DATA WRITE" ELSE "DATA READ")
        /\ phase = "data" /\ phase' = "data_ack"
    <3>1. /\ s' = Recv(upper, Recv(upper, Hushed, q), p)
          /\ p.val = d
          /\ p.cmd = (IF wr = 1 THEN "DATA WRITE" ELSE "DATA READ")
          /\ phase = "data" /\ phase' = "data_ack"
      BY <1>6 DEF Transfers
    <3>2. Recv(upper, Recv(upper, Hushed, q), p) = hdmi_scdc_recv(t, p)
      BY <1>2, <2>0, hdmi_scdc_Receives
    <3>3. QED
      BY <3>1, <3>2
  <2>2. /\ Here'.w = Here.w /\ Here'.a = Here.a /\ Here'.bytes = Append(Here.bytes, d)
        /\ xfer' # <<>> /\ xfer' \in Seq(PartTypes) /\ Here.bytes \in Seq(Byte) /\ Here.w = wr
    BY <1>6, <2>1, TransfersPart, HereTyped DEF PartTypes
  <2>3. CASE s.state \in {"IDLE", "GET_SLAVE_ADDR"} \/ (s.state \in {"GET_OFFSET", "OFFSET_RECEIVED"} /\ wr # 1)
    <3>0. Met(84) => Met(84)'
      BY <1>6, StaysMet
    <3>1. s' = t
      BY <1>1, <2>1, <2>2, <2>3 DEF hdmi_scdc_recv
    <3>2. /\ s' \in hdmi_scdc_Types /\ s'.rep = <<>>
          /\ s'.state = s.state
      BY <1>0, <1>1, <2>1, <2>2, <2>3, <3>1, ByteIsNat DEF hdmi_scdc_Types
    <3>3. hdmi_scdc_OK'
      BY <2>1, <2>2, <2>3, <3>2, <3>0 DEF hdmi_scdc_OK
    <3>4. QED
      BY <2>1, <2>2, <3>2, <3>3, hdmi_scdc_Receives, SilentRespects
  <2>4. CASE s.state = "GET_OFFSET" /\ wr = 1
    <3>0. Met(84) => Met(84)'
      BY <1>6, StaysMet
    <3>e. Met(84)
      BY <2>4 DEF hdmi_scdc_OK
    <3> DEFINE r == Report(-1, <<d>>)
    <3>1. -1 \in Subjects /\ <<d>> \in Seq(Byte)
      BY SubjectOf
    <3>2. /\ r.reg = -1 /\ r.bytes = <<d>> /\ <<r>> \in Seq(Reports)
          /\ Append(<<>>, r) = <<r>>
      BY <3>1, OneReport
    <3>3. s' = [Say(t, -1, <<d>>) EXCEPT !.offset = d, !.state = "OFFSET_RECEIVED"]
      BY <1>1, <2>1, <2>4 DEF hdmi_scdc_recv
    <3>4. s' = [t EXCEPT !.rep = <<r>>, !.offset = d, !.state = "OFFSET_RECEIVED"]
      BY <1>1, <3>2, <3>3 DEF Say
    <3> HIDE DEF r
    <3>5. s' \in hdmi_scdc_Types /\ s'.rep = <<r>> /\ s'.state = "OFFSET_RECEIVED"
      BY <1>1, <3>2, <3>4, ByteIsNat DEF hdmi_scdc_Types
    <3>6. hdmi_scdc_OK'
      BY <2>1, <2>2, <2>4, <3>5, <3>0 DEF hdmi_scdc_OK
    <3>7. Piece(r.bytes, Here'.bytes)
      BY <2>2, <3>2, LastPiece
    <3>8. \E i \in DOMAIN xfer' : xfer'[i].a \in Own(upper')
      BY <3>0, <3>e, hdmi_scdc_Receives DEF Met
    <3>9. r.reg \in Subjects
      BY <3>1, <3>2
    <3>10. QED
      BY <2>1, <2>2, <2>4, <3>5, <3>6, <3>7, <3>8, <3>9, hdmi_scdc_Receives, ReportRespects DEF hdmi_scdc_OK, Choosy
  <2>5. CASE s.state = "OFFSET_RECEIVED" /\ wr = 1
    <3>0. Met(84) => Met(84)'
      BY <1>6, StaysMet
    <3> DEFINE u == hdmi_scdc_handle_scdc(t, d)
    <3>1. s' = To(u, "WRITE_REGISTER")
      BY <1>1, <2>1, <2>2, <2>5 DEF hdmi_scdc_recv
    <3>2. u \in hdmi_scdc_Types /\ u.state = s.state /\ hdmi_scdc_Shown(u, d)
      BY <1>1, hdmi_scdc_Shows
    <3> HIDE DEF u
    <3>3. s' \in hdmi_scdc_Types /\ s'.rep = u.rep /\ s'.state = "WRITE_REGISTER"
      BY <3>1, <3>2 DEF hdmi_scdc_Types
    <3>e. Met(84)
      BY <2>5 DEF hdmi_scdc_OK
    <3>6. hdmi_scdc_OK'
      BY <2>1, <2>2, <2>5, <3>3, <3>0 DEF hdmi_scdc_OK
    <3>8. \E i \in DOMAIN xfer' : xfer'[i].a \in Own(upper')
      BY <3>0, <3>e, hdmi_scdc_Receives DEF Met
    <3>9. CASE u.rep = <<>>
      BY <2>1, <2>2, <3>3, <3>6, <3>9, hdmi_scdc_Receives, SilentRespects
    <3>10. CASE \E r : u.rep = <<r>> /\ hdmi_scdc_Text(r, d)
      <4>1. PICK r : u.rep = <<r>> /\ hdmi_scdc_Text(r, d)
        BY <3>10
      <4>2. s'.rep = <<r>>
        BY <3>3, <4>1
      <4>3. CASE r.reg = Summary
        BY <2>1, <2>2, <3>6, <3>8, <4>2, <4>3, hdmi_scdc_Receives, SummaryRespects DEF Choosy
      <4>4. CASE r.reg \in Subjects /\ r.bytes \in {<<>>, <<d>>}
        <5>1. Piece(<<d>>, Here'.bytes)
          BY <2>2, LastPiece
        <5>2. Here'.bytes \in Seq(Byte)
          BY <2>2
        <5>3. Piece(<<>>, Here'.bytes)
          BY <5>2, NonePiece
        <5>4. Piece(r.bytes, Here'.bytes)
          BY <4>4, <5>1, <5>3
        <5>5. QED
          BY <2>1, <2>2, <3>6, <3>8, <4>2, <4>4, <5>4, hdmi_scdc_Receives, ReportRespects DEF Choosy
      <4>5. QED
        BY <4>1, <4>3, <4>4 DEF hdmi_scdc_Text
    <3>11. QED
      BY <3>2, <3>9, <3>10 DEF hdmi_scdc_Shown
  <2>6. CASE s.state \in {"READ_REGISTER", "WRITE_REGISTER"}
    <3>0. Met(84) => Met(84)'
      BY <1>6, StaysMet
    <3> DEFINE u == hdmi_scdc_handle_scdc(t, d)
    <3>1. s' = u
      BY <1>1, <2>1, <2>2, <2>6 DEF hdmi_scdc_recv
    <3>2. u \in hdmi_scdc_Types /\ u.state = s.state /\ hdmi_scdc_Shown(u, d)
      BY <1>1, hdmi_scdc_Shows
    <3> HIDE DEF u
    <3>3. s' \in hdmi_scdc_Types /\ s'.rep = u.rep /\ s'.state = s.state
      BY <3>1, <3>2 DEF hdmi_scdc_Types
    <3>e. Met(84)
      BY <2>6 DEF hdmi_scdc_OK
    <3>6. hdmi_scdc_OK'
      BY <2>1, <2>2, <2>6, <3>3, <3>0 DEF hdmi_scdc_OK
    <3>8. \E i \in DOMAIN xfer' : xfer'[i].a \in Own(upper')
      BY <3>0, <3>e, hdmi_scdc_Receives DEF Met
    <3>9. CASE u.rep = <<>>
      BY <2>1, <2>2, <3>3, <3>6, <3>9, hdmi_scdc_Receives, SilentRespects
    <3>10. CASE \E r : u.rep = <<r>> /\ hdmi_scdc_Text(r, d)
      <4>1. PICK r : u.rep = <<r>> /\ hdmi_scdc_Text(r, d)
        BY <3>10
      <4>2. s'.rep = <<r>>
        BY <3>3, <4>1
      <4>3. CASE r.reg = Summary
        BY <2>1, <2>2, <3>6, <3>8, <4>2, <4>3, hdmi_scdc_Receives, SummaryRespects DEF Choosy
      <4>4. CASE r.reg \in Subjects /\ r.bytes \in {<<>>, <<d>>}
        <5>1. Piece(<<d>>, Here'.bytes)
          BY <2>2, LastPiece
        <5>2. Here'.bytes \in Seq(Byte)
          BY <2>2
        <5>3. Piece(<<>>, Here'.bytes)
          BY <5>2, NonePiece
        <5>4. Piece(r.bytes, Here'.bytes)
          BY <4>4, <5>1, <5>3
        <5>5. QED
          BY <2>1, <2>2, <3>6, <3>8, <4>2, <4>4, <5>4, hdmi_scdc_Receives, ReportRespects DEF Choosy
      <4>5. QED
        BY <4>1, <4>3, <4>4 DEF hdmi_scdc_Text
    <3>11. QED
      BY <3>2, <3>9, <3>10 DEF hdmi_scdc_Shown
  <2>7. QED
    BY <2>1, <2>2, <2>3, <2>4, <2>5, <2>6 DEF hdmi_scdc_OK, hdmi_scdc_Types
<1>7. ASSUME NEW p, Acknowledges(p)
      PROVE  hdmi_scdc_OK' /\ Respects'
  <2>1. /\ s' = hdmi_scdc_recv(t, p) /\ p.cmd \in {"ACK", "NACK"}
        /\ phase \in {"address_ack", "data_ack"} /\ phase' = "data" /\ xfer' = xfer
    BY <1>2, <1>7, hdmi_scdc_Receives DEF Acknowledges
  <2>2. /\ Here' = Here /\ Here.bytes \in Seq(Byte)
        /\ xfer' # <<>> /\ xfer' \in Seq(PartTypes)
    BY <2>1, HereTyped
  <2>3. s' = t
    BY <1>1, <2>1, <2>2 DEF hdmi_scdc_recv
  <2>4. /\ s' \in hdmi_scdc_Types /\ s'.rep = <<>>
        /\ s'.state = s.state
    BY <1>0, <1>1, <2>1, <2>2, <2>3, ByteIsNat DEF hdmi_scdc_Types
  <2>7. Met(84) => Met(84)'
    BY <2>1 DEF Met
  <2>5. hdmi_scdc_OK'
    BY <2>1, <2>2, <2>4, <2>7 DEF hdmi_scdc_OK
  <2>6. QED
    BY <2>1, <2>2, <2>4, <2>5, hdmi_scdc_Receives, SilentRespects
<1>8. ASSUME NEW p, Stops(p)
      PROVE  hdmi_scdc_OK' /\ Respects'
  <2>1. /\ s' = hdmi_scdc_recv(t, p) /\ p.cmd = "STOP"
        /\ phase = "data" /\ phase' = "stopped" /\ xfer' = xfer
    BY <1>2, <1>8, hdmi_scdc_Receives DEF Stops
  <2>2. /\ Here' = Here /\ Here.bytes \in Seq(Byte)
        /\ xfer' # <<>> /\ xfer' \in Seq(PartTypes)
    BY <2>1, HereTyped
  <2>3. s' = [hdmi_scdc_reset EXCEPT !.rep = <<>>]
    BY <1>1, <2>1, <2>2 DEF hdmi_scdc_recv
  <2>7. hdmi_scdc_reset \in hdmi_scdc_Types /\ hdmi_scdc_reset.state = "IDLE"
    BY <1>0 DEF hdmi_scdc_reset, hdmi_scdc_Types, Byte
  <2>4. /\ s' \in hdmi_scdc_Types /\ s'.rep = <<>>
        /\ s'.state = "IDLE"
    BY <1>0, <1>1, <2>1, <2>2, <2>3, ByteIsNat, <2>7 DEF hdmi_scdc_Types
  <2>5. hdmi_scdc_OK'
    BY <2>1, <2>2, <2>4 DEF hdmi_scdc_OK
  <2>6. QED
    BY <2>1, <2>2, <2>4, <2>5, hdmi_scdc_Receives, SilentRespects
<1>9. CASE Resets
  <2>1. s' = hdmi_scdc_reset /\ phase' = "stopped"
    BY <1>9, hdmi_scdc_Receives DEF Resets
  <2>2. s' \in hdmi_scdc_Types /\ s'.rep = <<>> /\ s'.state = "IDLE"
    BY <1>0, <2>1 DEF hdmi_scdc_reset, hdmi_scdc_Types, Byte
  <2>3. hdmi_scdc_OK'
    BY <2>1, <2>2 DEF hdmi_scdc_OK
  <2>4. QED
    BY <2>1, <2>2, <2>3, hdmi_scdc_Receives, SilentRespects
<1>10. QED
  BY <1>3, <1>4, <1>5, <1>6, <1>7, <1>8, <1>9 DEF Steps

\* It begins there, and stays there while nothing happens.
LEMMA hdmi_scdc_Begin ==
  ASSUME upper = "hdmi_scdc", phase = "stopped", s = ResetOf(upper)
  PROVE  hdmi_scdc_OK /\ Respects
<1>1. s = hdmi_scdc_reset
  BY hdmi_scdc_Receives
<1>2. <<>> \in Seq(Reports) /\ <<>> \in Seq(Byte)
  BY RepTyped
<1>3. hdmi_scdc_reset \in hdmi_scdc_Types /\ hdmi_scdc_reset.rep = <<>> /\ hdmi_scdc_reset.state = "IDLE"
  BY ONLY <1>2 DEF hdmi_scdc_reset, hdmi_scdc_Types, Byte
<1>4. hdmi_scdc_OK
  BY <1>1, <1>3 DEF hdmi_scdc_OK, Within
<1>5. QED
  BY <1>1, <1>3, <1>4, SilentBegins

LEMMA hdmi_scdc_Idle ==
  ASSUME hdmi_scdc_OK, UNCHANGED vars
  PROVE  hdmi_scdc_OK'
BY DEF hdmi_scdc_OK, vars, Within, Here, Met

-----------------------------------------------------------------------------
(* tpm_tis_i2c                                                               *)

tpm_tis_i2c_Types ==
    [state : {"IDLE", "ADDR_WRITE", "ADDR_ACK", "REG_ADDR", "REG_ADDR_ACK", "WAIT_OP",
              "READ_ADDR_READ", "READ_ADDR_ACK", "READ_DATA", "WRITE_DATA", "WRITE_DATA_ACK"},
     tis_addr : Nat, data : Seq(Byte), rep : Seq(Reports)]

\* Each state belongs to a place in a part; data holds what was read from the
\* part, or written behind the register's address.
tpm_tis_i2c_OK ==
    /\ s \in tpm_tis_i2c_Types
    /\ phase = "stopped" => s.state = "IDLE"
    /\ phase = "address" => s.state \in {"IDLE", "ADDR_WRITE", "READ_ADDR_READ"}
    /\ phase = "address_ack" => s.state \in {"IDLE", "ADDR_ACK", "READ_ADDR_ACK"}
    /\ phase = "data" => s.state \in {"IDLE", "REG_ADDR", "WAIT_OP", "READ_DATA", "WRITE_DATA"}
    /\ phase = "data_ack" => s.state \in {"IDLE", "REG_ADDR_ACK", "READ_DATA", "WRITE_DATA_ACK"}
    /\ s.state \in {"ADDR_ACK", "REG_ADDR"} => Here.bytes = <<>>
    /\ s.state \in {"REG_ADDR_ACK", "WAIT_OP"} => Len(Here.bytes) = 1
    /\ s.state \in {"READ_ADDR_ACK", "READ_DATA"} => Fills(s.data, Here.bytes, 0, 256)
    /\ s.state \in {"WRITE_DATA", "WRITE_DATA_ACK"} => Fills(s.data, Here.bytes, 1, 256)

\* The decoder among the others.
LEMMA tpm_tis_i2c_Receives ==
  /\ \A st, p : Recv("tpm_tis_i2c", st, p) = tpm_tis_i2c_recv(st, p)
  /\ \A st : Silenced("tpm_tis_i2c", st) = [st EXCEPT !.rep = <<>>]
  /\ ResetOf("tpm_tis_i2c") = tpm_tis_i2c_reset
  /\ tpm_tis_i2c_reset.state = "IDLE"
<1>1. /\ \A st, p : Recv("tpm_tis_i2c", st, p) = tpm_tis_i2c_recv(st, p)
      /\ ResetOf("tpm_tis_i2c") = tpm_tis_i2c_reset
  BY DEF Recv, ResetOf
<1>2. \A st : Silenced("tpm_tis_i2c", st) = [st EXCEPT !.rep = <<>>]
  BY DEF Silenced, Relays, Forwarders
<1>3. tpm_tis_i2c_reset.state = "IDLE"
  BY DEF tpm_tis_i2c_reset
<1>4. QED
  BY <1>1, <1>2, <1>3

\* Every event of the bus keeps its invariant and is reported as it should be.
LEMMA tpm_tis_i2c_Step ==
  ASSUME upper = "tpm_tis_i2c", upper' = upper, BusOK, BusOK', tpm_tis_i2c_OK, Steps
  PROVE  tpm_tis_i2c_OK' /\ Respects'
<1> DEFINE t == [s EXCEPT !.rep = <<>>]
<1>0. <<>> \in Seq(Reports) /\ <<>> \in Seq(Byte)
  BY RepTyped
<1>1. /\ t \in tpm_tis_i2c_Types /\ t.rep = <<>>
      /\ t.state = s.state /\ t.tis_addr = s.tis_addr /\ t.data = s.data
  BY <1>0 DEF tpm_tis_i2c_OK, tpm_tis_i2c_Types
<1>2. Hushed = t
  BY tpm_tis_i2c_Receives DEF Hushed
<1> HIDE DEF t
<1>a. /\ Mention(t) = [t EXCEPT !.rep = <<Remark>>]
      /\ <<Remark>> \in Seq(Reports) /\ Remark.reg \in Subjects /\ Remark.bytes = <<>>
  BY <1>1, Remarks
<1>b. ASSUME NEW a \in Int
      PROVE  /\ Warn(t, a) = [t EXCEPT !.rep = <<Complaint(a)>>]
             /\ <<Complaint(a)>> \in Seq(Reports)
             /\ Complaint(a).reg = Warning /\ Complaint(a).bytes = <<a>>
  BY <1>1, Complaints
<1> USE DEF To, IsAddress, IsData, Within
<1>3. ASSUME NEW p, Starts(p)
      PROVE  tpm_tis_i2c_OK' /\ Respects'
  <2>1. /\ s' = tpm_tis_i2c_recv(t, p) /\ p.cmd = "START"
        /\ phase = "stopped" /\ phase' = "address"
    BY <1>2, <1>3, tpm_tis_i2c_Receives DEF Starts
  <2>3. s' = [t EXCEPT !.state = "ADDR_WRITE", !.data = <<>>]
    BY <1>1, <2>1 DEF tpm_tis_i2c_recv, tpm_tis_i2c_OK, tpm_tis_acknowledged
  <2>4. /\ s' \in tpm_tis_i2c_Types /\ s'.rep = <<>>
        /\ s'.state = "ADDR_WRITE"
    BY <1>0, <1>1, <2>1, <2>3, ByteIsNat DEF tpm_tis_i2c_Types
  <2>5. tpm_tis_i2c_OK'
    BY <2>1, <2>4 DEF tpm_tis_i2c_OK
  <2>6. QED
    BY <2>1, <2>4, <2>5, tpm_tis_i2c_Receives, SilentRespects
<1>4. ASSUME NEW p, Repeats(p)
      PROVE  tpm_tis_i2c_OK' /\ Respects'
  <2>1. /\ s' = tpm_tis_i2c_recv(t, p) /\ p.cmd = "START REPEAT"
        /\ phase = "data" /\ phase' = "address" /\ xfer' = xfer
    BY <1>2, <1>4, tpm_tis_i2c_Receives DEF Repeats
  <2>2. /\ Here' = Here /\ Here.bytes \in Seq(Byte)
        /\ xfer' # <<>> /\ xfer' \in Seq(PartTypes)
    BY <2>1, HereTyped
  <2>3. CASE s.state = "IDLE"
    <3>1. s' = t
      BY <1>1, <2>1, <2>2, <2>3 DEF tpm_tis_i2c_recv, tpm_tis_acknowledged
    <3>2. /\ s' \in tpm_tis_i2c_Types /\ s'.rep = <<>>
          /\ s'.state = "IDLE"
      BY <1>0, <1>1, <2>1, <2>2, <2>3, <3>1, ByteIsNat DEF tpm_tis_i2c_Types
    <3>3. tpm_tis_i2c_OK'
      BY <2>1, <2>2, <2>3, <3>2 DEF tpm_tis_i2c_OK
    <3>4. QED
      BY <2>1, <2>2, <3>2, <3>3, tpm_tis_i2c_Receives, SilentRespects
  <2>4. CASE s.state = "WAIT_OP"
    <3>1. s' = [t EXCEPT !.data = <<>>, !.state = "READ_ADDR_READ"]
      BY <1>1, <2>1, <2>2, <2>4 DEF tpm_tis_i2c_recv, tpm_tis_acknowledged
    <3>2. /\ s' \in tpm_tis_i2c_Types /\ s'.rep = <<>>
          /\ s'.state = "READ_ADDR_READ"
      BY <1>0, <1>1, <2>1, <2>2, <2>4, <3>1, ByteIsNat DEF tpm_tis_i2c_Types
    <3>3. tpm_tis_i2c_OK'
      BY <2>1, <2>2, <2>4, <3>2 DEF tpm_tis_i2c_OK
    <3>4. QED
      BY <2>1, <2>2, <3>2, <3>3, tpm_tis_i2c_Receives, SilentRespects
  <2>5. CASE s.state = "READ_DATA"
    <3>1. s' = To(t, "IDLE")
      BY <1>1, <2>1, <2>2, <2>5 DEF tpm_tis_i2c_recv, tpm_tis_i2c_OK, tpm_tis_acknowledged
    <3>2. /\ s' \in tpm_tis_i2c_Types /\ s'.rep = <<>>
          /\ s'.state = "IDLE"
      BY <1>0, <1>1, <2>1, <2>2, <2>5, <3>1, ByteIsNat DEF tpm_tis_i2c_Types
    <3>3. tpm_tis_i2c_OK'
      BY <2>1, <2>2, <2>5, <3>2 DEF tpm_tis_i2c_OK
    <3>4. QED
      BY <2>1, <2>2, <3>2, <3>3, tpm_tis_i2c_Receives, SilentRespects
  <2>w. CASE s.state \notin {"IDLE", "WAIT_OP"} /\ s.state # "READ_DATA"
    <3>1. s' = [t EXCEPT !.rep = <<Remark>>, !.state = "IDLE"]
      BY <1>a, <1>1, <2>1, <2>2, <2>w DEF tpm_tis_i2c_recv, tpm_tis_i2c_OK, tpm_tis_acknowledged
    <3>2. /\ s' \in tpm_tis_i2c_Types /\ s'.rep = <<Remark>>
          /\ s'.state = "IDLE"
      BY <1>a, <1>0, <1>1, <2>1, <2>2, <2>w, <3>1, ByteIsNat DEF tpm_tis_i2c_Types
    <3>3. tpm_tis_i2c_OK'
      BY <2>1, <2>2, <2>w, <3>2 DEF tpm_tis_i2c_OK
    <3>7. Piece(Remark.bytes, Here'.bytes)
      <4>1. Here'.bytes \in Seq(Byte)
        BY <2>2
      <4>2. QED
        BY <1>a, <4>1, NonePiece
    <3>8. QED
      BY <1>a, <2>1, <2>2, <3>2, <3>3, <2>w, <3>7, tpm_tis_i2c_Receives, ReportRespects DEF tpm_tis_i2c_OK, Choosy
  <2>6. QED
    BY <2>w, <2>1, <2>2, <2>3, <2>4, <2>5 DEF tpm_tis_i2c_OK, tpm_tis_i2c_Types
<1>5. ASSUME NEW w \in {0, 1}, NEW a \in 0 .. 127, NEW q, NEW p, Addresses(w, a, q, p)
      PROVE  tpm_tis_i2c_OK' /\ Respects'
  <2>0. tpm_tis_i2c_recv(t, q) = t
    BY <1>5 DEF tpm_tis_i2c_recv, Addresses
  <2>1. /\ s' = tpm_tis_i2c_recv(t, p) /\ p.val = a
        /\ p.cmd = (IF w = 1 THEN "ADDRESS WRITE" ELSE "ADDRESS READ")
        /\ phase = "address" /\ phase' = "address_ack"
    <3>1. /\ s' = Recv(upper, Recv(upper, Hushed, q), p)
          /\ p.val = a
          /\ p.cmd = (IF w = 1 THEN "ADDRESS WRITE" ELSE "ADDRESS READ")
          /\ phase = "address" /\ phase' = "address_ack"
      BY <1>5 DEF Addresses
    <3>2. Recv(upper, Recv(upper, Hushed, q), p) = tpm_tis_i2c_recv(t, p)
      BY <1>2, <2>0, tpm_tis_i2c_Receives
    <3>3. QED
      BY <3>1, <3>2
  <2>2. /\ Here'.w = w /\ Here'.a = a /\ Here'.bytes = <<>>
        /\ xfer' # <<>> /\ xfer' \in Seq(PartTypes) /\ a \in Nat
    BY <1>5, AddressesPart
  <2>3. CASE s.state = "IDLE"
    <3>1. s' = t
      BY <1>1, <2>1, <2>2, <2>3 DEF tpm_tis_i2c_recv, tpm_tis_acknowledged
    <3>2. /\ s' \in tpm_tis_i2c_Types /\ s'.rep = <<>>
          /\ s'.state = "IDLE"
      BY <1>0, <1>1, <2>1, <2>2, <2>3, <3>1, ByteIsNat DEF tpm_tis_i2c_Types
    <3>3. tpm_tis_i2c_OK'
      BY <2>1, <2>2, <2>3, <3>2 DEF tpm_tis_i2c_OK
    <3>4. QED
      BY <2>1, <2>2, <3>2, <3>3, tpm_tis_i2c_Receives, SilentRespects
  <2>4. CASE s.state = "ADDR_WRITE" /\ w = 1
    <3>1. s' = To(t, "ADDR_ACK")
      BY <1>1, <2>1, <2>2, <2>4 DEF tpm_tis_i2c_recv, tpm_tis_acknowledged
    <3>2. /\ s' \in tpm_tis_i2c_Types /\ s'.rep = <<>>
          /\ s'.state = "ADDR_ACK"
      BY <1>0, <1>1, <2>1, <2>2, <2>4, <3>1, ByteIsNat DEF tpm_tis_i2c_Types
    <3>3. tpm_tis_i2c_OK'
      BY <2>1, <2>2, <2>4, <3>2 DEF tpm_tis_i2c_OK
    <3>4. QED
      BY <2>1, <2>2, <3>2, <3>3, tpm_tis_i2c_Receives, SilentRespects
  <2>5. CASE s.state = "ADDR_WRITE" /\ w # 1
    <3>1. s' = To(t, "IDLE")
      BY <1>1, <2>1, <2>2, <2>5 DEF tpm_tis_i2c_recv, tpm_tis_i2c_OK, tpm_tis_acknowledged
    <3>2. /\ s' \in tpm_tis_i2c_Types /\ s'.rep = <<>>
          /\ s'.state = "IDLE"
      BY <1>0, <1>1, <2>1, <2>2, <2>5, <3>1, ByteIsNat DEF tpm_tis_i2c_Types
    <3>3. tpm_tis_i2c_OK'
      BY <2>1, <2>2, <2>5, <3>2 DEF tpm_tis_i2c_OK
    <3>4. QED
      BY <2>1, <2>2, <3>2, <3>3, tpm_tis_i2c_Receives, SilentRespects
  <2>w. CASE s.state = "READ_ADDR_READ" /\ w = 1
    <3>1. s' = [t EXCEPT !.rep = <<Remark>>, !.state = "IDLE"]
      BY <1>a, <1>1, <2>1, <2>2, <2>w DEF tpm_tis_i2c_recv, tpm_tis_i2c_OK, tpm_tis_acknowledged
    <3>2. /\ s' \in tpm_tis_i2c_Types /\ s'.rep = <<Remark>>
          /\ s'.state = "IDLE"
      BY <1>a, <1>0, <1>1, <2>1, <2>2, <2>w, <3>1, ByteIsNat DEF tpm_tis_i2c_Types
    <3>3. tpm_tis_i2c_OK'
      BY <2>1, <2>2, <2>w, <3>2 DEF tpm_tis_i2c_OK
    <3>7. Piece(Remark.bytes, Here'.bytes)
      <4>1. Here'.bytes \in Seq(Byte)
        BY <1>0, <2>2
      <4>2. QED
        BY <1>a, <4>1, NonePiece
    <3>8. QED
      BY <1>a, <2>1, <2>2, <3>2, <3>3, <2>w, <3>7, tpm_tis_i2c_Receives, ReportRespects DEF tpm_tis_i2c_OK, Choosy
  <2>6. CASE s.state = "READ_ADDR_READ" /\ w # 1
    <3>1. s' = [t EXCEPT !.data = <<>>, !.state = "READ_ADDR_ACK"]
      BY <1>1, <2>1, <2>2, <2>6 DEF tpm_tis_i2c_recv, tpm_tis_acknowledged
    <3>2. /\ s' \in tpm_tis_i2c_Types /\ s'.rep = <<>>
          /\ s'.state = "READ_ADDR_ACK" /\ s'.data = <<>>
      BY <1>0, <1>1, <2>1, <2>2, <2>6, <3>1, ByteIsNat DEF tpm_tis_i2c_Types
    <3>5. Fills(<<>>, <<>>, 0, 256)
      BY <1>0, FillsNone, Len(<<>>) = 0, 256 \in Nat
    <3>3. tpm_tis_i2c_OK'
      BY <2>1, <2>2, <2>6, <3>2, <3>5 DEF tpm_tis_i2c_OK
    <3>4. QED
      BY <2>1, <2>2, <3>2, <3>3, tpm_tis_i2c_Receives, SilentRespects
  <2>7. QED
    BY <2>w, <2>1, <2>2, <2>3, <2>4, <2>5, <2>6 DEF tpm_tis_i2c_OK, tpm_tis_i2c_Types
<1>6. ASSUME NEW d \in Byte, NEW q, NEW p, Transfers(d, q, p)
      PROVE  tpm_tis_i2c_OK' /\ Respects'
  <2>0. tpm_tis_i2c_recv(t, q) = t
    BY <1>6 DEF tpm_tis_i2c_recv, Transfers
  <2>1. /\ s' = tpm_tis_i2c_recv(t, p) /\ p.val = d
        /\ p.cmd = (IF wr = 1 THEN "DATA WRITE" ELSE "DATA READ")
        /\ phase = "data" /\ phase' = "data_ack"
    <3>1. /\ s' = Recv(upper, Recv(upper, Hushed, q), p)
          /\ p.val = d
          /\ p.cmd = (IF wr = 1 THEN "DATA WRITE" ELSE "DATA READ")
          /\ phase = "data" /\ phase' = "data_ack"
      BY <1>6 DEF Transfers
    <3>2. Recv(upper, Recv(upper, Hushed, q), p) = tpm_tis_i2c_recv(t, p)
      BY <1>2, <2>0, tpm_tis_i2c_Receives
    <3>3. QED
      BY <3>1, <3>2
  <2>2. /\ Here'.w = Here.w /\ Here'.a = Here.a /\ Here'.bytes = Append(Here.bytes, d)
        /\ xfer' # <<>> /\ xfer' \in Seq(PartTypes) /\ Here.bytes \in Seq(Byte) /\ Here.w = wr
    BY <1>6, <2>1, TransfersPart, HereTyped DEF PartTypes
  <2>3. CASE s.state = "IDLE"
    <3>1. s' = t
      BY <1>1, <2>1, <2>2, <2>3 DEF tpm_tis_i2c_recv, tpm_tis_acknowledged
    <3>2. /\ s' \in tpm_tis_i2c_Types /\ s'.rep = <<>>
          /\ s'.state = "IDLE"
      BY <1>0, <1>1, <2>1, <2>2, <2>3, <3>1, ByteIsNat DEF tpm_tis_i2c_Types
    <3>3. tpm_tis_i2c_OK'
      BY <2>1, <2>2, <2>3, <3>2 DEF tpm_tis_i2c_OK
    <3>4. QED
      BY <2>1, <2>2, <3>2, <3>3, tpm_tis_i2c_Receives, SilentRespects
  <2>4. CASE s.state = "REG_ADDR" /\ wr = 1
    <3> DEFINE r == Report(-1, <<d>>)
    <3>1. -1 \in Subjects /\ <<d>> \in Seq(Byte)
      BY SubjectOf
    <3>2. /\ r.reg = -1 /\ r.bytes = <<d>> /\ <<r>> \in Seq(Reports)
          /\ Append(<<>>, r) = <<r>>
      BY <3>1, OneReport
    <3>3. s' = [Say(t, -1, <<d>>) EXCEPT !.tis_addr = d, !.state = "REG_ADDR_ACK"]
      BY <1>1, <2>1, <2>4 DEF tpm_tis_i2c_recv, tpm_tis_acknowledged
    <3>4. s' = [t EXCEPT !.rep = <<r>>, !.tis_addr = d, !.state = "REG_ADDR_ACK"]
      BY <1>1, <3>2, <3>3 DEF Say
    <3> HIDE DEF r
    <3>5. s' \in tpm_tis_i2c_Types /\ s'.rep = <<r>> /\ s'.state = "REG_ADDR_ACK"
      BY <1>1, <3>2, <3>4, ByteIsNat DEF tpm_tis_i2c_Types
    <3>a. Here.bytes = <<>>
      BY <2>1, <2>4 DEF tpm_tis_i2c_OK
    <3>b. Len(Here'.bytes) = 1
      BY <2>2, <3>a
    <3>6. tpm_tis_i2c_OK'
      BY <2>1, <2>2, <2>4, <3>5, <3>b DEF tpm_tis_i2c_OK
    <3>7. Piece(r.bytes, Here'.bytes)
      BY <2>2, <3>2, LastPiece
    <3>8. r.reg \in Subjects
      BY <3>1, <3>2
    <3>9. QED
      BY <2>1, <2>2, <2>4, <3>5, <3>6, <3>7, <3>8, tpm_tis_i2c_Receives, ReportRespects DEF tpm_tis_i2c_OK, Choosy
  <2>5. CASE s.state = "WAIT_OP" /\ wr = 1
    <3>1. s' = [t EXCEPT !.data = <<d>>, !.state = "WRITE_DATA_ACK"]
      BY <1>1, <2>1, <2>2, <2>5 DEF tpm_tis_i2c_recv, tpm_tis_acknowledged
    <3>5. Len(Here.bytes) = 1
      BY <2>1, <2>2, <2>5 DEF tpm_tis_i2c_OK
    <3>7. <<>> \in Seq(Byte) /\ Keep(<<>>, d, 256) = <<d>>
      BY DEF Keep
    <3>8. Fills(<<>>, Here.bytes, 1, 256)
      BY <2>2, <3>5, FillsNone, 256 \in Nat
    <3>9. /\ Keep(<<>>, d, 256) \in Seq(Byte)
          /\ Fills(Keep(<<>>, d, 256), Append(Here.bytes, d), 1, 256)
      <4>1. 1 \in Nat /\ 256 \in Nat /\ Here.bytes \in Seq(Byte) /\ <<>> \in Seq(Byte)
        BY <2>2, <3>7
      <4>2. QED
        BY <4>1, <3>8, FillsKeep
    <3>6. <<d>> \in Seq(Byte) /\ Fills(<<d>>, Here'.bytes, 1, 256)
      BY <2>2, <3>7, <3>9
    <3>2. /\ s' \in tpm_tis_i2c_Types /\ s'.rep = <<>>
          /\ s'.state = "WRITE_DATA_ACK" /\ s'.data = <<d>>
      BY <1>0, <1>1, <2>1, <2>2, <2>5, <3>1, ByteIsNat, <3>6 DEF tpm_tis_i2c_Types
    <3>3. tpm_tis_i2c_OK'
      BY <2>1, <2>2, <2>5, <3>2, <3>6 DEF tpm_tis_i2c_OK
    <3>4. QED
      BY <2>1, <2>2, <3>2, <3>3, tpm_tis_i2c_Receives, SilentRespects
  <2>6. CASE s.state = "READ_DATA" /\ wr # 1
    <3>1. s' = [t EXCEPT !.data = Keep(s.data, d, 256)]
      BY <1>1, <2>1, <2>2, <2>6 DEF tpm_tis_i2c_recv, tpm_tis_acknowledged
    <3>6. Keep(s.data, d, 256) \in Seq(Byte) /\ Fills(Keep(s.data, d, 256), Here'.bytes, 0, 256)
      BY <2>2, <2>6, FillsKeep, 0 \in Nat, 256 \in Nat DEF tpm_tis_i2c_OK, tpm_tis_i2c_Types
    <3>2. /\ s' \in tpm_tis_i2c_Types /\ s'.rep = <<>>
          /\ s'.state = "READ_DATA" /\ s'.data = Keep(s.data, d, 256)
      BY <1>0, <1>1, <2>1, <2>2, <2>6, <3>1, ByteIsNat, <3>6 DEF tpm_tis_i2c_Types
    <3>3. tpm_tis_i2c_OK'
      BY <2>1, <2>2, <2>6, <3>2, <3>6 DEF tpm_tis_i2c_OK
    <3>4. QED
      BY <2>1, <2>2, <3>2, <3>3, tpm_tis_i2c_Receives, SilentRespects
  <2>7. CASE s.state = "WRITE_DATA" /\ wr = 1
    <3>1. s' = [t EXCEPT !.data = Keep(s.data, d, 256), !.state = "WRITE_DATA_ACK"]
      BY <1>1, <2>1, <2>2, <2>7 DEF tpm_tis_i2c_recv, tpm_tis_acknowledged
    <3>6. Keep(s.data, d, 256) \in Seq(Byte) /\ Fills(Keep(s.data, d, 256), Here'.bytes, 1, 256)
      BY <2>2, <2>7, FillsKeep, 1 \in Nat, 256 \in Nat DEF tpm_tis_i2c_OK, tpm_tis_i2c_Types
    <3>2. /\ s' \in tpm_tis_i2c_Types /\ s'.rep = <<>>
          /\ s'.state = "WRITE_DATA_ACK" /\ s'.data = Keep(s.data, d, 256)
      BY <1>0, <1>1, <2>1, <2>2, <2>7, <3>1, ByteIsNat, <3>6 DEF tpm_tis_i2c_Types
    <3>3. tpm_tis_i2c_OK'
      BY <2>1, <2>2, <2>7, <3>2, <3>6 DEF tpm_tis_i2c_OK
    <3>4. QED
      BY <2>1, <2>2, <3>2, <3>3, tpm_tis_i2c_Receives, SilentRespects
  <2>8. CASE s.state = "READ_DATA" /\ wr = 1
    <3>1. s' = To(t, "IDLE")
      BY <1>1, <2>1, <2>2, <2>8 DEF tpm_tis_i2c_recv, tpm_tis_i2c_OK, tpm_tis_acknowledged
    <3>2. /\ s' \in tpm_tis_i2c_Types /\ s'.rep = <<>>
          /\ s'.state = "IDLE"
      BY <1>0, <1>1, <2>1, <2>2, <2>8, <3>1, ByteIsNat DEF tpm_tis_i2c_Types
    <3>3. tpm_tis_i2c_OK'
      BY <2>1, <2>2, <2>8, <3>2 DEF tpm_tis_i2c_OK
    <3>4. QED
      BY <2>1, <2>2, <3>2, <3>3, tpm_tis_i2c_Receives, SilentRespects
  <2>w. CASE s.state \in {"REG_ADDR", "WAIT_OP", "WRITE_DATA"} /\ wr # 1
    <3>1. s' = [t EXCEPT !.rep = <<Remark>>, !.state = "IDLE"]
      BY <1>a, <1>1, <2>1, <2>2, <2>w DEF tpm_tis_i2c_recv, tpm_tis_i2c_OK, tpm_tis_acknowledged
    <3>2. /\ s' \in tpm_tis_i2c_Types /\ s'.rep = <<Remark>>
          /\ s'.state = "IDLE"
      BY <1>a, <1>0, <1>1, <2>1, <2>2, <2>w, <3>1, ByteIsNat DEF tpm_tis_i2c_Types
    <3>3. tpm_tis_i2c_OK'
      BY <2>1, <2>2, <2>w, <3>2 DEF tpm_tis_i2c_OK
    <3>7. Piece(Remark.bytes, Here'.bytes)
      <4>1. Here'.bytes \in Seq(Byte)
        BY <2>2
      <4>2. QED
        BY <1>a, <4>1, NonePiece
    <3>8. QED
      BY <1>a, <2>1, <2>2, <3>2, <3>3, <2>w, <3>7, tpm_tis_i2c_Receives, ReportRespects DEF tpm_tis_i2c_OK, Choosy
  <2>9. QED
    BY <2>w, <2>1, <2>2, <2>3, <2>4, <2>5, <2>6, <2>7, <2>8 DEF tpm_tis_i2c_OK, tpm_tis_i2c_Types
<1>7. ASSUME NEW p, Acknowledges(p)
      PROVE  tpm_tis_i2c_OK' /\ Respects'
  <2>1. /\ s' = tpm_tis_i2c_recv(t, p) /\ p.cmd \in {"ACK", "NACK"}
        /\ phase \in {"address_ack", "data_ack"} /\ phase' = "data" /\ xfer' = xfer
    BY <1>2, <1>7, tpm_tis_i2c_Receives DEF Acknowledges
  <2>2. /\ Here' = Here /\ Here.bytes \in Seq(Byte)
        /\ xfer' # <<>> /\ xfer' \in Seq(PartTypes)
    BY <2>1, HereTyped
  <2>3. CASE s.state \in {"IDLE", "READ_DATA"}
    <3>1. s' = t
      BY <1>1, <2>1, <2>2, <2>3 DEF tpm_tis_i2c_recv, tpm_tis_acknowledged
    <3>2. /\ s' \in tpm_tis_i2c_Types /\ s'.rep = <<>>
          /\ s'.state = s.state /\ s'.data = s.data
      BY <1>0, <1>1, <2>1, <2>2, <2>3, <3>1, ByteIsNat DEF tpm_tis_i2c_Types
    <3>3. tpm_tis_i2c_OK'
      BY <2>1, <2>2, <2>3, <3>2 DEF tpm_tis_i2c_OK
    <3>4. QED
      BY <2>1, <2>2, <3>2, <3>3, tpm_tis_i2c_Receives, SilentRespects
  <2>4. CASE s.state \notin {"IDLE", "READ_DATA"} /\ p.cmd = "NACK"
    <3>1. s' = To(t, "IDLE")
      BY <1>1, <2>1, <2>2, <2>4 DEF tpm_tis_i2c_recv, tpm_tis_i2c_OK, tpm_tis_acknowledged
    <3>2. /\ s' \in tpm_tis_i2c_Types /\ s'.rep = <<>>
          /\ s'.state = "IDLE"
      BY <1>0, <1>1, <2>1, <2>2, <2>4, <3>1, ByteIsNat DEF tpm_tis_i2c_Types
    <3>3. tpm_tis_i2c_OK'
      BY <2>1, <2>2, <2>4, <3>2 DEF tpm_tis_i2c_OK
    <3>4. QED
      BY <2>1, <2>2, <3>2, <3>3, tpm_tis_i2c_Receives, SilentRespects
  <2>5. CASE s.state = "ADDR_ACK" /\ p.cmd = "ACK"
    <3>1. s' = To(t, "REG_ADDR")
      BY <1>1, <2>1, <2>2, <2>5 DEF tpm_tis_i2c_recv, tpm_tis_acknowledged
    <3>2. /\ s' \in tpm_tis_i2c_Types /\ s'.rep = <<>>
          /\ s'.state = "REG_ADDR" /\ s'.data = s.data
      BY <1>0, <1>1, <2>1, <2>2, <2>5, <3>1, ByteIsNat DEF tpm_tis_i2c_Types
    <3>3. tpm_tis_i2c_OK'
      BY <2>1, <2>2, <2>5, <3>2 DEF tpm_tis_i2c_OK
    <3>4. QED
      BY <2>1, <2>2, <3>2, <3>3, tpm_tis_i2c_Receives, SilentRespects
  <2>6. CASE s.state = "REG_ADDR_ACK" /\ p.cmd = "ACK"
    <3>1. s' = To(t, "WAIT_OP")
      BY <1>1, <2>1, <2>2, <2>6 DEF tpm_tis_i2c_recv, tpm_tis_acknowledged
    <3>2. /\ s' \in tpm_tis_i2c_Types /\ s'.rep = <<>>
          /\ s'.state = "WAIT_OP" /\ s'.data = s.data
      BY <1>0, <1>1, <2>1, <2>2, <2>6, <3>1, ByteIsNat DEF tpm_tis_i2c_Types
    <3>3. tpm_tis_i2c_OK'
      BY <2>1, <2>2, <2>6, <3>2 DEF tpm_tis_i2c_OK
    <3>4. QED
      BY <2>1, <2>2, <3>2, <3>3, tpm_tis_i2c_Receives, SilentRespects
  <2>7. CASE s.state = "READ_ADDR_ACK" /\ p.cmd = "ACK"
    <3>1. s' = To(t, "READ_DATA")
      BY <1>1, <2>1, <2>2, <2>7 DEF tpm_tis_i2c_recv, tpm_tis_acknowledged
    <3>2. /\ s' \in tpm_tis_i2c_Types /\ s'.rep = <<>>
          /\ s'.state = "READ_DATA" /\ s'.data = s.data
      BY <1>0, <1>1, <2>1, <2>2, <2>7, <3>1, ByteIsNat DEF tpm_tis_i2c_Types
    <3>3. tpm_tis_i2c_OK'
      BY <2>1, <2>2, <2>7, <3>2 DEF tpm_tis_i2c_OK
    <3>4. QED
      BY <2>1, <2>2, <3>2, <3>3, tpm_tis_i2c_Receives, SilentRespects
  <2>8. CASE s.state = "WRITE_DATA_ACK" /\ p.cmd = "ACK"
    <3>1. s' = To(t, "WRITE_DATA")
      BY <1>1, <2>1, <2>2, <2>8 DEF tpm_tis_i2c_recv, tpm_tis_acknowledged
    <3>2. /\ s' \in tpm_tis_i2c_Types /\ s'.rep = <<>>
          /\ s'.state = "WRITE_DATA" /\ s'.data = s.data
      BY <1>0, <1>1, <2>1, <2>2, <2>8, <3>1, ByteIsNat DEF tpm_tis_i2c_Types
    <3>3. tpm_tis_i2c_OK'
      BY <2>1, <2>2, <2>8, <3>2 DEF tpm_tis_i2c_OK
    <3>4. QED
      BY <2>1, <2>2, <3>2, <3>3, tpm_tis_i2c_Receives, SilentRespects
  <2>9. QED
    BY <2>1, <2>2, <2>3, <2>4, <2>5, <2>6, <2>7, <2>8 DEF tpm_tis_i2c_OK, tpm_tis_i2c_Types
<1>8. ASSUME NEW p, Stops(p)
      PROVE  tpm_tis_i2c_OK' /\ Respects'
  <2>1. /\ s' = tpm_tis_i2c_recv(t, p) /\ p.cmd = "STOP"
        /\ phase = "data" /\ phase' = "stopped" /\ xfer' = xfer
    BY <1>2, <1>8, tpm_tis_i2c_Receives DEF Stops
  <2>2. /\ Here' = Here /\ Here.bytes \in Seq(Byte)
        /\ xfer' # <<>> /\ xfer' \in Seq(PartTypes)
    BY <2>1, HereTyped
  <2>3. CASE s.state = "IDLE"
    <3>1. s' = t
      BY <1>1, <2>1, <2>2, <2>3 DEF tpm_tis_i2c_recv, tpm_tis_acknowledged
    <3>2. /\ s' \in tpm_tis_i2c_Types /\ s'.rep = <<>>
          /\ s'.state = "IDLE"
      BY <1>0, <1>1, <2>1, <2>2, <2>3, <3>1, ByteIsNat DEF tpm_tis_i2c_Types
    <3>3. tpm_tis_i2c_OK'
      BY <2>1, <2>2, <2>3, <3>2 DEF tpm_tis_i2c_OK
    <3>4. QED
      BY <2>1, <2>2, <3>2, <3>3, tpm_tis_i2c_Receives, SilentRespects
  <2>4. CASE s.state = "WAIT_OP"
    <3>1. s' = [t EXCEPT !.data = <<>>, !.state = "IDLE"]
      BY <1>1, <2>1, <2>2, <2>4 DEF tpm_tis_i2c_recv, tpm_tis_acknowledged
    <3>2. /\ s' \in tpm_tis_i2c_Types /\ s'.rep = <<>>
          /\ s'.state = "IDLE"
      BY <1>0, <1>1, <2>1, <2>2, <2>4, <3>1, ByteIsNat DEF tpm_tis_i2c_Types
    <3>3. tpm_tis_i2c_OK'
      BY <2>1, <2>2, <2>4, <3>2 DEF tpm_tis_i2c_OK
    <3>4. QED
      BY <2>1, <2>2, <3>2, <3>3, tpm_tis_i2c_Receives, SilentRespects
  <2>5. CASE s.state = "REG_ADDR"
    <3>1. s' = [t EXCEPT !.rep = <<Remark>>, !.state = "IDLE"]
      BY <1>a, <1>1, <2>1, <2>2, <2>5 DEF tpm_tis_i2c_recv, tpm_tis_i2c_OK, tpm_tis_acknowledged
    <3>2. /\ s' \in tpm_tis_i2c_Types /\ s'.rep = <<Remark>>
          /\ s'.state = "IDLE"
      BY <1>a, <1>0, <1>1, <2>1, <2>2, <2>5, <3>1, ByteIsNat DEF tpm_tis_i2c_Types
    <3>3. tpm_tis_i2c_OK'
      BY <2>1, <2>2, <2>5, <3>2 DEF tpm_tis_i2c_OK
    <3>7. Piece(Remark.bytes, Here'.bytes)
      <4>1. Here'.bytes \in Seq(Byte)
        BY <2>2
      <4>2. QED
        BY <1>a, <4>1, NonePiece
    <3>8. QED
      BY <1>a, <2>1, <2>2, <3>2, <3>3, <2>5, <3>7, tpm_tis_i2c_Receives, ReportRespects DEF tpm_tis_i2c_OK, Choosy
  <2>6. CASE s.state \in {"READ_DATA", "WRITE_DATA"}
    <3>1. s' = To(tpm_tis_output_transaction(t), "IDLE")
      BY <1>1, <2>1, <2>2, <2>6 DEF tpm_tis_i2c_recv, tpm_tis_acknowledged
    <3>2. s.tis_addr \in Subjects /\ s.data \in Seq(Byte)
      <4>1. s.tis_addr \in Nat /\ s.data \in Seq(Byte)
        BY <1>1 DEF tpm_tis_i2c_Types
      <4>2. QED
        BY <4>1, SubjectOf
    <3> DEFINE r == Report(s.tis_addr, s.data)
               u == Say(t, s.tis_addr, s.data)
    <3>3. /\ r.reg = s.tis_addr /\ r.bytes = s.data /\ <<r>> \in Seq(Reports)
          /\ Append(<<>>, r) = <<r>> /\ Last(<<r>>) = r
      BY <3>2, OneReport
    <3>a. u = [t EXCEPT !.rep = <<r>>]
      BY <1>1, <3>3 DEF Say
    <3>b. s' = [u EXCEPT !.state = "IDLE"]
      BY <1>1, <2>6, <3>1 DEF Say, tpm_tis_output_transaction
    <3> HIDE DEF r, u
    <3>4. /\ u \in tpm_tis_i2c_Types /\ u.rep = <<r>>
          /\ u.state = s.state /\ u.tis_addr = s.tis_addr /\ u.data = s.data
      BY <1>1, <3>3, <3>a DEF tpm_tis_i2c_Types
    <3>5. /\ s' \in tpm_tis_i2c_Types /\ s'.rep = <<r>>
          /\ s'.state = "IDLE"
      BY <1>0, <1>1, <2>1, <2>2, <2>6, <3>b, <3>4, ByteIsNat DEF tpm_tis_i2c_Types
    <3>6. tpm_tis_i2c_OK'
      BY <2>1, <2>2, <2>6, <3>5 DEF tpm_tis_i2c_OK
    <3>7. Piece(r.bytes, Here'.bytes)
      <4>1. s.data \in Seq(Byte) /\ \E o \in {0, 1} : Window(s.data, Here.bytes, o)
        BY <2>6 DEF tpm_tis_i2c_OK, tpm_tis_i2c_Types, Fills
      <4>2. 0 \in Nat /\ 1 \in Nat
        OBVIOUS
      <4>3. QED
        BY <2>2, <3>3, <4>1, <4>2, WindowPiece
    <3>9. QED
      BY <2>1, <2>2, <2>6, <3>2, <3>3, <3>5, <3>6, <3>7, tpm_tis_i2c_Receives, ReportRespects DEF tpm_tis_i2c_OK, Choosy
  <2>7. QED
    BY <2>1, <2>2, <2>3, <2>4, <2>5, <2>6 DEF tpm_tis_i2c_OK, tpm_tis_i2c_Types
<1>9. CASE Resets
  <2>1. s' = tpm_tis_i2c_reset /\ phase' = "stopped"
    BY <1>9, tpm_tis_i2c_Receives DEF Resets
  <2>2. s' \in tpm_tis_i2c_Types /\ s'.rep = <<>> /\ s'.state = "IDLE"
    BY <1>0, <2>1 DEF tpm_tis_i2c_reset, tpm_tis_i2c_Types, Byte
  <2>3. tpm_tis_i2c_OK'
    BY <2>1, <2>2 DEF tpm_tis_i2c_OK
  <2>4. QED
    BY <2>1, <2>2, <2>3, tpm_tis_i2c_Receives, SilentRespects
<1>10. QED
  BY <1>3, <1>4, <1>5, <1>6, <1>7, <1>8, <1>9 DEF Steps

\* It begins there, and stays there while nothing happens.
LEMMA tpm_tis_i2c_Begin ==
  ASSUME upper = "tpm_tis_i2c", phase = "stopped", s = ResetOf(upper)
  PROVE  tpm_tis_i2c_OK /\ Respects
<1>1. s = tpm_tis_i2c_reset
  BY tpm_tis_i2c_Receives
<1>2. <<>> \in Seq(Reports) /\ <<>> \in Seq(Byte)
  BY RepTyped
<1>3. tpm_tis_i2c_reset \in tpm_tis_i2c_Types /\ tpm_tis_i2c_reset.rep = <<>> /\ tpm_tis_i2c_reset.state = "IDLE"
  BY ONLY <1>2 DEF tpm_tis_i2c_reset, tpm_tis_i2c_Types, Byte
<1>4. tpm_tis_i2c_OK
  BY <1>1, <1>3 DEF tpm_tis_i2c_OK, Within
<1>5. QED
  BY <1>1, <1>3, <1>4, SilentBegins

LEMMA tpm_tis_i2c_Idle ==
  ASSUME tpm_tis_i2c_OK, UNCHANGED vars
  PROVE  tpm_tis_i2c_OK'
BY DEF tpm_tis_i2c_OK, vars, Within, Here, Met

-----------------------------------------------------------------------------
(* ad5593r, atsha204a and eeprom24xx: no packet other than a STOP matters   *)
(* to what is shown of them.                                               *)

Plain == {"ad5593r", "atsha204a", "eeprom24xx"}

Plain_OK ==
    /\ DOMAIN s = DOMAIN ResetOf(upper)
    /\ phase = "stopped" => s.state = ResetOf(upper).state

\* The decoder keeps its fields, and returns to its first state at a STOP.
Settles(u) ==
    \A st, p : DOMAIN st = DOMAIN ResetOf(u) =>
        /\ DOMAIN Recv(u, st, p) = DOMAIN ResetOf(u)
        /\ p.cmd = "STOP" => Recv(u, st, p).state = ResetOf(u).state

LEMMA ad5593r_Settles == Settles("ad5593r")
<1>1. \A st, p : Recv("ad5593r", st, p) = ad5593r_recv(st, p)
  BY DEF Recv
<1>2. ResetOf("ad5593r") = ad5593r_reset
  BY DEF ResetOf
<1>3. ASSUME NEW st, NEW p, DOMAIN st = DOMAIN ad5593r_reset
      PROVE  /\ DOMAIN ad5593r_recv(st, p) = DOMAIN ad5593r_reset
             /\ p.cmd = "STOP" => ad5593r_recv(st, p).state = ad5593r_reset.state
  <2>1. DOMAIN ad5593r_recv(st, p) = DOMAIN st
    BY DEF ad5593r_recv, ad5593r_handle_data_bytes, ad5593r_handle_pointer_byte, Say, To
  <2>2. p.cmd = "STOP" => ad5593r_recv(st, p).state = "IDLE"
    <3>1. "state" \in DOMAIN st
      BY <1>3 DEF ad5593r_reset
    <3>2. To(st, "IDLE").state = "IDLE"
      BY <3>1 DEF To
    <3>3. p.cmd = "STOP" => ad5593r_recv(st, p) = To(st, "IDLE")
      BY DEF ad5593r_recv, IsData, IsAddress
    <3>4. QED
      BY <3>2, <3>3
  <2>3. QED
    BY <1>3, <2>1, <2>2 DEF ad5593r_reset
<1>4. QED
  BY <1>1, <1>2, <1>3 DEF Settles

LEMMA atsha204a_Settles == Settles("atsha204a")
<1>1. \A st, p : Recv("atsha204a", st, p) = atsha204a_recv(st, p)
  BY DEF Recv
<1>2. ResetOf("atsha204a") = atsha204a_reset
  BY DEF ResetOf
<1>3. ASSUME NEW st, NEW p, DOMAIN st = DOMAIN atsha204a_reset
      PROVE  /\ DOMAIN atsha204a_recv(st, p) = DOMAIN atsha204a_reset
             /\ p.cmd = "STOP" => atsha204a_recv(st, p).state = atsha204a_reset.state
  <2>1. /\ DOMAIN atsha204a_output_rx_bytes(st) = DOMAIN st
        /\ DOMAIN atsha204a_output_tx_bytes(st) = DOMAIN st
    BY DEF atsha204a_output_rx_bytes, atsha204a_output_tx_bytes, Say
  <2>2. DOMAIN atsha204a_recv(st, p) = DOMAIN st
    BY <2>1 DEF atsha204a_recv, To
  <2>3. p.cmd = "STOP" => atsha204a_recv(st, p).state = "IDLE"
    BY <1>3, <2>1 DEF atsha204a_recv, To, atsha204a_reset
  <2>4. QED
    BY <1>3, <2>2, <2>3 DEF atsha204a_reset
<1>4. QED
  BY <1>1, <1>2, <1>3 DEF Settles

LEMMA eeprom24xx_Settles == Settles("eeprom24xx")
<1>1. \A st, p : Recv("eeprom24xx", st, p) = eeprom24xx_recv(st, p)
  BY DEF Recv
<1>2. ResetOf("eeprom24xx") = eeprom24xx_reset
  BY DEF ResetOf
<1>3. ASSUME NEW st, NEW p, DOMAIN st = DOMAIN eeprom24xx_reset
      PROVE  /\ DOMAIN eeprom24xx_recv(st, p) = DOMAIN eeprom24xx_reset
             /\ p.cmd = "STOP" => eeprom24xx_recv(st, p).state = eeprom24xx_reset.state
  <2>1. ASSUME NEW v PROVE /\ DOMAIN eeprom24xx_put_word_addr(v) = DOMAIN v
                           /\ \A i : DOMAIN eeprom24xx_put_data_bytes(v, i) = DOMAIN v
    BY DEF eeprom24xx_put_word_addr, eeprom24xx_put_data_bytes, Say
  <2>2. ASSUME NEW v PROVE DOMAIN eeprom24xx_put_operation(v) = DOMAIN v
    BY <2>1 DEF eeprom24xx_put_operation, Say
  <2>3. ASSUME NEW v, DOMAIN v = DOMAIN st
        PROVE  /\ DOMAIN eeprom24xx_reset_variables(v) = DOMAIN st
               /\ eeprom24xx_reset_variables(v).state = "WAIT_FOR_START"
    BY <1>3, <2>3 DEF eeprom24xx_reset_variables, eeprom24xx_reset
  <2>4. ASSUME NEW op
        PROVE  /\ DOMAIN eeprom24xx_finish(st, op) = DOMAIN st
               /\ eeprom24xx_finish(st, op).state = "WAIT_FOR_START"
    <3> DEFINE v == [st EXCEPT !.op = op]
    <3>1. DOMAIN eeprom24xx_put_operation(v) = DOMAIN st
      BY <2>2
    <3>2. eeprom24xx_finish(st, op) = eeprom24xx_reset_variables(eeprom24xx_put_operation(v))
      BY DEF eeprom24xx_finish
    <3>3. QED
      BY <2>3, <3>1, <3>2
  <2>5. DOMAIN eeprom24xx_recv(st, p) = DOMAIN st
    BY <2>3, <2>4 DEF eeprom24xx_recv, eeprom24xx_append, To
  <2>6. p.cmd = "STOP" => eeprom24xx_recv(st, p).state = "WAIT_FOR_START"
    BY <1>3, <2>3, <2>4 DEF eeprom24xx_recv
  <2>7. QED
    BY <1>3, <2>5, <2>6 DEF eeprom24xx_reset
<1>4. QED
  BY <1>1, <1>2, <1>3 DEF Settles

LEMMA Plain_Step ==
  ASSUME upper \in Plain, upper' = upper, Plain_OK, Steps
  PROVE  Plain_OK' /\ Respects'
<1>1. Settles(upper)
  BY ad5593r_Settles, atsha204a_Settles, eeprom24xx_Settles DEF Plain
<1>2. Hushed = [s EXCEPT !.rep = <<>>]
  BY DEF Hushed, Silenced, Plain, Relays, Forwarders
<1>3. DOMAIN Hushed = DOMAIN ResetOf(upper)
  BY <1>2 DEF Plain_OK
<1>4. Plain_OK'
  <2>1. CASE Resets
    BY <2>1 DEF Resets, Plain_OK
  <2>2. ASSUME NEW p, Starts(p) \/ Repeats(p) \/ Stops(p) \/ Acknowledges(p) PROVE Plain_OK'
    <3>1. s' = Recv(upper, Hushed, p) /\ (phase' = "stopped" => p.cmd = "STOP")
      BY <2>2 DEF Starts, Repeats, Stops, Acknowledges
    <3>2. QED
      BY <1>1, <1>3, <3>1 DEF Plain_OK, Settles
  <2>3. ASSUME NEW q, NEW p, s' = Recv(upper, Recv(upper, Hushed, q), p), phase' # "stopped"
        PROVE  Plain_OK'
    <3>1. DOMAIN Recv(upper, Hushed, q) = DOMAIN ResetOf(upper)
      BY <1>1, <1>3 DEF Settles
    <3>2. QED
      BY <1>1, <2>3, <3>1 DEF Plain_OK, Settles
  <2>4. QED
    BY <2>1, <2>2, <2>3 DEF Steps, Addresses, Transfers
<1>5. Respects'
  BY <1>4 DEF Plain, Plain_OK, Respects, AtRest, OnlyItsOwn, BytesOfPart,
    PieceOfPart, DateOfClock, Choosing, Choosy, Quoting
<1>6. QED
  BY <1>4, <1>5

LEMMA Plain_Begin ==
  ASSUME upper \in Plain, s = ResetOf(upper)
  PROVE  Plain_OK /\ Respects
BY DEF Plain, Plain_OK, Respects, AtRest, OnlyItsOwn, BytesOfPart,
    PieceOfPart, DateOfClock, Choosing, Choosy, Quoting

-----------------------------------------------------------------------------
(* All decoders.                                                           *)

\* The inductive invariant: the bus keeps its rules, and the decoder that is
\* stacked on it is where its own invariant says.
DecoderOK ==
    /\ upper = "tmp102" => tmp102_OK
    /\ upper = "bh1750" => bh1750_OK
    /\ upper = "tcs3472x" => tcs3472x_OK
    /\ upper = "mpu6050" => mpu6050_OK
    /\ upper = "mxc6225xu" => mxc6225xu_OK
    /\ upper = "ds1307" => ds1307_OK
    /\ upper = "ds3231" => ds3231_OK
    /\ upper = "rtc8564" => rtc8564_OK
    /\ upper = "pca9571" => pca9571_OK
    /\ upper = "hdmi_scdc" => hdmi_scdc_OK
    /\ upper = "tpm_tis_i2c" => tpm_tis_i2c_OK
    /\ upper \in Plain => Plain_OK

DevicesInv == BusOK /\ DecoderOK /\ Respects

\* Nothing is said of the others.
Followed ==
    {"tmp102", "bh1750", "tcs3472x", "mpu6050",
     "mxc6225xu", "ds1307", "ds3231", "rtc8564",
     "pca9571", "hdmi_scdc", "tpm_tis_i2c"} \cup Plain

LEMMA OthersRespect == upper \notin Followed => Respects
BY DEF Followed, Plain, Respects, AtRest, OnlyItsOwn, BytesOfPart, PieceOfPart,
  DateOfClock, Tidy, Choosing, Choosy, Quoting

LEMMA OthersStillRespect ==
  ASSUME upper' = upper, upper \notin Followed
  PROVE  Respects'
BY DEF Followed, Plain, Respects, AtRest, OnlyItsOwn, BytesOfPart, PieceOfPart,
  DateOfClock, Tidy, Choosing, Choosy, Quoting

LEMMA DevicesInit ==
  ASSUME Init
  PROVE  DevicesInv
<1>1. phase = "stopped" /\ wr = -1 /\ xfer = <<>> /\ s = ResetOf(upper)
  BY DEF Init, Events!Init
<1>2. BusOK
  BY <1>1 DEF BusOK, Events!Phases
<1>3. CASE upper = "tmp102"
  BY <1>1, <1>2, <1>3, tmp102_Begin DEF DevicesInv, DecoderOK, Plain
<1>4. CASE upper = "bh1750"
  BY <1>1, <1>2, <1>4, bh1750_Begin DEF DevicesInv, DecoderOK, Plain
<1>5. CASE upper = "tcs3472x"
  BY <1>1, <1>2, <1>5, tcs3472x_Begin DEF DevicesInv, DecoderOK, Plain
<1>6. CASE upper = "mpu6050"
  BY <1>1, <1>2, <1>6, mpu6050_Begin DEF DevicesInv, DecoderOK, Plain
<1>7. CASE upper = "mxc6225xu"
  BY <1>1, <1>2, <1>7, mxc6225xu_Begin DEF DevicesInv, DecoderOK, Plain
<1>8. CASE upper = "ds1307"
  BY <1>1, <1>2, <1>8, ds1307_Begin DEF DevicesInv, DecoderOK, Plain
<1>9. CASE upper = "ds3231"
  BY <1>1, <1>2, <1>9, ds3231_Begin DEF DevicesInv, DecoderOK, Plain
<1>10. CASE upper = "rtc8564"
  BY <1>1, <1>2, <1>10, rtc8564_Begin DEF DevicesInv, DecoderOK, Plain
<1>11. CASE upper = "pca9571"
  BY <1>1, <1>2, <1>11, pca9571_Begin DEF DevicesInv, DecoderOK, Plain
<1>12. CASE upper = "hdmi_scdc"
  BY <1>1, <1>2, <1>12, hdmi_scdc_Begin DEF DevicesInv, DecoderOK, Plain
<1>13. CASE upper = "tpm_tis_i2c"
  BY <1>1, <1>2, <1>13, tpm_tis_i2c_Begin DEF DevicesInv, DecoderOK, Plain
<1>14. CASE upper \in Plain
  BY <1>1, <1>2, <1>14, Plain_Begin DEF DevicesInv, DecoderOK, Plain
<1>15. CASE upper \notin Followed
  BY <1>2, <1>15, OthersRespect DEF DevicesInv, DecoderOK, Followed
<1>16. QED
  BY <1>3, <1>4, <1>5, <1>6, <1>7, <1>8, <1>9, <1>10, <1>11, <1>12, <1>13, <1>14, <1>15 DEF Followed

LEMMA DevicesStep ==
  ASSUME DevicesInv, Next
  PROVE  DevicesInv' /\ (upper = "ds1307" => Registered)
<1>1. BusOK /\ BusOK' /\ DecoderOK
  BY BusHolds DEF DevicesInv
<1>2. Steps /\ upper' = upper
  BY <1>1, NextSteps
<1>3. CASE upper = "tmp102"
  BY <1>1, <1>2, <1>3, tmp102_Step DEF DevicesInv, DecoderOK, Plain
<1>4. CASE upper = "bh1750"
  BY <1>1, <1>2, <1>4, bh1750_Step DEF DevicesInv, DecoderOK, Plain
<1>5. CASE upper = "tcs3472x"
  BY <1>1, <1>2, <1>5, tcs3472x_Step DEF DevicesInv, DecoderOK, Plain
<1>6. CASE upper = "mpu6050"
  BY <1>1, <1>2, <1>6, mpu6050_Step DEF DevicesInv, DecoderOK, Plain
<1>7. CASE upper = "mxc6225xu"
  BY <1>1, <1>2, <1>7, mxc6225xu_Step DEF DevicesInv, DecoderOK, Plain
<1>8. CASE upper = "ds1307"
  BY <1>1, <1>2, <1>8, ds1307_Step DEF DevicesInv, DecoderOK, Plain
<1>9. CASE upper = "ds3231"
  BY <1>1, <1>2, <1>9, ds3231_Step DEF DevicesInv, DecoderOK, Plain
<1>10. CASE upper = "rtc8564"
  BY <1>1, <1>2, <1>10, rtc8564_Step DEF DevicesInv, DecoderOK, Plain
<1>11. CASE upper = "pca9571"
  BY <1>1, <1>2, <1>11, pca9571_Step DEF DevicesInv, DecoderOK, Plain
<1>12. CASE upper = "hdmi_scdc"
  BY <1>1, <1>2, <1>12, hdmi_scdc_Step DEF DevicesInv, DecoderOK, Plain
<1>13. CASE upper = "tpm_tis_i2c"
  BY <1>1, <1>2, <1>13, tpm_tis_i2c_Step DEF DevicesInv, DecoderOK, Plain
<1>14. CASE upper \in Plain
  BY <1>1, <1>2, <1>14, Plain_Step DEF DevicesInv, DecoderOK, Plain
<1>15. CASE upper \notin Followed
  BY <1>1, <1>2, <1>15, OthersStillRespect DEF DevicesInv, DecoderOK, Followed
<1>16. QED
  BY <1>3, <1>4, <1>5, <1>6, <1>7, <1>8, <1>9, <1>10, <1>11, <1>12, <1>13, <1>14, <1>15 DEF Followed

LEMMA DevicesIdle ==
  ASSUME DevicesInv, UNCHANGED vars
  PROVE  DevicesInv'
<1>1. BusOK'
  BY DEF DevicesInv, BusOK, vars
<1>2. Respects'
  BY DEF DevicesInv, Respects, AtRest, OnlyItsOwn, BytesOfPart, PieceOfPart, DateOfClock, vars
<1>3. upper' = upper /\ DecoderOK
  BY DEF DevicesInv, vars
<1>4. (upper \in Plain => Plain_OK)'
  BY <1>3 DEF DecoderOK, Plain_OK, vars
<1>5. DecoderOK'
  BY <1>3, <1>4, tmp102_Idle, bh1750_Idle, tcs3472x_Idle, mpu6050_Idle,
     mxc6225xu_Idle, ds1307_Idle, ds3231_Idle, rtc8564_Idle,
     pca9571_Idle, hdmi_scdc_Idle, tpm_tis_i2c_Idle
  DEF DecoderOK
<1>6. QED
  BY <1>1, <1>2, <1>5 DEF DevicesInv

\* The bus and every decoder on it stay inside the inductive invariant.
THEOREM DevicesHold == Spec => []DevicesInv
<1>1. DevicesInv /\ [Next]_vars => DevicesInv'
  BY DevicesStep, DevicesIdle
<1>2. QED
  BY <1>1, DevicesInit, PTL DEF Spec

\* Once the bus is free, a decoder that looks at the STOP is back in its first
\* state, however the transfer was cut short (the STOP arms of the *_recv_proto
\* functions).
THEOREM RestsWhenFree == Spec => []AtRest
<1>1. DevicesInv => AtRest
  BY DEF DevicesInv, Respects
<1>2. QED
  BY <1>1, DevicesHold, PTL

\* In a part for another chip a decoder that checks the address of its own puts
\* out its warning (ds1307_c.c:291-305, pca9571_c.c:111-118, ...) and nothing
\* else, naming the address on the bus where it is not taken from a kept one;
\* hdmi_scdc_c.c puts nothing out before its chip has been addressed.
THEOREM ReportsItsOwn == Spec => []OnlyItsOwn
<1>1. DevicesInv => OnlyItsOwn
  BY DEF DevicesInv, Respects
<1>2. QED
  BY <1>1, DevicesHold, PTL

\* What a report about a register shows was transferred byte after byte in the
\* part on the bus: the decoders' own buffers lose, repeat and keep nothing.
\* Reports that are put together from kept values are apart: of the DS1307's
\* date (ds1307_c.c:135-147) every byte was on the bus for its register.
THEOREM ReportsBusBytes == Spec => []BytesOfPart
<1>1. DevicesInv => BytesOfPart
  BY DEF DevicesInv, Respects
<1>2. QED
  BY <1>1, DevicesHold, PTL

\* The register that ds1307_c.c counts along with is the chip's pointer
\* whenever a byte is reported, across repeated STARTs and the wrap at 0x3f; only
\* the warning about another chip and the date are no reports of a register.
THEOREM RegisterFollows == Spec => RegisterIsDevices
<1>1. DevicesInv /\ [Next]_vars =>
        [upper = "ds1307" /\ s'.rep # <<>> => Last(s'.rep).reg \in {ptr, Warning, Summary}]_vars
  BY DevicesStep DEF Registered
<1>2. QED
  BY <1>1, DevicesHold, PTL DEF Spec, RegisterIsDevices
=============================================================================
