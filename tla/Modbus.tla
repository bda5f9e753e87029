------------------------------- MODULE Modbus -------------------------------
(***************************************************************************)
(* One Modbus transaction, byte by byte: the request the master packs, the *)
(* response the slave packs from its tables, the bytes the master reads    *)
(* and what it unpacks.                                                    *)
(*   src/control/modbus/modbus_rtu.c                                       *)
(*   src/control/modbus/agile_modbus/agile_modbus.c, agile_modbus_rtu.c,   *)
(*   agile_modbus_slave_util.c                                             *)
(* The checksum is a mark with the length of what it covers. The buffers   *)
(* are large enough for every message (260 bytes). The line is flushed     *)
(* before each request, so a reply that was late is gone; one that comes   *)
(* after the flush is left out.                                            *)
(***************************************************************************)
EXTENDS Integers, Sequences, SequencesExt, Bitwise

CONSTANTS
  Maps,      \* external: the mapped ranges of the slave, <<first, last>> in order
  Addresses, \* bound: first addresses asked for
  Counts,    \* bound: numbers of values asked for
  MaxCalls   \* bound: transactions

Value == {1, 300}          \* bound: values written
Mapped == UNION {m[1]..m[2] : m \in Maps}
Slave == 1
ReadBits == {1, 2}         \* coils, discrete inputs
ReadWords == {3, 4}        \* holding registers, input registers
WriteBit == 5
WriteWord == 6
WriteBits == 15
WriteWords == 16
MaskWord == 22
WriteAndRead == 23
Function == ReadBits \cup ReadWords
              \cup {WriteBit, WriteWord, WriteBits, WriteWords, MaskWord, WriteAndRead}
Table(function) == IF function \in {1, 2, 5, 15} THEN "bits" ELSE "words"

VARIABLES
  held,    \* external: the tables of the slave
  asked,   \* the last call of the master
  got,     \* its status and what it read
  before,  \* history: held before the call
  left,    \* number of bytes of the response the master did not read
  calls    \* bound counter

vars == <<held, asked, got, before, left, calls>>
-----------------------------------------------------------------------------
Hi(n) == n \div 256
Lo(n) == n % 256
Word(msg, i) == 256 * msg[i] + msg[i + 1]
Bytes(nb) == nb \div 8 + (IF nb % 8 # 0 THEN 1 ELSE 0)
WordsToBytes(words) == FlattenSeq([i \in DOMAIN words |-> <<Hi(words[i]), Lo(words[i])>>])
BytesToWords(bytes) == [i \in 1..(Len(bytes) \div 2) |-> Word(bytes, 2 * i - 1)]

\* Eight bits to a byte, the first one lowest.
BitAt(bits, i) == IF i <= Len(bits) THEN bits[i] ELSE 0
BitsToBytes(bits) ==
  [k \in 1..Bytes(Len(bits)) |->
     FoldLeftDomain(LAMBDA acc, j : acc + BitAt(bits, 8 * (k - 1) + j) * 2^(j - 1),
                    0, [j \in 1..8 |-> 0])]
\* A mutant: the bits of a byte from the highest.
HighBitFirst(bytes, nb) ==
  [i \in 1..nb |-> (bytes[(i - 1) \div 8 + 1] \div 2^(7 - ((i - 1) % 8))) % 2]
BytesToBits(bytes, nb) ==
  [i \in 1..nb |-> (bytes[(i - 1) \div 8 + 1] \div 2^((i - 1) % 8)) % 2]

build_request_basis(function, addr, nb) ==
  <<Slave, function, Hi(addr), Lo(addr), Hi(nb), Lo(nb)>>
Mark(msg) == <<256, Len(msg)>>
send_msg_pre(msg) == msg \o Mark(msg)
check_integrity(msg) == SubSeq(msg, Len(msg) - 1, Len(msg)) = Mark(SubSeq(msg, 1, Len(msg) - 2))
-----------------------------------------------------------------------------
(***************************************************************************)
(* The request. A call is a record: what a function does not use is 0.     *)
(***************************************************************************)
Most(function) ==
  CASE function \in ReadBits -> 2000
    [] function \in ReadWords \cup {WriteAndRead} -> 125
    [] function = WriteBits -> 1968
    [] function = WriteWords -> 123
    [] OTHER -> 1

Refused(c) ==
  \/ c.nb > Most(c.function)
  \/ c.function = WriteAndRead /\ Len(c.src) > 121

Request(c) ==
  send_msg_pre(
    CASE c.function \in ReadBits \cup ReadWords ->
           build_request_basis(c.function, c.addr, c.nb)
      [] c.function = WriteBit ->
           build_request_basis(c.function, c.addr, IF c.src[1] # 0 THEN 65280 ELSE 0)
      [] c.function = WriteWord -> build_request_basis(c.function, c.addr, c.src[1])
      [] c.function = WriteBits ->
           build_request_basis(c.function, c.addr, c.nb) \o <<Bytes(c.nb)>> \o BitsToBytes(c.src)
      [] c.function = WriteWords ->
           build_request_basis(c.function, c.addr, c.nb) \o <<2 * c.nb>> \o WordsToBytes(c.src)
      [] c.function = MaskWord ->
           SubSeq(build_request_basis(c.function, c.addr, 0), 1, 4) \o WordsToBytes(c.src)
      [] c.function = WriteAndRead ->
           build_request_basis(c.function, c.addr, c.nb)
             \o <<Hi(c.addr + 1), Lo(c.addr + 1), Hi(Len(c.src)), Lo(Len(c.src)), 2 * Len(c.src)>>
             \o WordsToBytes(c.src))
-----------------------------------------------------------------------------
(***************************************************************************)
(* The slave. Addresses that no map holds read as 0 and swallow writes.    *)
(* The loops over the maps step from the end of one map to the next.       *)
(***************************************************************************)
MapOf(a) == {m \in Maps : m[1] <= a /\ a <= m[2]}

read_registers(table, address, nb) ==
  [i \in 1..nb |-> IF MapOf(address + i - 1) # {} THEN table[address + i - 1] ELSE 0]

write_registers(table, address, data) ==
  [a \in Mapped |->
     IF address <= a /\ a < address + Len(data) THEN data[a - address + 1] ELSE table[a]]

mask_write(table, address, and, or) ==
  [a \in Mapped |-> IF a = address THEN (table[a] & and) + (or - (or & and)) ELSE table[a]]

IllegalAddress == 2
IllegalValue == 3

\* 0, or the code of the exception. A single write is checked for its value only.
ExceptionOf(req) ==
  LET function == req[2]
      address == Word(req, 3)
      nb == Word(req, 5)
      TooMany == nb < 1 \/ nb > Most(function)
      PastEnd == address + nb - 1 > 65535
  IN CASE function \in ReadBits \cup ReadWords ->
            IF TooMany THEN IllegalValue ELSE IF PastEnd THEN IllegalAddress ELSE 0
       [] function = WriteBit -> IF nb \in {0, 65280} THEN 0 ELSE IllegalValue
       [] function = WriteBits ->
            IF TooMany \/ req[7] * 8 < nb THEN IllegalValue
            ELSE IF PastEnd THEN IllegalAddress ELSE 0
       [] function = WriteWords ->
            IF TooMany \/ req[7] # nb * 2 THEN IllegalValue
            ELSE IF PastEnd THEN IllegalAddress ELSE 0
       [] function = WriteAndRead ->
            IF TooMany \/ Word(req, 9) \notin 1..121 \/ req[11] # 2 * Word(req, 9)
            THEN IllegalValue
            ELSE IF PastEnd \/ Word(req, 7) + Word(req, 9) - 1 > 65535
                 THEN IllegalAddress ELSE 0
       [] OTHER -> 0

\* The table after the request: it is written before it is read.
Written(table, req) ==
  LET address == Word(req, 3)
      data(first) == SubSeq(req, first, Len(req) - 2)
  IN CASE req[2] = WriteBit ->
            write_registers(table, address, <<IF Word(req, 5) # 0 THEN 1 ELSE 0>>)
       [] req[2] = WriteWord -> write_registers(table, address, <<Word(req, 5)>>)
       [] req[2] = WriteBits ->
            write_registers(table, address, BytesToBits(data(8), Word(req, 5)))
       [] req[2] = WriteWords -> write_registers(table, address, BytesToWords(data(8)))
       [] req[2] = MaskWord -> mask_write(table, address, Word(req, 5), Word(req, 7))
       [] req[2] = WriteAndRead ->
            write_registers(table, Word(req, 7), BytesToWords(data(12)))
       [] OTHER -> table

Response(table, req) ==
  LET function == req[2]
      Data == read_registers(table, Word(req, 3), Word(req, 5))
      body == IF function \in ReadBits THEN BitsToBytes(Data) ELSE WordsToBytes(Data)
  IN send_msg_pre(
       IF ExceptionOf(req) # 0 THEN <<req[1], function + 128, ExceptionOf(req)>>
       ELSE CASE function \in ReadBits \cup ReadWords \cup {WriteAndRead} ->
                   <<req[1], function, Len(body)>> \o body
              [] function \in {WriteBit, WriteWord, MaskWord} -> SubSeq(req, 1, Len(req) - 2)
              [] OTHER -> SubSeq(req, 1, 6))
-----------------------------------------------------------------------------
(***************************************************************************)
(* The master reads as many bytes as the function of the response says.    *)
(* (modbus_master_receive knows no masked write: its caller hands the      *)
(* whole message to agile_modbus_receive_judge.)                           *)
(***************************************************************************)
ExpectedLength(rsp) ==
  CASE rsp[2] >= 128 -> 5
    [] rsp[2] \in ReadBits \cup ReadWords \cup {WriteAndRead} -> 3 + rsp[3] + 2
    [] rsp[2] = MaskWord -> 10
    [] OTHER -> 8

\* agile_modbus_receive_msg_judge: what follows the function, then the data, then the checksum.
MessageLength(rsp) ==
  LET meta == IF rsp[2] \in {5, 6, 15, 16} THEN 4 ELSE IF rsp[2] = MaskWord THEN 6 ELSE 1
      data == IF rsp[2] <= 4 \/ rsp[2] = WriteAndRead THEN rsp[3] ELSE 0
  IN 2 + meta + data + 2

ComputedLength(req) ==
  1 + (CASE req[2] \in ReadBits -> 2 + Bytes(Word(req, 5))
         [] req[2] \in ReadWords \cup {WriteAndRead} -> 2 + 2 * Word(req, 5)
         [] req[2] = MaskWord -> 7
         [] OTHER -> 5) + 2

check_confirmation(req, rsp) ==
  LET exception == rsp[2] >= 128
      same ==
        CASE rsp[2] \in ReadBits -> Bytes(Word(req, 5)) = rsp[3]
          [] rsp[2] \in ReadWords \cup {WriteAndRead} -> Word(req, 5) = rsp[3] \div 2
          [] rsp[2] \in {WriteBits, WriteWords} -> Word(req, 5) = Word(rsp, 5)
          [] OTHER -> TRUE
  IN CASE req[1] # rsp[1] -> "bad"
       [] exception -> IF Len(rsp) = 5 /\ req[2] = rsp[2] - 128 THEN "exception" ELSE "bad"
       [] OTHER -> IF Len(rsp) = ComputedLength(req) /\ rsp[2] = req[2] /\ same
                   THEN "ok" ELSE "bad"

deserialize(c, req, msg) ==
  LET n == MessageLength(msg)
      rsp == SubSeq(msg, 1, n)
      status == IF n > Len(msg) \/ ~check_integrity(rsp) THEN "bad"
                ELSE check_confirmation(req, rsp)
      body == SubSeq(rsp, 4, n - 2)
  IN [status |-> status,
      data |-> CASE status # "ok" \/ c.function \notin ReadBits \cup ReadWords \cup {WriteAndRead}
                      -> <<>>
                 [] c.function \in ReadBits -> BytesToBits(body, c.nb)
                 [] OTHER -> BytesToWords(body)]
-----------------------------------------------------------------------------
NoCall == [function |-> 0, addr |-> 0, nb |-> 0, src |-> <<>>]

Init ==
  /\ held = [t \in {"bits", "words"} |-> [a \in Mapped |-> a % 2]]
  /\ asked = NoCall
  /\ got = [status |-> "none", data |-> <<>>]
  /\ before = held
  /\ left = 0
  /\ calls = 0

Sources(function, nb) ==
  CASE function \in ReadBits \cup ReadWords -> {<<>>}
    [] function = WriteBit -> {<<0>>, <<1>>}
    [] function = WriteWord -> {<<v>> : v \in Value}
    [] function = WriteBits -> {[i \in 1..nb |-> (i + k) % 2] : k \in {0, 1}}
    [] function = MaskWord -> {<<65534, 3>>, <<255, 256>>}
    [] OTHER -> {[i \in 1..nb |-> v + i] : v \in Value}

Transaction ==
  /\ calls < MaxCalls
  /\ calls' = calls + 1
  /\ \E f \in Function, a \in Addresses, n \in Counts : \E s \in Sources(f, n) :
       LET c == [function |-> f, addr |-> a,
                 nb |-> IF f \in {WriteBit, WriteWord, MaskWord} THEN 1 ELSE n, src |-> s]
           req == Request(c)
           table == held[Table(f)]
           after == IF ExceptionOf(req) = 0 THEN Written(table, req) ELSE table
           rsp == Response(after, req)
       IN /\ asked' = c
          /\ before' = held
          /\ IF Refused(c)
             THEN /\ got' = [status |-> "refused", data |-> <<>>]
                  /\ left' = 0
                  /\ UNCHANGED held
             ELSE /\ got' = deserialize(c, req, SubSeq(rsp, 1, ExpectedLength(rsp)))
                  /\ left' = Len(rsp) - ExpectedLength(rsp)
                  /\ held' = [held EXCEPT ![Table(f)] = after]

Next == Transaction

Spec == Init /\ [][Next]_vars
-----------------------------------------------------------------------------
Reads(c) == c.function \in ReadBits \cup ReadWords \cup {WriteAndRead}
Inside(c) ==
  /\ c.nb >= 1 /\ c.addr + c.nb - 1 <= 65535
  /\ c.function = WriteAndRead => c.addr + c.nb <= 65535
FirstWritten(c) == IF c.function = WriteAndRead THEN c.addr + 1 ELSE c.addr

(***************************************************************************)
(* A call succeeds just when its addresses exist; then it has read what    *)
(* the slave holds, bit by bit or word by word, and the slave holds what   *)
(* was written, at those addresses and no others. Any other call changes   *)
(* nothing. The master has read every byte of the response: none is left   *)
(* for the next call.                                                      *)
(***************************************************************************)
TransactionRight ==
  calls > 0 =>
    LET c == asked
        now == held[Table(c.function)]
        old == before[Table(c.function)]
        written(a) == a \in FirstWritten(c)..(FirstWritten(c) + Len(c.src) - 1)
    IN /\ left = 0
       /\ got.status # "bad"
       /\ got.status = "ok" <=> Inside(c) /\ ~Refused(c)
       /\ got.status # "ok" => held = before
       /\ got.status = "ok" =>
            /\ Reads(c) => got.data = [i \in 1..c.nb |->
                 IF c.addr + i - 1 \in Mapped THEN now[c.addr + i - 1] ELSE 0]
            /\ c.function # MaskWord => \A a \in Mapped :
                 now[a] = IF written(a) THEN c.src[a - FirstWritten(c) + 1] ELSE old[a]
=============================================================================
