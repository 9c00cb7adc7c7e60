------------------------------ MODULE DnsMessage ------------------------------
(***************************************************************************)
(* The messages of the DNS client (DNSQuery, netutils/dns.h): the query it *)
(* writes, and how it reads a reply that any server may lay out in its own *)
(* way: compressed names, several answers, answers of other types.  Offsets*)
(* count from 0, as in the code.  An int is its four bytes, most           *)
(* significant first; the machine is little-endian.                        *)
(*                                                                         *)
(* The server is external: it writes a reply one answer at a time, in any  *)
(* way RFC 1035 allows, and every state holds a reply it might send.       *)
(* Malformed replies are not modelled.                                     *)
(***************************************************************************)
EXTENDS Integers, FiniteSets, Sequences
SX == INSTANCE SequencesExt

CONSTANTS
    Questions,  \* host names asked for: sequences of labels, split at the dots
    Names,      \* what a server may name in its answers: sequences of labels
    Addresses,  \* addresses: four bytes
    TransId,    \* the transaction id of the query: two bytes
    MaxAnswers  \* answers in one reply

Bytes == 0..255
Label == {l \in Seq(33..126) : Len(l) <= 63} \* printable ASCII; longer ones make no query

ASSUME IdAssumption == TransId \in Bytes \X Bytes
\* A name without a dot would be asked for as the root.
ASSUME HostAssumption == \A h \in Questions : h \in Seq(Label) /\ Len(h) >= 2
ASSUME AddressAssumption == \A a \in Addresses : a \in [1..4 -> Bytes]
\* The servers that are asked have few answers; their number has 16 bits.
ASSUME AnswersAssumption == MaxAnswers \in Bytes

VARIABLES
    host,    \* the host asked for
    reply,   \* the bytes written so far, with the number of answers in the header
    answers, \* how many answers are in it
    truth,   \* the addresses among them, in order
    placed   \* the names written: offset |-> labels

replyVars == <<host, reply, answers, truth, placed>>

At(m, i)   == IF i < Len(m) THEN m[i + 1] ELSE 0
Word16(m, i) == 256 * At(m, i) + At(m, i + 1)
check_index(m, i) == i >= 0 /\ i < Len(m)

INT_MAX == 2147483647
Refused == [ok |-> FALSE, ips |-> <<>>]

\* A label's length has its top bits clear; with both set, two bytes are a pointer.
IsPointer(b) == b >= 192

-----------------------------------------------------------------------------
(* The query.                                                               *)

\* split_string: the parts that are not empty, but none at all without a dot.
split_string(parts) ==
    IF Len(parts) < 2 THEN <<>>
    ELSE SX!FlattenSeq([i \in 1..Len(parts) |-> IF parts[i] = <<>> THEN <<>> ELSE <<parts[i]>>])

Labels(labels) == SX!FlattenSeq([i \in 1..Len(labels) |-> <<Len(labels[i])>> \o labels[i]])

\* With its end, a name has 255 bytes at most.
ASSUME NamesAssumption == \A n \in Names : n \in Seq(Label \ {<<>>}) /\ Len(Labels(n)) < 255

\* Empty when a label is too long.
dns_query(parts) ==
    LET labels == split_string(parts)
    IN IF \E i \in 1..Len(labels) : Len(labels[i]) > 63 THEN <<>>
       ELSE TransId \o <<1, 0, 0, 1, 0, 0, 0, 0, 0, 0>> \o Labels(labels)
              \o <<0>> \o <<0, 1>> \o <<0, 1>>

\* What is asked for fits the buffer of the query.
ASSUME QueryAssumption == \A h \in Questions : Len(dns_query(h)) <= 256

-----------------------------------------------------------------------------
(* Reading a reply.                                                         *)

\* get_message_name: what the name at offset at says, and the offset after it.  Having
\* read at more places than there are bytes it was somewhere twice, and never returns.
get_message_name(m, at) ==
    LET Name[left \in 0..Len(m)] == [i \in Nat |->
            LET b == At(m, i)
                pointer == 256 * (b - 192) + At(m, i + 1)
                From(j) == IF left = 0 THEN [labels |-> <<>>, next |-> INT_MAX] ELSE Name[left - 1][j]
            IN IF IsPointer(b) THEN [labels |-> From(pointer).labels, next |-> i + 2]
               ELSE IF ~check_index(m, i) THEN [labels |-> <<>>, next |-> Len(m)]
               ELSE IF b = 0 THEN [labels |-> <<>>, next |-> i + 1]
               ELSE LET rest == From(i + 1 + b)
                        label == IF i + 1 + b <= Len(m) THEN <<SubSeq(m, i + 2, i + 1 + b)>>
                                 ELSE <<>>
                    IN [labels |-> label \o rest.labels, next |-> rest.next]]
    IN Name[Len(m)][at]

\* calc_message_name_size: bytes are passed over until a 0 or a pointer.
NameSizeLabelsOnly(m, i) ==
    LET ends == {k \in i..(Len(m) - 1) : At(m, k) = 0}
    IN IF ends = {} THEN INT_MAX ELSE SX!Min(ends) - i + 1

calc_message_name_size(m, i) ==
    LET ends == {k \in i..(Len(m) - 1) : At(m, k) = 0 \/ IsPointer(At(m, k))}
        last == SX!Min(ends)
    IN IF ends = {} THEN INT_MAX
       ELSE last - i + (IF IsPointer(At(m, last)) THEN 2 ELSE 1)

\* *(int* ) on a little-endian machine, then the swap for Java.
LoadInt(m, i) == <<At(m, i + 3), At(m, i + 2), At(m, i + 1), At(m, i)>>
int_for_java(ips) == [k \in 1..Len(ips) |-> SX!Reverse(ips[k])]

\* analyze_rrs: n answers from offset start, taken to be 16 bytes long at least; the
\* addresses of those that are A and IN.
RrsAnyLength(m, start, n) ==
    LET Rrs[k \in 0..n] == [i \in Nat |->
            LET type == i + calc_message_name_size(m, i)
                data == type + 10
            IN IF k = 0 \/ ~check_index(m, type) THEN <<>>
               ELSE (IF Word16(m, type) = 1 /\ Word16(m, type + 2) = 1
                     THEN <<LoadInt(m, data)>> ELSE <<>>)
                    \o Rrs[k - 1][data + 4]]
    IN IF start + n * 16 > Len(m) THEN Refused ELSE [ok |-> TRUE, ips |-> Rrs[n][start]]

analyze_rrs(m, start, n) ==
    LET Rrs[k \in 0..n] == [i \in Nat |->
            LET type == i + calc_message_name_size(m, i)
                len  == Word16(m, type + 8)
                data == type + 10
                unread == {j \in {type, type + 2, type + 8} : ~check_index(m, j)}
                isA  == Word16(m, type) = 1 /\ Word16(m, type + 2) = 1 /\ len = 4
            IN IF k = 0 THEN <<>>
               ELSE IF unread # {} THEN Rrs[k - 1][SX!Min(unread)]
               ELSE (IF isA /\ check_index(m, data) THEN <<LoadInt(m, data)>> ELSE <<>>)
                    \o Rrs[k - 1][data + len]]
    IN IF ~check_index(m, start) \/ start + n * 16 > Len(m) THEN Refused
       ELSE [ok |-> TRUE, ips |-> Rrs[n][start]]

\* analyze_queries: one question, of type A and class IN, and where the answers begin.
analyze_queries(m) ==
    LET type == get_message_name(m, 12).next
    IN [ok |-> /\ check_index(m, 12) /\ check_index(m, type + 4)
               /\ Word16(m, type) = 1 /\ Word16(m, type + 2) = 1,
        next |-> type + 4]

\* analyze_flags: a response, recursion asked for and available, no error.
analyze_flags(m) ==
    /\ At(m, 2) >= 128 /\ At(m, 2) % 2 = 1
    /\ At(m, 3) >= 128 /\ At(m, 3) % 16 = 0

analyze_header(m) ==
    /\ Len(m) >= 12
    /\ <<At(m, 0), At(m, 1)>> = TransId
    /\ analyze_flags(m)
    /\ Word16(m, 4) = 1

\* analyze: whether the reply is accepted, and the addresses.
analyze(m) ==
    LET query == analyze_queries(m)
        n     == Word16(m, 6)
    IN IF ~analyze_header(m) \/ ~query.ok THEN Refused
       ELSE IF n = 0 THEN [ok |-> TRUE, ips |-> <<>>]
       ELSE analyze_rrs(m, query.next, n)

-----------------------------------------------------------------------------
(* The server.                                                              *)

\* The ways to write a name where the names in placed are already there: labels,
\* then the end, or a pointer to where the rest has been written in full labels.
Suffix(name, k) == SubSeq(name, k + 1, Len(name))
Pointers(rest) == {<<192 + o \div 256, o % 256>> :
                      o \in {o \in DOMAIN placed : placed[o] = rest /\ o < 16384}}
Encodings(name) ==
    UNION {{Labels(SubSeq(name, 1, k)) \o tail :
              tail \in IF k = Len(name) THEN {<<0>>} ELSE Pointers(Suffix(name, k))}
           : k \in 0..Len(name)}

\* A name written at offset o places each of its suffixes that begins with a label.
Offsets(name, code, o) ==
    LET LabelAt(k) == o + Len(Labels(SubSeq(name, 1, k)))
    IN {[at |-> LabelAt(k), name |-> Suffix(name, k)] : k \in {k \in 0..Len(name) :
           k = 0 \/ (k < Len(name) /\ LabelAt(k) < o + Len(code))}}

Place(set) == [o \in DOMAIN placed \cup {e.at : e \in set} |->
    IF o \in DOMAIN placed THEN placed[o] ELSE (CHOOSE e \in set : e.at = o).name]

\* The question comes back, with the flags of a recursive server, without an error.
Header(n) == TransId \o <<129, 128>> \o <<0, 1>> \o <<0, n>> \o <<0, 0, 0, 0>>

ReplyInit ==
    /\ host \in Questions
    /\ answers = 0 /\ truth = <<>>
    /\ LET asked == dns_query(host)
           name  == split_string(host)
           starts == Offsets(name, Labels(name), 12)
       IN /\ reply = Header(0) \o SubSeq(asked, 13, Len(asked))
          /\ placed = [o \in {e.at : e \in starts} |-> (CHOOSE e \in starts : e.at = o).name]

\* One more answer: its owner, type, class, time to live, and data of some length.
Append1(owner, code, type, class, data) ==
    /\ answers < MaxAnswers
    /\ answers' = answers + 1
    /\ reply' = Header(answers') \o SubSeq(reply, 13, Len(reply)) \o code
                  \o <<0, type>> \o <<0, class>> \o <<0, 0, 1, 44>> \o <<0, Len(data)>> \o data
    /\ UNCHANGED host

AnswerA(owner, code, class, address) ==
    /\ Append1(owner, code, 1, class, address)
    /\ truth' = IF class = 1 THEN Append(truth, address) ELSE truth
    /\ placed' = Place(Offsets(owner, code, Len(reply)))

\* CNAME and NS carry a name, itself compressed.
AnswerName(owner, code, type, target, data) ==
    /\ Append1(owner, code, type, 1, data)
    /\ truth' = truth
    /\ placed' = Place(Offsets(owner, code, Len(reply))
                         \cup Offsets(target, data, Len(reply) + Len(code) + 10))

\* AAAA, SOA and the types the client does not know: some bytes, that may look
\* like anything.
AnswerOther(owner, code, type, data) ==
    /\ Append1(owner, code, type, 1, data)
    /\ truth' = truth
    /\ placed' = Place(Offsets(owner, code, Len(reply)))

ReplyNext ==
    \E owner \in Names : \E code \in Encodings(owner) :
        \/ \E class \in {1, 3}, a \in Addresses : AnswerA(owner, code, class, a)
        \/ \E type \in {2, 5}, target \in Names : \E data \in Encodings(target) :
               AnswerName(owner, code, type, target, data)
        \/ \E type \in {6, 28, 16} :
               AnswerOther(owner, code, type, [i \in 1..(type \div 2) |-> 192])

ReplySpec == ReplyInit /\ [][ReplyNext]_replyVars

-----------------------------------------------------------------------------
(* What is checked.                                                         *)

\* The variables have their types, and an address read is four bytes.
ReplyTypeOK ==
    /\ host \in Questions /\ answers \in 0..MaxAnswers
    /\ \A i \in 1..Len(reply) : reply[i] \in Bytes
    /\ \A i \in 1..Len(truth) : truth[i] \in Addresses
    /\ \A i \in 1..Len(analyze(reply).ips) : analyze(reply).ips[i] \in [1..4 -> Bytes]
    /\ \A o \in DOMAIN placed : o >= 12 /\ o < Len(reply)

\* Wherever a name begins, in the question, in an owner or in the data of an
\* answer, and however it is compressed, get_message_name reads the name that was
\* written and ends where calc_message_name_size jumps to.
NamesRead ==
    \A o \in DOMAIN placed :
        LET name == get_message_name(reply, o)
        IN /\ name.labels = placed[o]
           /\ name.next - o = calc_message_name_size(reply, o)

\* What may follow the answers: nothing, or an OPT record.
Tails == {<<>>, <<0, 0, 41, 2, 0, 0, 0, 0, 0, 0, 0>>}

\* A reply that is accepted gives exactly its IPv4 addresses, in order and in the
\* byte order Java shows; one that is refused has no answer and nothing after the
\* question, or less than 16 bytes an answer (an alias that is all pointer has 14).
Understood ==
    \A tail \in Tails :
        LET m     == reply \o tail
            r     == analyze(m)
            start == analyze_queries(m).next
        IN IF r.ok THEN int_for_java(r.ips) = truth
           ELSE \/ answers = 0 /\ tail = <<>>
                \/ Len(m) - start < 16 * answers

=============================================================================
