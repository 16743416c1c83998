------------------------------ MODULE NetDevices ------------------------------
(***************************************************************************)
(* The sampler of net_dev.c against a kernel that goes on meanwhile:       *)
(* net_dev_sample reads the files of every interface twice and turns the   *)
(* difference of its byte counters into speeds and a use of the bandwidth. *)
(* Between any two files bytes pass, interfaces vanish or appear, and      *)
(* links change their speed.  A speed is known by the numbers that         *)
(* string_to_u64 makes of its characters: -3 for '-', 0 to 9 for digits.   *)
(***************************************************************************)
EXTENDS Integers, Sequences

CONSTANTS
    Nets,        \* the names of interfaces
    Wrap,        \* 2^64, of the byte counters
    Range64,     \* 2^64, of the arithmetic on the speed of a link
    MB,          \* 1024 * 1024
    LinkTexts,   \* what each file "speed" can say, stripped; <<>> if reading fails
    UNSEEN, CHANGED

ASSUME NetAssumption ==
    /\ Wrap \in Nat \ {0} /\ Range64 \in Nat \ {0} /\ MB \in Nat \ {0}
    /\ UNSEEN # CHANGED /\ {UNSEEN, CHANGED} \cap (Nat \cup Nets) = {}

\* The number that a text says, without the limits of a word.
Said(text) ==
    LET said[k \in 0..Len(text)] == IF k = 0 THEN 0 ELSE 10 * said[k - 1] + text[k]
    IN  said[Len(text)]

\* A word and a megabyte are whole numbers of eights, and no link is so fast
\* that its speed in bytes leaves the word; -1 is what an unknown speed says.
ASSUME LinkAssumption ==
    /\ Range64 % 8 = 0 /\ Range64 >= 32 /\ MB % 8 = 0 /\ 4 * MB < Range64
    /\ \A d \in Nets : \A text \in LinkTexts[d] :
          text = <<-3, 1>> \/ (text \in Seq(0..9) /\ Said(text) * MB < Range64)

VARIABLES
    up,          \* the interfaces the kernel has
    bytes,       \* their counters rx_bytes and tx_bytes
    net_pc,      \* the sampler's place; the next file while it reads one
    net_turn,    \* the reading it takes: "a" or "b"
    net_cur,     \* the directory entry at hand, as far as it is read
    nets,        \* devs_a and devs_b: a record per interface read
    net_stayed,  \* history: the interfaces there since the directory was opened
    passed       \* history: the bytes that really passed between the two
                 \* readings of a counter, UNSEEN without a first one,
                 \* CHANGED if another interface has its name since

netKernel == <<up, bytes>>
netVars   == <<netKernel, net_pc, net_turn, net_cur, nets, net_stayed, passed>>

Ways     == {"rx", "tx"}
NoNets   == [d \in {} |-> UNSEEN]
Blank    == [name |-> UNSEEN, rx |-> 0, tx |-> 0, speed |-> <<>>, unit |-> "",
             rx_speed |-> 0, tx_speed |-> 0, use |-> <<0, 1>>]
NoneSeen == [d \in Nets |-> [w \in Ways |-> UNSEEN]]

NetInit ==
    /\ up = Nets
    /\ bytes = [d \in Nets |-> [w \in Ways |-> 0]]
    /\ net_pc = "scan" /\ net_turn = "a" /\ net_cur = Blank
    /\ nets = [a |-> NoNets, b |-> NoNets]
    /\ net_stayed = Nets
    /\ passed = NoneSeen

-----------------------------------------------------------------------------
(* The kernel.                                                             *)

\* The second reading of this counter is still to come.
Waiting(d, w) == /\ d \notin DOMAIN nets.b
                 /\ ~(net_turn = "b" /\ net_cur.name = d /\ net_pc = "tx" /\ w = "rx")

Window(d, w) == passed[d][w] \notin {UNSEEN, CHANGED} /\ Waiting(d, w)
Counted(d, w) == IF passed[d][w] \in Nat THEN passed[d][w] ELSE 0

\* Between two readings fewer than Wrap bytes pass, or no counter could tell.
\* Those that pass at other times only make a counter start elsewhere; here
\* it starts where the round before left it.
Pass(d, w) ==
    /\ d \in up
    /\ Window(d, w) /\ Counted(d, "rx") + Counted(d, "tx") + 1 < Wrap
    /\ bytes' = [bytes EXCEPT ![d][w] = (@ + 1) % Wrap]
    /\ passed' = [passed EXCEPT ![d][w] = @ + 1]
    /\ UNCHANGED <<up, net_pc, net_turn, net_cur, nets, net_stayed>>

Vanish(d) ==
    /\ d \in up
    /\ up' = up \ {d} /\ net_stayed' = net_stayed \ {d}
    /\ bytes' = [bytes EXCEPT ![d] = [w \in Ways |-> 0]]
    /\ passed' = [passed EXCEPT ![d] =
                     [w \in Ways |-> IF Window(d, w) THEN CHANGED ELSE @[w]]]
    /\ UNCHANGED <<net_pc, net_turn, net_cur, nets>>

Appear(d) ==
    /\ d \notin up
    /\ up' = up \cup {d}
    /\ UNCHANGED <<bytes, net_pc, net_turn, net_cur, nets, net_stayed, passed>>

-----------------------------------------------------------------------------
(* net_dev_scan: the files of one directory entry after the other.         *)

NextEntry(d) ==
    /\ net_pc = "scan" /\ d \in up \ DOMAIN nets[net_turn]
    /\ net_cur' = [Blank EXCEPT !.name = d] /\ net_pc' = "speed"
    /\ UNCHANGED <<netKernel, net_turn, nets, net_stayed, passed>>

\* file_read_all_s: fopen of a file that is gone returns NULL, and fseek
\* with it ends the process.
Lost(file) ==
    /\ net_pc = file /\ net_cur.name \notin up
    /\ net_pc' = "crashed"
    /\ UNCHANGED <<netKernel, net_turn, net_cur, nets, net_stayed, passed>>

\* The files mtu and speed; the speed of the first reading is released unread.
ReadSpeed ==
    /\ net_pc = "speed" /\ net_cur.name \in up
    /\ net_pc' = "rx"
    /\ IF net_turn = "a" THEN UNCHANGED net_cur
       ELSE \E text \in LinkTexts[net_cur.name] : net_cur' = [net_cur EXCEPT !.speed = text]
    /\ UNCHANGED <<netKernel, net_turn, nets, net_stayed, passed>>

\* In the history the first reading of a counter opens its window.
Opened(w) == IF net_turn = "a" THEN [passed EXCEPT ![net_cur.name][w] = 0] ELSE passed

ReadRx ==
    /\ net_pc = "rx" /\ net_cur.name \in up
    /\ net_pc' = "tx"
    /\ net_cur' = [net_cur EXCEPT !.rx = bytes[net_cur.name]["rx"]]
    /\ passed' = Opened("rx")
    /\ UNCHANGED <<netKernel, net_turn, nets, net_stayed>>

\* list_push appends the record to the list.
ReadTx ==
    /\ net_pc = "tx" /\ net_cur.name \in up
    /\ net_pc' = "scan" /\ net_cur' = Blank
    /\ LET dev == [net_cur EXCEPT !.tx = bytes[net_cur.name]["tx"]]
       IN  nets' = [nets EXCEPT ![net_turn] =
                       [d \in DOMAIN @ \cup {dev.name} |->
                           IF d = dev.name THEN dev ELSE @[d]]]
    /\ passed' = Opened("tx")
    /\ UNCHANGED <<netKernel, net_turn, net_stayed>>

NetEndDir ==
    /\ net_pc = "scan" /\ net_stayed \subseteq DOMAIN nets[net_turn]
    /\ net_pc' = IF net_turn = "a" THEN "sleep" ELSE "diff"
    /\ UNCHANGED <<netKernel, net_turn, net_cur, nets, net_stayed, passed>>

-----------------------------------------------------------------------------
(* net_dev_sample.                                                         *)

NetSleep ==
    /\ net_pc = "sleep" /\ net_pc' = "scan" /\ net_turn' = "b"
    /\ net_stayed' = up
    /\ UNCHANGED <<netKernel, net_cur, nets, passed>>

\* string_to_u64: it takes every character for a digit.
ToU64(text) ==
    LET res[k \in 0..Len(text)] == IF k = 0 THEN 0 ELSE (10 * res[k - 1] + text[k]) % Range64
    IN  res[Len(text)]

\* The speed in bytes.
ISpeed(text) == ((ToU64(text) \div 8) * MB) % Range64

\* Mutant of NetCompared: isnan is not asked.
NetComparedNaN(a, b) ==
    LET drx    == (b.rx + Wrap - a.rx) % Wrap
        dtx    == (b.tx + Wrap - a.tx) % Wrap
        ispeed == ISpeed(b.speed)
    IN  [b EXCEPT !.unit = IF ispeed = 0 THEN "0 Mbits" ELSE " Mbits",
                  !.use = <<(drx + dtx) % Wrap, ispeed>>,
                  !.rx_speed = drx, !.tx_speed = dtx]

\* net_dev_diff, the time between the readings aside.  The use is a fraction,
\* infinite with the denominator 0; isnan catches 0 / 0.
NetCompared(a, b) ==
    LET drx    == (b.rx + Wrap - a.rx) % Wrap
        dtx    == (b.tx + Wrap - a.tx) % Wrap
        sum    == (drx + dtx) % Wrap
        ispeed == ISpeed(b.speed)
    IN  [b EXCEPT !.unit = IF ispeed = 0 THEN "0 Mbits" ELSE " Mbits",
                  !.use = IF sum = 0 /\ ispeed = 0 THEN <<0, 1>> ELSE <<sum, ispeed>>,
                  !.rx_speed = drx, !.tx_speed = dtx]

\* Interfaces are matched by name; one that is new in devs_b is left as it
\* is, and devs_a is released.
NetDiff ==
    /\ net_pc = "diff" /\ net_pc' = "show"
    /\ nets' = [a |-> NoNets, b |-> [d \in DOMAIN nets.b |->
                   IF d \in DOMAIN nets.a THEN NetCompared(nets.a[d], nets.b[d])
                   ELSE nets.b[d]]]
    /\ UNCHANGED <<netKernel, net_turn, net_cur, net_stayed, passed>>

\* The callback takes devs_b, and the next round begins.
NetPublish ==
    /\ net_pc = "show" /\ net_pc' = "scan" /\ net_turn' = "a"
    /\ nets' = [a |-> NoNets, b |-> NoNets]
    /\ net_stayed' = up
    /\ passed' = NoneSeen
    /\ UNCHANGED <<netKernel, net_cur>>

NetKernel(d) == (\E w \in Ways : Pass(d, w)) \/ Vanish(d) \/ Appear(d)

NetSampler ==
    \/ \E d \in Nets : NextEntry(d)
    \/ \E file \in {"speed", "rx", "tx"} : Lost(file)
    \/ ReadSpeed \/ ReadRx \/ ReadTx
    \/ NetEndDir \/ NetSleep \/ NetDiff \/ NetPublish

NetGone == net_pc = "crashed" /\ UNCHANGED netVars

NetNext == IF net_pc = "crashed" THEN NetGone
           ELSE NetSampler \/ \E d \in Nets : NetKernel(d)

NetSpec == NetInit /\ [][NetNext]_netVars
-----------------------------------------------------------------------------
Net == [name : Nets, rx : 0..Wrap - 1, tx : 0..Wrap - 1, speed : (UNION {LinkTexts[d] : d \in Nets}) \cup {<<>>},
        unit : {"", "0 Mbits", " Mbits"}, rx_speed : 0..Wrap - 1,
        tx_speed : 0..Wrap - 1, use : (0..Wrap - 1) \X (0..Range64)]

NetTypeOK ==
    /\ up \subseteq Nets /\ net_stayed \subseteq up
    /\ bytes \in [Nets -> [Ways -> 0..Wrap - 1]]
    /\ net_pc \in {"scan", "speed", "rx", "tx", "sleep", "diff", "show", "crashed"}
    /\ net_turn \in {"a", "b"} /\ net_cur \in {Blank} \cup Net
    /\ \A r \in {"a", "b"} : /\ DOMAIN nets[r] \subseteq Nets
                             /\ \A d \in DOMAIN nets[r] : nets[r][d] \in Net
    /\ passed \in [Nets -> [Ways -> 0..Wrap - 1 \cup {UNSEEN, CHANGED}]]

\* The text says a number of 8 Mbit/s or more.
Fast(text) == (\A k \in DOMAIN text : text[k] >= 0) /\ Said(text) >= 8

(* The speeds handed on for an interface are what passed in each direction *)
(* between its two readings, even if a counter wrapped, and nothing for    *)
(* one that appeared after the first; only an interface replaced by one of *)
(* the same name shows meaningless ones.  The use is those bytes against   *)
(* the link's speed in whole megabytes, infinite only with traffic on a    *)
(* link that says none or less than 8 Mbit/s, and zero, not "not a         *)
(* number", without traffic.  A link that is down and says -1 counts as an *)
(* enormously fast one.                                                    *)
NetShowsTraffic ==
    net_pc = "show" =>
        \A d \in DOMAIN nets.b :
            LET dev  == nets.b[d]
                real == passed[d]
            IN  \/ CHANGED \in {real["rx"], real["tx"]}
                \/ /\ UNSEEN \in {real["rx"], real["tx"]}
                   /\ dev.rx_speed = 0 /\ dev.tx_speed = 0
                   /\ dev.use = <<0, 1>> /\ dev.unit = ""
                \/ /\ dev.rx_speed = real["rx"] /\ dev.tx_speed = real["tx"]
                   /\ dev.use[1] = real["rx"] + real["tx"]
                   /\ IF Fast(dev.speed) THEN dev.use[2] = (Said(dev.speed) \div 8) * MB
                      ELSE IF dev.speed # <<>> /\ dev.speed[1] < 0 THEN dev.use[2] > 0
                      ELSE dev.use[2] = IF dev.use[1] > 0 THEN 0 ELSE 1
                   /\ dev.unit # "" /\ dev.use # <<0, 0>>
=============================================================================
