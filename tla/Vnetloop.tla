------------------------------ MODULE Vnetloop ------------------------------
(***************************************************************************)
(* examples/vnetloop.c: a network device that hands every packet it sends  *)
(* back to the receive path and counts packets and bytes in four counters. *)
(* A reader of the statistics runs beside the sender.                      *)
(*                                                                         *)
(* Where a 64-bit counter cannot be read in one access (32-bit machines,   *)
(* "seq") u64_stats_sync is a sequence counter: odd while an update is in  *)
(* progress, and a reader that saw it odd or changed reads again.  On      *)
(* 64-bit machines ("plain") it is nothing.                                *)
(*                                                                         *)
(* External: the core calls ndo_start_xmit for one packet at a time, on a  *)
(* running queue; ndo_stop comes after the last transmission has returned; *)
(* unregister_netdev stops the device and drops the packets that were      *)
(* received and not yet taken up.                                          *)
(***************************************************************************)
EXTENDS Integers

CONSTANTS
    Builds,     \* of "seq" and "plain"
    Sizes,      \* lengths of packets
    ETH_HLEN,   \* what eth_type_trans takes off a packet
    MaxPackets  \* bound: packets sent

VARIABLES
    build,      \* the machine the behaviour is about (never changes)
    net,        \* out, registered or up
    stats,      \* priv: the four counters
    seq,        \* priv->syncp
    xmit,       \* the transmission in progress, see Xmits
    backlog,    \* packets handed to netif_rx and not yet taken up
    reader,     \* vnetloop_get_stats64: where it is
    start,      \* the sequence number it saw
    seen,       \* stats: the counters it has read
    shown,      \* the result of its last call
    past        \* history: every value of the counters between two updates

vars == <<build, net, stats, seq, xmit, backlog, reader, start, seen, shown, past>>

Fields == <<"tx_packets", "tx_bytes", "rx_packets", "rx_bytes">>
Names == {Fields[n] : n \in 1 .. 4}
Zero == [f \in Names |-> 0]

\* at: the next step; len: skb->len; copy: whether skb_copy succeeded.
Idle == [at |-> "none", len |-> 0, copy |-> FALSE]

Init ==
    /\ build \in Builds
    /\ net = "out"
    /\ stats = Zero /\ seq = 0 /\ xmit = Idle /\ backlog = 0
    /\ reader = "none" /\ start = 0 /\ seen = Zero /\ shown = Zero /\ past = {Zero}

netVars == <<build, net>>
readerVars == <<reader, start, seen, shown>>

-----------------------------------------------------------------------------
(* Loading, opening, stopping, removing                                    *)

\* alloc_etherdev gives zeroed private data; when it fails, or register_netdev
\* (after which the device is freed), nothing of the load is left.
vnetloop_init ==
    /\ net = "out"
    /\ net' \in {"out", "registered"}
    /\ stats' = Zero /\ seq' = 0 /\ shown' = Zero /\ past' = {Zero}
    /\ UNCHANGED <<build, xmit, backlog, reader, start, seen>>

vnetloop_open ==
    /\ net = "registered"
    /\ net' = "up"
    /\ UNCHANGED <<build, stats, seq, xmit, backlog, readerVars, past>>

vnetloop_stop ==
    /\ net = "up" /\ xmit = Idle
    /\ net' = "registered"
    /\ UNCHANGED <<build, stats, seq, xmit, backlog, readerVars, past>>

\* unregister_netdev and free_netdev.
vnetloop_exit ==
    /\ net \in {"registered", "up"} /\ xmit = Idle /\ reader = "none"
    /\ net' = "out"
    /\ backlog' = 0
    /\ UNCHANGED <<build, stats, seq, xmit, readerVars, past>>

-----------------------------------------------------------------------------
(* vnetloop_xmit                                                           *)

\* u64_stats_update_begin, u64_stats_update_end
Bump == seq' = IF build = "seq" THEN seq + 1 ELSE seq

Xmit(len, copy) ==
    /\ net = "up" /\ xmit = Idle
    /\ stats.tx_packets < MaxPackets
    /\ xmit' = [at |-> "begin", len |-> len, copy |-> copy]
    /\ UNCHANGED <<netVars, stats, seq, backlog, readerVars, past>>

UpdateBegin ==
    /\ xmit.at = "begin"
    /\ Bump
    /\ xmit' = [xmit EXCEPT !.at = "tx_packets"]
    /\ UNCHANGED <<netVars, stats, backlog, readerVars, past>>

\* What a packet adds to a counter.
Adds(f) ==
    CASE f \in {"tx_packets", "rx_packets"} -> 1
      [] f = "tx_bytes" -> xmit.len
      [] f = "rx_bytes" -> xmit.len - ETH_HLEN

\* The field after f, "end" after the last one that is counted.
After(f) ==
    CASE f = "tx_packets" -> "tx_bytes"
      [] f = "tx_bytes" /\ xmit.copy -> "rx_packets"
      [] f = "rx_packets" -> "rx_bytes"
      [] OTHER -> "end"

Count ==
    /\ xmit.at \in Names
    /\ stats' = [stats EXCEPT ![xmit.at] = @ + Adds(xmit.at)]
    /\ xmit' = [xmit EXCEPT !.at = After(xmit.at)]
    /\ UNCHANGED <<netVars, seq, backlog, readerVars, past>>

UpdateEnd ==
    /\ xmit.at = "end"
    /\ Bump
    /\ past' = past \union {stats}
    /\ xmit' = [xmit EXCEPT !.at = "rx"]
    /\ UNCHANGED <<netVars, stats, backlog, readerVars>>

\* netif_rx, if there is a copy, and dev_kfree_skb.
XmitEnd ==
    /\ xmit.at = "rx"
    /\ backlog' = backlog + IF xmit.copy THEN 1 ELSE 0
    /\ xmit' = Idle
    /\ UNCHANGED <<netVars, stats, seq, readerVars, past>>

Receive ==
    /\ backlog > 0
    /\ backlog' = backlog - 1
    /\ UNCHANGED <<netVars, stats, seq, xmit, readerVars, past>>

vnetloop_xmit ==
    \/ \E len \in Sizes, copy \in BOOLEAN : Xmit(len, copy)
    \/ UpdateBegin \/ Count \/ UpdateEnd \/ XmitEnd

-----------------------------------------------------------------------------
(* vnetloop_get_stats64                                                    *)

FetchBegin ==
    /\ net \in {"registered", "up"} /\ reader \in {"none", "begin"}
    /\ seq % 2 = 0      \* u64_stats_fetch_begin waits for an even number
    /\ start' = seq
    /\ reader' = "tx_packets"
    /\ UNCHANGED <<netVars, stats, seq, xmit, backlog, seen, shown, past>>

Fetch(n) ==
    /\ reader = Fields[n]
    /\ seen' = [seen EXCEPT ![Fields[n]] = stats[Fields[n]]]
    /\ reader' = IF n < 4 THEN Fields[n + 1] ELSE "retry"
    /\ UNCHANGED <<netVars, stats, seq, xmit, backlog, start, shown, past>>

\* Mutant of Unchanged: only an update in progress counts.
NotUpdating == seq % 2 = 0

\* u64_stats_fetch_retry is false.
Unchanged == seq = start

FetchRetry ==
    /\ reader = "retry"
    /\ start' = 0 /\ seen' = Zero
    /\ IF Unchanged
       THEN reader' = "none" /\ shown' = seen
       ELSE reader' = "begin" /\ UNCHANGED shown
    /\ UNCHANGED <<netVars, stats, seq, xmit, backlog, past>>

vnetloop_get_stats64 == FetchBegin \/ (\E n \in 1 .. 4 : Fetch(n)) \/ FetchRetry

-----------------------------------------------------------------------------

Next ==
    \/ vnetloop_init \/ vnetloop_open \/ vnetloop_stop \/ vnetloop_exit
    \/ vnetloop_xmit \/ Receive \/ vnetloop_get_stats64

Spec == Init /\ [][Next]_vars

-----------------------------------------------------------------------------
(* Properties                                                              *)

TypeOK ==
    /\ net \in {"out", "registered", "up"}
    /\ stats \in [Names -> Nat] /\ seen \in [Names -> Nat] /\ shown \in [Names -> Nat]
    /\ seq \in Nat /\ start \in Nat /\ backlog \in 0 .. MaxPackets
    /\ xmit \in [at : Names \union {"none", "begin", "end", "rx"}, len : Sizes \union {0},
                 copy : BOOLEAN]
    /\ reader \in Names \union {"none", "begin", "retry"}

\* With the sequence counter, the four numbers that a reader reports are the
\* state of the counters at one moment between two packets, however many
\* packets were sent while it read.  On every machine, what is reported has
\* been there: no counter is ahead of the driver, and none goes back from one
\* report to the next.
StatsAreConsistent ==
    [][/\ build = "seq" => shown' \in past'
       /\ net # "out" => \A f \in Names : shown[f] <= shown'[f]
                                         /\ shown'[f] <= stats[f]]_vars
=============================================================================
