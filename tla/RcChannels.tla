----------------------------- MODULE RcChannels -----------------------------
(***************************************************************************)
(* crsf/rc.py: channels of ChannelBits bits are packed into bytes, least   *)
(* significant bit first, and unpacked.  On the wire a channel has 11 bits *)
(* and a byte 8; nothing here depends on it.                               *)
(***************************************************************************)
EXTENDS Integers, SequencesExt

CONSTANTS
    ChannelBits,  \* 11
    ByteBits,     \* 8
    MaxCount,     \* bound on rc_channel_count
    MaxTick       \* bound on the ticks a caller passes

ConstantsOK == {ChannelBits, ByteBits} \subseteq Nat \ {0} /\ {MaxCount, MaxTick} \subseteq Nat

VARIABLE rcQuery   \* the ticks, the count and the pad of one call

Init ==
    rcQuery \in [ticks : UNION {[1..n -> 0..MaxTick] : n \in 0..MaxCount},
                 count : 1..MaxCount, pad : 0..1]

Mask(value) == value % 2^ChannelBits

\* The values that are packed: as many as there are channels.
Padded(ticks, count, pad) ==
    [i \in 1..count |-> Mask(IF i <= Len(ticks) THEN ticks[i] ELSE pad)]

BytesOf(acc, n) == [j \in 1..n |-> (acc \div 2^(ByteBits * (j - 1))) % 2^ByteBits]

\* A value joins the accumulator, and the whole bytes leave it.
Add(state, value) ==
    LET acc == state.acc + value * 2^state.nbits
        n == (state.nbits + ChannelBits) \div ByteBits
    IN  [acc |-> acc \div 2^(ByteBits * n),
         nbits |-> state.nbits + ChannelBits - ByteBits * n,
         out |-> state.out \o BytesOf(acc, n)]

\* pack_channels
Pack(ticks, count, pad) ==
    LET packed == FoldLeft(Add, [acc |-> 0, nbits |-> 0, out |-> <<>>], Padded(ticks, count, pad))
    IN  packed.out \o IF packed.nbits > 0 THEN BytesOf(packed.acc, 1) ELSE <<>>

\* As many bytes as it takes join the accumulator, and a channel leaves it.
Take(payload, state) ==
    LET n == IF state.nbits >= ChannelBits THEN 0
             ELSE (ChannelBits - state.nbits + ByteBits - 1) \div ByteBits
        acc == FoldLeft(LAMBDA a, j : a + payload[state.idx + j] * 2^(state.nbits + ByteBits * (j - 1)),
                        state.acc, [j \in 1..n |-> j])
    IN  [acc |-> acc \div 2^ChannelBits, nbits |-> state.nbits + ByteBits * n - ChannelBits,
         idx |-> state.idx + n, channels |-> Append(state.channels, Mask(acc))]

Required(count) == (count * ChannelBits + ByteBits - 1) \div ByteBits

\* unpack_channels, of a payload that is long enough
Unpack(payload, count) ==
    FoldLeft(LAMBDA state, i : Take(payload, state),
             [acc |-> 0, nbits |-> 0, idx |-> 0, channels |-> <<>>],
             [i \in 1..count |-> i]).channels

\* Whatever ticks a caller passes, and however channels fall across the bytes: what is
\* packed fills just the bytes that unpack_channels asks for, and gives the ticks back, cut
\* to their width, cut off or padded to the count.
RoundTrip ==
    LET payload == Pack(rcQuery.ticks, rcQuery.count, rcQuery.pad)
    IN  /\ Len(payload) = Required(rcQuery.count)
        /\ \A i \in DOMAIN payload : payload[i] \in 0 .. 2^ByteBits - 1
        /\ Unpack(payload, rcQuery.count) = Padded(rcQuery.ticks, rcQuery.count, rcQuery.pad)
=============================================================================
