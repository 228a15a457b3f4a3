--------------------------- MODULE CrsfTelemetry ---------------------------
(***************************************************************************)
(* What meshsa.fpv makes of CRSF telemetry: TelemetryParser, the cycle of  *)
(* the monitor that stores and logs what it parsed, and the replay of that *)
(* log.                                                                    *)
(*                                                                         *)
(* Scales are left out: values are what the wire counts.  A message is its *)
(* type and its values; the clock of a session ticks with each frame.      *)
(***************************************************************************)
EXTENDS Integers, Sequences, SequencesExt

CONSTANT MaxFrames   \* bound on the frames of a session

ConstantsOK == MaxFrames \in Nat

VARIABLE ctQuery     \* one frame, or a session

\* The fields of the frames, in order: how many bytes, and whether signed.
U(n) == [size |-> n, signed |-> FALSE]
S(n) == [size |-> n, signed |-> TRUE]
Layout ==
    [LinkStatistics |-> <<U(1), U(1), U(1), S(1), U(1), U(1), U(1), U(1), U(1), S(1)>>,
     BatterySensor |-> <<U(2), U(2), U(3), U(1)>>,
     Attitude |-> <<S(2), S(2), S(2)>>,
     GpsSensor |-> <<S(4), S(4), U(2), U(2), U(2), U(1)>>]
Types == DOMAIN Layout

\* The values at which a width or a sign shows, for field f; the others count up from 1.
Most(f) == IF f.signed THEN (2 ^ (8 * f.size - 2) - 1) + 2 ^ (8 * f.size - 2)
           ELSE 2 ^ (8 * f.size) - 1
Least(f) == IF f.signed THEN -Most(f) - 1 ELSE 0
Edges(f) == {Least(f), 0, 8, 9, Most(f)} \cup (IF f.signed THEN {-1} ELSE {})
Values(type) ==
    UNION {{[i \in DOMAIN Layout[type] |-> IF i = n THEN v ELSE i] : v \in Edges(Layout[type][n])} :
        n \in DOMAIN Layout[type]}

\* What comes in a session: link statistics and fixes with some value, a payload of the wrong
\* length, frames that are ignored, and frames of a type nobody knows.
Frames == [type : {"LinkStatistics", "GpsSensor"}, value : {1, 2}]
              \cup [type : {"malformed", "ignored", "unknown"}, value : {0}]
Damage == {"none", "no_key", "unknown_type", "wrong_fields"}

Queries ==
    UNION {[ask : {"frame"}, type : {t}, values : Values(t), extra : {-1, 0, 1}] : t \in Types}
    \cup [ask : {"session"}, frames : SeqOf(Frames, MaxFrames), record : 1..MaxFrames,
          damage : Damage]

Init == ctQuery \in Queries

-----------------------------------------------------------------------------
(* crsf/telemetry.py *)

\* The flight controller: fields one after the other, the most significant byte first.
Encode(type, values) ==
    FlattenSeq([i \in DOMAIN values |->
        LET size == Layout[type][i].size
        IN  [b \in 1..size |-> (values[i] \div 256 ^ (size - b)) % 256]])

\* A payload that grew or shrank on its way.
Payload(q) ==
    LET bytes == Encode(q.type, q.values)
    IN  CASE q.extra = 0 -> bytes [] q.extra = 1 -> Append(bytes, 0) [] q.extra = -1 -> Front(bytes)

\* Where field i of a payload begins, and how long a payload must be.
Offset(type, i) == FoldLeft(LAMBDA n, f : n + f.size, 0, SubSeq(Layout[type], 1, i - 1))
Length(type) == Offset(type, Len(Layout[type]) + 1)

\* struct.unpack, big-endian; a signed field has its sign in its first byte.
Signed(byte) == IF byte > 127 THEN byte - 256 ELSE byte
Unpack(bytes, signed) ==
    FoldLeft(LAMBDA acc, b : acc * 256 + b,
             IF signed THEN Signed(Head(bytes)) ELSE Head(bytes), Tail(bytes))

Field(payload, type, i) ==
    Unpack(SubSeq(payload, Offset(type, i) + 1, Offset(type, i + 1)), Layout[type][i].signed)

\* RSSI is counted in -dBm, altitude from 1000 m below, power is an index into a table.
TxPower == <<0, 10, 25, 100, 500, 1000, 2000, 250, 50>>
Power(index) == IF index < Len(TxPower) THEN {TxPower[index + 1]} ELSE {}

LinkStatistics(payload) ==
    LET at(i) == Field(payload, "LinkStatistics", i)
    IN  [rssi |-> <<-at(1), -at(2)>>, lq |-> at(3), snr |-> at(4), antenna |-> at(5),
         mode |-> at(6), power |-> Power(at(7)), down |-> <<-at(8), at(9), at(10)>>]
Battery(payload) ==
    LET at(i) == Field(payload, "BatterySensor", i)
    IN  [voltage |-> at(1), current |-> at(2), drawn |-> at(3), remaining |-> at(4)]
Attitude(payload) ==
    LET at(i) == Field(payload, "Attitude", i)
    IN  [pitch |-> at(1), roll |-> at(2), yaw |-> at(3)]
Gps(payload) ==
    LET at(i) == Field(payload, "GpsSensor", i)
    IN  [lat |-> at(1), lon |-> at(2), speed |-> at(3), heading |-> at(4),
         altitude |-> at(5) - 1000, satellites |-> at(6)]

\* parse, of a known type: a message, or none if the length is wrong.
Parse(type, payload) ==
    IF Len(payload) # Length(type) THEN {}
    ELSE {CASE type = "LinkStatistics" -> LinkStatistics(payload)
            [] type = "BatterySensor" -> Battery(payload)
            [] type = "Attitude" -> Attitude(payload)
            [] type = "GpsSensor" -> Gps(payload)}

\* message_from_record: a record that is not as it was written is refused.
FromRecord(record) ==
    IF record.damage # "none" THEN {} ELSE {[type |-> record.type, value |-> record.value]}

-----------------------------------------------------------------------------
(* tools/monitor.py, tools/replay.py, telemetry_store.py *)

\* TelemetryStore.update
Update(store, msg, t) == [store EXCEPT ![msg.type] = <<msg, t>>]
NoStore == [t \in {"LinkStatistics", "GpsSensor"} |-> <<>>]

\* pump_once: a frame that does not parse is dropped, the others are stored and logged.
Pump(live, frame) ==
    LET t == live.t + 1
    IN  IF frame \notin [type : {"LinkStatistics", "GpsSensor"}, value : {1, 2}]
        THEN [live EXCEPT !.t = t]
        ELSE [t |-> t, store |-> Update(live.store, frame, t),
              log |-> Append(live.log, [type |-> frame.type, value |-> frame.value, t |-> t,
                                        damage |-> "none"])]
Live(frames) == FoldLeft(Pump, [t |-> 0, store |-> NoStore, log |-> <<>>], frames)

\* replay_records: the stores it passes through; it ends at the first record it cannot take.
ReplayStep(stores, record) ==
    IF stores = <<>> \/ FromRecord(record) = {} THEN <<>>
    ELSE Append(stores, Update(Last(stores), CHOOSE m \in FromRecord(record) : TRUE, record.t))
Replay(log) == FoldLeft(ReplayStep, <<NoStore>>, log)

\* The log as it is on disk, with one record damaged.
Stored(q) ==
    LET log == Live(q.frames).log
    IN  IF q.record \in DOMAIN log THEN [log EXCEPT ![q.record].damage = q.damage] ELSE log

-----------------------------------------------------------------------------
(* Properties *)

\* A frame of the right length is read as it was sent, to the last value of every field; any
\* other is refused.
FieldsRead ==
    LET v == ctQuery.values
        sent == CASE ctQuery.type = "LinkStatistics" ->
                        <<-v[1], -v[2], v[3], v[4], v[5], v[6], -v[8], v[9], v[10]>>
                  [] ctQuery.type = "GpsSensor" -> [v EXCEPT ![5] = @ - 1000]
                  [] OTHER -> v
        read(m) == CASE ctQuery.type = "LinkStatistics" ->
                        m.rssi \o <<m.lq, m.snr, m.antenna, m.mode>> \o m.down
                     [] ctQuery.type = "GpsSensor" ->
                        <<m.lat, m.lon, m.speed, m.heading, m.altitude, m.satellites>>
                     [] ctQuery.type = "BatterySensor" ->
                        <<m.voltage, m.current, m.drawn, m.remaining>>
                     [] OTHER -> <<m.pitch, m.roll, m.yaw>>
    IN  ctQuery.ask = "frame" =>
            {read(m) : m \in Parse(ctQuery.type, Payload(ctQuery))}
                = IF ctQuery.extra = 0 THEN {sent} ELSE {}

\* Thresholds are tuned on replays: whatever came in, replaying the log passes through what
\* the live store held after each message and no other, and a damaged log is refused, not
\* replayed in part.
LogReplays ==
    ctQuery.ask = "session" =>
        LET log == Live(ctQuery.frames).log
            lived == {Live(SubSeq(ctQuery.frames, 1, n)).store : n \in 0 .. Len(ctQuery.frames)}
            stores == Replay(Stored(ctQuery))
        IN  IF ctQuery.damage # "none" /\ ctQuery.record \in DOMAIN log THEN stores = <<>>
            ELSE {stores[n] : n \in DOMAIN stores} = lived
=============================================================================
