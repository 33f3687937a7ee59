--------------------------- MODULE MCAedatReader ---------------------------
EXTENDS AedatReader

CONSTANTS MaxLines, MaxEvents, MaxTime, MaxFrames

Rising(n) == {t \in [1 .. n -> 1 .. MaxTime] : \A i \in 1 .. n - 1 : t[i] <= t[i + 1]}

OurPacket(type, events) == [source |-> "ours", type |-> type, events |-> events]

\* One packet of every shape: all runs of timestamps, all frames.
Rich ==
  {OurPacket("polarity", t) : t \in UNION {Rising(n) : n \in 1 .. MaxEvents}} \cup
  {OurPacket("frame", f) :
     f \in UNION {[1 .. n -> (1 .. FrameSize - 1) \X (0 .. FrameSize - 2)] :
                   n \in 1 .. MaxFrames}}

\* Short packets, to be split and skipped.
Small ==
  {OurPacket("special", <<1>>), OurPacket("polarity", <<1, 1, 1>>),
   [source |-> "other", type |-> "polarity", events |-> <<1, 1, 1, 1>>],
   [source |-> "other", type |-> "special", events |-> <<1>>]}

Both == {"SerializedTS", "PNGFrames"}
V31  == <<"version31", "format", "source", "end">>
V30  == <<"version30", "format", "source">>

File(network, lines, format, packets) ==
  [network |-> network, lines |-> lines, format |-> format, packets |-> packets]

MCFiles ==
  {File(FALSE, l, Both, <<OurPacket("special", <<1>>)>>) :
     l \in UNION {[1 .. n -> Lines] : n \in 0 .. MaxLines}} \cup
  {File(FALSE, <<v, "format", "source", l, m>>, Both, <<OurPacket("special", <<1>>)>>) :
     v \in {"version30", "version31"}, l \in Lines, m \in Lines} \cup
  {File(TRUE, <<m, s, v>>, Both, <<OurPacket("special", <<1>>)>>) :
     m \in {"magic", "other"}, s \in {"sequence0", "sequence1"},
     v \in {"version0", "version1"}} \cup
  {File(FALSE, l, f, <<p>>) : l \in {V31, V30}, f \in {{}, Both}, p \in Rich} \cup
  {File(n, IF n THEN Network ELSE V31, Both, p) :
     n \in BOOLEAN, p \in UNION {[1 .. i -> Small] : i \in 1 .. 3}}
=============================================================================
