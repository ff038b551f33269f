---------------------------- MODULE DefaultRoute ----------------------------
(***************************************************************************)
(* Package route: DefaultRouteInterface of each platform, the interface to *)
(* which the relay binds its own sockets.  The tunnel takes all traffic by *)
(* routes of its own, and must not be taken for the default route: on      *)
(* Windows its 0.0.0.0/0 has the lowest metric of all but lies on a        *)
(* virtual adapter, on Linux its routes are in a table of their own, on    *)
(* macOS its ranges begin with 1.0.0.0/8.                                  *)
(*                                                                         *)
(* A table is a sequence of at most MaxRows rows, in the order of the      *)
(* system; `answers' is whether the calls about its interface succeed (and *)
(* on Windows find it up).  The result is the set of the name that is      *)
(* returned, empty for an error.                                           *)
(***************************************************************************)
EXTENDS Integers, Sequences

CONSTANTS Names, Tunnel

MaxRows == 2            \* bound: rows of a table
MetricRange == 4        \* uint32 metrics, modulo a smaller power of two

Tables(Rows) == UNION {[1..k -> Rows] : k \in 0..MaxRows}
First(matching) == {i \in matching : \A j \in matching : i <= j}

(***************************************************************************)
(* Windows: the first usable row with the lowest sum of metrics, below     *)
(* ^uint32(0).                                                             *)
(***************************************************************************)
WindowsRows == [name : Names, length : {0, 1}, zeroTier : BOOLEAN, answers : BOOLEAN,
                metric : {0, 1, MetricRange - 1}, ifMetric : {0, 1}]

(* The type of the adapter, IfTypePropVirtual or another.                  *)
IsVirtual(name) == name = Tunnel

UsableVirtual(row, alive) ==
    /\ row.length = 0 /\ ~row.zeroTier
    /\ row.name \in alive /\ row.answers

Usable(row, alive) ==
    /\ row.length = 0 /\ ~row.zeroTier
    /\ row.name \in alive /\ row.answers
    /\ ~IsVirtual(row.name)

DefaultWindows(rows, alive) ==
    LET Metric(i) == (rows[i].metric + rows[i].ifMetric) % MetricRange
        candidates == {i \in DOMAIN rows :
                         Usable(rows[i], alive) /\ Metric(i) < MetricRange - 1}
        lowest == {i \in candidates : \A j \in candidates : Metric(i) <= Metric(j)}
    IN  {rows[i].name : i \in First(lowest)}

(***************************************************************************)
(* Linux: the first route of the main table whose destination is the zero  *)
(* address, whatever its mask.                                             *)
(***************************************************************************)
LinuxRows == {r \in [name : Names, main : BOOLEAN, dst : {"nil", "zero", "other"},
                     answers : BOOLEAN] :
                r.name = Tunnel /\ r.dst = "zero" => ~r.main}

DefaultLinux(rows, alive) ==
    LET matching == {i \in DOMAIN rows : rows[i].main /\ rows[i].dst = "zero"}
    IN  {rows[i].name : i \in {k \in First(matching) : rows[k].name \in alive /\ rows[k].answers}}

(***************************************************************************)
(* macOS: the first IPv4 route with one of the flags up, gateway or        *)
(* static, whose destination is 0.0.0.0 and whose gateway is an address.   *)
(***************************************************************************)
DarwinRows == {r \in [name : Names, flags : BOOLEAN, dst : {"zero4", "other4", "6"},
                      gateway4 : BOOLEAN, answers : BOOLEAN] :
                 r.name = Tunnel => r.dst # "zero4"}

DefaultDarwin(rows, alive) ==
    LET matching == {i \in DOMAIN rows :
                    rows[i].flags /\ rows[i].dst = "zero4" /\ rows[i].gateway4}
    IN  {rows[i].name : i \in {k \in First(matching) : rows[k].name \in alive /\ rows[k].answers}}

(* <<p, alive, n>>: DefaultRouteInterface can return the name n on the     *)
(* platform p while the interfaces of the set alive exist.                 *)
DefaultRouteInterface ==
    UNION {LET windows == UNION {DefaultWindows(t, alive) : t \in Tables(WindowsRows)}
               linux == UNION {DefaultLinux(t, alive) : t \in Tables(LinuxRows)}
               darwin == UNION {DefaultDarwin(t, alive) : t \in Tables(DarwinRows)}
           IN  {<<"windows", alive, n>> : n \in windows}
                 \cup {<<"linux", alive, n>> : n \in linux}
                 \cup {<<"darwin", alive, n>> : n \in darwin} : alive \in SUBSET Names}
=============================================================================
