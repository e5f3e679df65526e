----------------------------- MODULE Resources -----------------------------
(***************************************************************************)
(* The array resources of counter/counter.go, meter/meter.go and           *)
(* register/register.go, with the index check they share in                *)
(* internal/resourceindex: reads of one cell or of all, writes of one      *)
(* cell, and the reset of a meter.                                         *)
(*                                                                         *)
(* A behaviour is about one array, which its name in the pipeline gives.   *)
(* The target is external: it stores what is written, an index left out of *)
(* a request stands for all cells, it knows the cells of an array with a   *)
(* translated index by itself, and an RPC may fail with or without effect. *)
(* What normalize does with register data is the RegisterData module.      *)
(***************************************************************************)
EXTENDS Integers

CONSTANTS
  MaxSize,    \* largest array
  MaxRate,    \* largest meter parameter, count and register value
  NoIndex,    \* a request without an index
  Default,    \* a cell before anyone writes it; for a meter, no configuration
  Other,      \* what another controller writes
  Absent      \* a Config or a message field that is nil

ASSUME ResourcesAssumption ==
  /\ MaxSize \in Nat \ {0} /\ MaxRate \in Nat /\ NoIndex \notin Int
  /\ Absent \notin [CIR : Int, CBurst : Int, PIR : Int, PBurst : Int, EBurst : Int]
  /\ Absent \notin [Cir : Int, Cburst : Int, Pir : Int, Pburst : Int, Eburst : Int]
  /\ Absent \notin [PacketCount : Int, ByteCount : Int]
  /\ Absent \notin [number : Int, form : {"shortest"}]

\* "other" is a missing specification or an unknown unit or type.
MeterTypes == {"TWO_RATE_THREE_COLOR", "SINGLE_RATE_THREE_COLOR", "SINGLE_RATE_TWO_COLOR", "other"}

\* Configurations to try: all small ones, and some with a negative burst.
Configs ==
  LET Rates == 0..MaxRate
  IN  [CIR : Rates, CBurst : Rates, PIR : Rates, PBurst : Rates, EBurst : Rates]
        \cup [CIR : {1}, CBurst : {-1}, PIR : Rates, PBurst : {-1}, EBurst : Rates]

\* What callers ask to write into a cell of an array of each kind. A register's
\* data has the register's type, in its shortest encoding or in a longer one, or
\* has not.
Values(kind) ==
  CASE kind = "counter" -> [packets : 0..MaxRate, bytes : 0..MaxRate]
    [] kind = "register" -> [number : 0..MaxRate, form : {"shortest", "padded", "mistyped"}]
    [] OTHER -> Configs

VARIABLES
  array,    \* [kind, size, named, type]: as P4Info declares it
  cells,    \* the target's
  wrote,    \* history: the [op, value] this client asked for last and is sure of
  touched,  \* history: the cells that anybody wrote
  answer    \* the last call: [op, index, value, err, entries]

avars == <<array, cells, wrote, touched, answer>>

\* The cells the target has: the index of a named type is the target's matter.
Indices(a) == 0..(IF a.named THEN MaxSize ELSE a.size) - 1

\* One cell is enough for a meter: its index is checked as in the other kinds.
Arrays ==
  [kind : {"counter", "register"}, size : -1..MaxSize, named : BOOLEAN, type : {"other"}]
    \cup [kind : {"meter"}, size : {1}, named : {FALSE}, type : MeterTypes]

ResourcesInit ==
  /\ array \in Arrays
  /\ cells = [i \in Indices(array) |-> Default] /\ wrote = <<>> /\ touched = {}
  /\ answer = [op |-> "none", index |-> NoIndex, value |-> Absent, err |-> "nil", entries |-> <<>>]

Answer(op, i, v, err, entries) ==
  answer' = [op |-> op, index |-> i, value |-> v, err |-> err, entries |-> entries]

-----------------------------------------------------------------------------
(* The checks before a request *)

\* resourceindex.Validate
Validate(i, allowAll) ==
  \/ allowAll /\ i = -1
  \/ i >= 0 /\ (array.named \/ (array.size > 0 /\ i < array.size))

\* Config.toProto
ToProto(cfg) ==
  /\ \A f \in DOMAIN cfg : cfg[f] >= 0
  /\ CASE array.type = "TWO_RATE_THREE_COLOR" -> cfg.PIR >= cfg.CIR /\ cfg.EBurst = 0
       [] array.type \in {"SINGLE_RATE_THREE_COLOR", "SINGLE_RATE_TWO_COLOR"} ->
            /\ cfg.CIR = cfg.PIR /\ cfg.CBurst = cfg.PBurst
            /\ array.type = "SINGLE_RATE_TWO_COLOR" => cfg.EBurst = 0
       [] OTHER -> FALSE

-----------------------------------------------------------------------------
(* The messages *)

\* The configuration a meter's write sends: what toProto makes of it, or none.
MutMeterConfig(cfg) ==
  IF cfg = Absent THEN [Cir |-> 0, Cburst |-> 0, Pir |-> 0, Pburst |-> 0, Eburst |-> 0]
  ELSE [Cir |-> cfg.CIR, Cburst |-> cfg.CBurst, Pir |-> cfg.PIR, Pburst |-> cfg.PBurst,
        Eburst |-> cfg.EBurst]
MeterConfig(cfg) ==
  IF cfg = Absent THEN Absent
  ELSE [Cir |-> cfg.CIR, Cburst |-> cfg.CBurst, Pir |-> cfg.PIR, Pburst |-> cfg.PBurst,
        Eburst |-> cfg.EBurst]

\* The register's data, which normalize copied and shortened.
Normalized(v) == [v EXCEPT !.form = "shortest"]

-----------------------------------------------------------------------------
(* The target *)

Named(i) == IF i = NoIndex THEN DOMAIN cells ELSE DOMAIN cells \cap {i}

\* What a cell becomes: a message without a configuration takes it away.
Stored(m) == IF m = Absent THEN Default ELSE m

\* A MODIFY of the cell with index i by message m, which the caller asked for as
\* v. When the RPC fails the client cannot tell what happened.
Modify(op, i, v, m) ==
  /\ touched' = touched \cup {i}
  /\ \/ /\ Named(i) # {}
        /\ cells' = [j \in DOMAIN cells |-> IF j \in Named(i) THEN Stored(m) ELSE cells[j]]
        /\ Answer(op, i, v, "nil", <<>>)
        /\ wrote' = [j \in DOMAIN wrote \cup {i} |->
                       IF j = i THEN [op |-> op, value |-> v] ELSE wrote[j]]
     \/ /\ \/ cells' = [j \in DOMAIN cells |-> IF j \in Named(i) THEN Stored(m) ELSE cells[j]]
           \/ UNCHANGED cells
        /\ Answer(op, i, v, "rpc", <<>>)
        /\ wrote' = [j \in DOMAIN wrote \ {i} |-> wrote[j]]

Refuse(op, i, v) == Answer(op, i, v, "argument", <<>>) /\ UNCHANGED <<cells, wrote, touched>>

-----------------------------------------------------------------------------
(* The calls *)

\* The index of the request: -1 asks for every cell.
MutIndexOf(i) == IF i > 0 THEN i ELSE NoIndex
IndexOf(i) == IF i >= 0 THEN i ELSE NoIndex

Read(i) ==
  /\ \/ ~Validate(i, TRUE) /\ Answer("read", i, Absent, "argument", <<>>)
     \/ Validate(i, TRUE) /\ Answer("read", i, Absent, "rpc", <<>>)
     \/ /\ Validate(i, TRUE)
        /\ Answer("read", i, Absent, "nil", [j \in Named(IndexOf(i)) |-> cells[j]])
  /\ UNCHANGED <<array, cells, wrote, touched>>

\* The counts are sent as they are.
WriteCounter(i, v) ==
  /\ array.kind = "counter"
  /\ IF Validate(i, FALSE)
     THEN Modify("write", i, v, [PacketCount |-> v.packets, ByteCount |-> v.bytes])
     ELSE Refuse("write", i, v)
  /\ UNCHANGED array

\* Write and WriteData: data that does not have the register's type is refused.
WriteRegister(i, v) ==
  /\ array.kind = "register"
  /\ IF Validate(i, FALSE) /\ v.form # "mistyped"
     THEN Modify("write", i, v, Normalized(v)) ELSE Refuse("write", i, v)
  /\ UNCHANGED array

\* Reader.write of a meter.
SetMeter(op, i, cfg) ==
  /\ array.kind = "meter"
  /\ IF Validate(i, FALSE) /\ (cfg # Absent => ToProto(cfg))
     THEN Modify(op, i, cfg, MeterConfig(cfg)) ELSE Refuse(op, i, cfg)
  /\ UNCHANGED array

WriteMeter(i, cfg) == SetMeter("write", i, cfg)
Reset(i) == SetMeter("reset", i, Absent)

\* Another controller writes a cell.
OtherWrites(i) ==
  /\ cells' = [cells EXCEPT ![i] = Other] /\ touched' = touched \cup {i}
  /\ wrote' = [j \in DOMAIN wrote \ {i} |-> wrote[j]]
  /\ answer' = [answer EXCEPT !.op = "none", !.entries = <<>>] /\ UNCHANGED array

ResourcesNext ==
  \/ \E i \in -2..MaxSize :
       \/ Read(i) \/ Reset(i)
       \/ \E v \in Values(array.kind) : WriteCounter(i, v) \/ WriteRegister(i, v) \/ WriteMeter(i, v)
  \/ \E i \in DOMAIN cells : OtherWrites(i)

ResourcesSpec == ResourcesInit /\ [][ResourcesNext]_avars

-----------------------------------------------------------------------------
(* Properties *)

\* The rates and bursts a meter of the array's type can be set to: the peak is
\* not below the committed rate, a single-rate meter has one rate and one burst,
\* and only three colours on one rate leave room for an excess burst.
Settable(cfg) ==
  /\ array.type # "other"
  /\ \A f \in DOMAIN cfg : cfg[f] >= 0
  /\ cfg.CIR <= cfg.PIR
  /\ array.type # "TWO_RATE_THREE_COLOR" => <<cfg.PIR, cfg.PBurst>> = <<cfg.CIR, cfg.CBurst>>
  /\ cfg.EBurst # 0 => array.type = "SINGLE_RATE_THREE_COLOR"

\* The indices and the values a call may have.
IndexRight(op, i) ==
  (op = "read" /\ i = -1) \/ i \in (IF array.named THEN Nat ELSE Indices(array))

ValueRight(v) ==
  CASE array.kind = "counter" -> TRUE
    [] array.kind = "register" -> v.form # "mistyped"
    [] OTHER -> Settable(v)

\* What a cell holds that value v was written to.
Meaning(v) ==
  CASE array.kind = "counter" -> [PacketCount |-> v.packets, ByteCount |-> v.bytes]
    [] array.kind = "register" -> [number |-> v.number, form |-> "shortest"]
    [] OTHER -> [Cir |-> v.CIR, Cburst |-> v.CBurst, Pir |-> v.PIR, Pburst |-> v.PBurst,
                 Eburst |-> v.EBurst]

\* The cells: one that nobody wrote is as it was; one the client is sure of holds
\* what its last caller asked for, no configuration after Reset and a
\* configuration, if only of zeros, after Write; and whatever failed or raced,
\* no cell holds anything but a right value in its shortest form.
CellsExact ==
  \A i \in DOMAIN cells :
    /\ i \notin touched => cells[i] = Default
    /\ i \in DOMAIN wrote =>
         cells[i] = IF wrote[i].op = "reset" THEN Default ELSE Meaning(wrote[i].value)
    /\ cells[i] \in {Default, Other} \/ \E v \in Values(array.kind) : ValueRight(v) /\ cells[i] = Meaning(v)

\* Whatever sequence of calls is made and whoever else writes: the cells are as
\* CellsExact says; a call is refused without an RPC exactly when its index is
\* outside the array, -1 being for reads, or what it writes is not right for the
\* array; and a read answers with the cell it asks for, or with all.
ResourcesExact ==
  /\ CellsExact
  /\ answer.op # "none" =>
       (answer.err = "argument" <=>
          ~IndexRight(answer.op, answer.index) \/ (answer.op = "write" /\ ~ValueRight(answer.value)))
  /\ answer.op = "read" /\ answer.err = "nil" =>
       answer.entries = [i \in {j \in DOMAIN cells : answer.index \in {j, -1}} |-> cells[i]]
=============================================================================
