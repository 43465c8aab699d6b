------------------------------- MODULE TolHost ------------------------------
(***************************************************************************)
(* What runs a lowered contract: the helpers its chunk carries along or     *)
(* finds in the VM (the storage, error and host preludes of                 *)
(* tol_ir_direct_lowering.go, cryptolib.go), and the host that keeps the    *)
(* storage, collects the events and undoes what a failed call has done.    *)
(* host has the storage, the events, the slots read and written, the gas   *)
(* of storage accesses and events, and how a call of another contract ends. *)
(* A slot that holds 0 is a slot that holds nothing.                       *)
(***************************************************************************)
EXTENDS LuaValues

CONSTANTS SLoadGas, SStoreGas, LogGas

EmptyStore == [x \in {} |-> 0]
NewHost(store, peer) ==
    [store |-> store, log |-> <<>>, reads |-> {}, writes |-> {}, cost |-> 0, peer |-> peer]

Get(store, slot) == IF slot \in DOMAIN store THEN store[slot] ELSE 0
Put(store, slot, n) ==
    LET kept == DOMAIN store \ {slot}
        rest == [x \in kept |-> store[x]]
    IN  IF n = 0 THEN rest ELSE (slot :> n) @@ rest

(* Derived slots: distinct keys give distinct slots.                       *)
mkey(key, base) == base \o "[" \o ToString(key) \o "]"
arr_elem(base, idx) == base \o "(" \o ToString(idx) \o ")"

sload(h, slot) == [h EXCEPT !.reads = @ \cup {slot}, !.cost = @ + SLoadGas]
sstore(h, slot, n) ==
    [h EXCEPT !.store = Put(@, slot, n), !.writes = @ \cup {slot}, !.cost = @ + SStoreGas]
spush(h, base, n) ==
    LET len == Get(h.store, base)
    IN  sstore(sstore(sload(h, base), arr_elem(base, len), n), base, (len + 1) % Modulus)

Raise(s, v) == [s |-> [s EXCEPT !.st = "error", !.err = v], vs |-> <<>>]
Selector(s, v) ==
    IF IsTab(v) /\ Str("selector") \in DOMAIN s.heap[v[2]].m THEN s.heap[v[2]].m[Str("selector")] ELSE Nil
(* An error of another contract, as the host raises it.                    *)
RaiseKind(s, kind) ==
    LET t == [s EXCEPT !.heap = Append(@, [m |-> [x \in {Str("selector"), Str("data")} |-> Str(kind)], mt |-> Nil])]
    IN  IF kind = "vm" THEN Raise(s, Str("error")) ELSE Raise(t, Tab(Len(t.heap)))

(* The helpers that look at a value and change nothing.                    *)
checkedUint(s, op, args) ==
    LET a == args[1][2]
        b == args[2][2]
        exact == CASE op = "+" -> a + b [] op = "-" -> a - b [] op = "*" -> a * b
    IN  IF Len(args) < 2 \/ ~(IsNum(args[1]) /\ IsNum(args[2])) THEN Raise(s, Str("error"))
        ELSE IF exact \in 0..(Modulus - 1) THEN [s |-> s, vs |-> <<Num(exact)>>]
        ELSE Raise(s, Str("Panic(0x11)"))

HostCall(s, name, args) ==
    LET h == s.host
        is(v) == [s |-> s, vs |-> <<v>>]
        becomes(g, v) == [s |-> [s EXCEPT !.host = g], vs |-> <<v>>]
        slot == args[1][2]
        stored(v) == IF IsNum(v) THEN v[2] ELSE 0
    IN  CASE name \in {"__tol_sload", "__tol_slen"} -> becomes(sload(h, slot), Num(Get(h.store, slot)))
          [] name = "__tol_sstore" -> becomes(sstore(h, slot, stored(args[2])), args[2])
          [] name = "__tol_spush" ->
                 LET g == spush(h, slot, stored(args[2])) IN becomes(g, Num(Get(g.store, slot)))
          [] name = "__tol_mkey" -> is(Str(mkey(args[1][2], args[2][2])))
          [] name = "__tol_arr_elem" -> is(Str(arr_elem(slot, args[2][2])))
          [] name = "__tol_emit" -> becomes([h EXCEPT !.log = Append(@, args), !.cost = @ + LogGas], Nil)
          [] name = "error" -> Raise(s, IF args = <<>> THEN Nil ELSE args[1])
          [] name = "__tol_is_structured_error" -> is(Bool(Selector(s, args[1])[1] = "str"))
          [] name = "__tol_error_selector" -> is(Selector(s, args[1]))
          [] name = "__tol_error_bytes" -> is(Selector(s, args[1]))
          [] name = "__tol_uint_checked_add" -> checkedUint(s, "+", args)
          [] name = "__tol_uint_checked_sub" -> checkedUint(s, "-", args)
          [] name = "__tol_uint_checked_mul" -> checkedUint(s, "*", args)
          [] name = "call" -> IF h.peer = "ok" THEN is(Num(1)) ELSE RaiseKind(s, h.peer)

Helpers == {"pcall", "error", "call", "__tol_sload", "__tol_slen", "__tol_sstore", "__tol_spush", "__tol_mkey",
            "__tol_arr_elem", "__tol_emit", "__tol_is_structured_error", "__tol_error_selector",
            "__tol_error_bytes", "__tol_uint_checked_add", "__tol_uint_checked_sub", "__tol_uint_checked_mul"}

Lua == INSTANCE LuaReference WITH Host <- HostCall

(* A call loads the chunk, then calls an entry of the table tos.  When it   *)
(* ends with an error the storage and the events are those before it.      *)
Execute(chunk, entry, args, store, peer) ==
    LET loaded == Lua!Chunk(Lua!StartWith(Helpers, NewHost(store, peer)), [x \in {"..."} |-> <<>>], chunk, 1, <<>>).s
        tos == Lua!Lookup(loaded, Tab(1), Str("tos"))
        f == IF IsTab(tos) THEN Lua!Lookup(loaded, tos, Str(entry)) ELSE Nil
        r == Lua!Apply(loaded, f, args)
        kind == Selector(r.s, r.s.err)
        done(st, k, vs, h) == [st |-> st, kind |-> k, vs |-> vs, store |-> h.store, log |-> h.log,
                               reads |-> h.reads, writes |-> h.writes, cost |-> h.cost]
    IN  CASE f = Nil -> done("none", "", <<>>, NewHost(store, peer))
          [] f # Nil /\ r.s.st = "run" -> done("ok", "", r.vs, r.s.host)
          [] OTHER -> done("error", IF kind[1] = "str" THEN kind[2] ELSE "vm", <<>>,
                           [r.s.host EXCEPT !.store = store, !.log = <<>>])
=============================================================================
