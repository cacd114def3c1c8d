---------------------------- MODULE WebAddresses ----------------------------
(***************************************************************************)
(* The addresses a web customer keeps: api/weborders/web_address.go.  An   *)
(* address is reduced to its id, its label and when it was saved.          *)
(***************************************************************************)
EXTENDS CustomerStore

(* Labels are compared without regard to capitals *)
SameLabel_exact(a, b) == a = b
SameLabel(a, b) == a[1] = b[1]

(* What the list of addresses may show: each row as it is or as it was *)
SeenLists ==
  {[i \in AddressIds |-> IF i \in late THEN stale.addresses[i] ELSE db.addresses[i]] :
     late \in SUBSET {i \in AddressIds : stale.addresses[i] # db.addresses[i]}}

(* The addresses of that label in a list, and the newest of them; of       *)
(* equally new ones any                                                    *)
Labelled(list, label) == {i \in AddressIds : list[i] # NoRow /\ SameLabel(list[i].label, label)}
Newest(list, label) ==
  {i \in Labelled(list, label) : \A j \in Labelled(list, label) : list[j].at <= list[i].at}

NewAddress(c, label) == [label |-> label, at |-> call[c].at]

(* Upsert without an id: the address of that label, or a new one.  With an *)
(* id ("saveAs") it starts at the put: whether the address is there makes  *)
(* no difference.                                                          *)
SaveLists(c) ==
  /\ Doing(c, "save", "read")
  /\ \E list \in SeenLists :
       \E i \in IF Labelled(list, call[c].arg) = {} THEN {c} ELSE Newest(list, call[c].arg) :
         call' = [call EXCEPT ![c].step = "put", ![c].arg = i,
                              ![c].row = NewAddress(c, call[c].arg)]
  /\ Reads

SavePuts(c) ==
  /\ call[c].op \in {"save", "saveAs"} /\ At(c, "put")
  /\ db' = [db EXCEPT !.addresses[call[c].arg] = call[c].row]
  /\ Over(c)
  /\ Aside

DeleteReads(c) ==
  /\ Doing(c, "deleteAddress", "read")
  /\ \E row \in SeenAddress(call[c].arg) : IF row = NoRow THEN Over(c) ELSE Goto(c, "delete")
  /\ Reads

Deletes(c) ==
  /\ Doing(c, "deleteAddress", "delete")
  /\ db' = [db EXCEPT !.addresses[call[c].arg] = NoRow]
  /\ Over(c)
  /\ Aside

AddressStep(c) == SaveLists(c) \/ SavePuts(c) \/ DeleteReads(c) \/ Deletes(c)

=============================================================================
