-------------------------------- MODULE LUID --------------------------------
(***************************************************************************)
(* Package winipcfg: the methods of LUID that set the addresses, the       *)
(* routes and the name servers of one interface.  A Set method flushes and *)
(* then adds: a flush walks a copy of the table of all interfaces and      *)
(* deletes the rows of its own, and other programs change the table        *)
(* meanwhile.  Every call of the system may fail.                          *)
(*                                                                         *)
(* Addresses, routes and name servers share nothing, so that a behaviour   *)
(* is about one of them.  Addresses and routes have the same methods and   *)
(* differ in what a flush does with the error of one row.                  *)
(***************************************************************************)
EXTENDS Integers, Sequences

CONSTANTS
    Entries,    \* rows [luid, family, key] that can be in the table
    Own,        \* the LUID of the methods
    MaxList     \* bound: entries that a call is given

Families == {"4", "6"}
AnyFamily == "unspec"               \* windows.AF_UNSPEC
Domains == {"", "suffix"}           \* search domains, none or some

VARIABLES
    kind,       \* "address", "route" or "dns"
    rows,       \* the table of the system
    dns,        \* name servers and domains of the interface
    legacy,     \* before Windows 10 1809: no SetInterfaceDnsSettings
    call,       \* the call that runs
    alone       \* nobody else changed rows of the interface since it began

vars == <<kind, rows, dns, legacy, call, alone>>

Idle == [at |-> "idle"]
OwnEntries == {e \in Entries : e.luid = Own}
In(family, e) == family \in {AnyFamily, e.family}
Lists == UNION {[1..k -> OwnEntries] : k \in 0..MaxList}

Init ==
    /\ kind \in {"address", "route", "dns"}
    /\ rows \in IF kind = "dns" THEN {{}} ELSE SUBSET Entries
    /\ dns = [server |-> [f \in Families |-> {}], domain |-> [f \in Families |-> ""],
              registers |-> TRUE]
    /\ legacy \in IF kind = "dns" THEN BOOLEAN ELSE {FALSE}
    /\ call = Idle
    /\ alone = TRUE

Return(err) == call' = [call EXCEPT !.at = "done", !.err = err]
Goto(at) == call' = [call EXCEPT !.at = at]

Begin(op, at, family, list) ==
    /\ call = Idle
    /\ op \in {"dns", "setup"} <=> kind = "dns"
    /\ call' = [op |-> op, at |-> at, family |-> family, list |-> list, asked |-> list,
                todo |-> {}, err |-> FALSE]
    /\ alone' = TRUE
    /\ UNCHANGED <<kind, rows, dns, legacy>>

(***************************************************************************)
(* Addresses and routes.                                                   *)
(***************************************************************************)
BeginOn(k, op, at, family, list) == kind = k /\ Begin(op, at, family, list)

SetIPAddresses(list) == BeginOn("address", "set", "table", AnyFamily, list)
SetIPAddressesForFamily(f, list) == BeginOn("address", "set", "table", f, list)
AddIPAddresses(list) == BeginOn("address", "add", "add", AnyFamily, list)
FlushIPAddresses(f) == BeginOn("address", "set", "table", f, <<>>)
DeleteIPAddress(e) == BeginOn("address", "delete", "delete", AnyFamily, <<e>>)

SetRoutes(list) == BeginOn("route", "set", "table", AnyFamily, list)
SetRoutesForFamily(f, list) == BeginOn("route", "set", "table", f, list)
AddRoutes(list) == BeginOn("route", "add", "add", AnyFamily, list)
FlushRoutes(f) == BeginOn("route", "set", "table", f, <<>>)
DeleteRoute(e) == BeginOn("route", "delete", "get", AnyFamily, <<e>>)

GetTable ==
    /\ call.at = "table"
    /\ \/ Return(TRUE)
       \/ call' = [call EXCEPT !.at = "flush", !.todo = {e \in rows : In(call.family, e)}]
    /\ UNCHANGED <<kind, rows, dns, legacy, alone>>

(* FlushIPAddresses does not look at the error of a row, FlushRoutes goes  *)
(* on and returns it at the end.                                           *)
ErrorForgotten(failed) == FALSE
FlushError(failed) == failed /\ kind = "route"

FlushEveryRow(e) ==
    /\ call.at = "flush" /\ e \in call.todo
    /\ rows' = rows \ {e}
    /\ call' = [call EXCEPT !.todo = @ \ {e}]
    /\ UNCHANGED <<kind, dns, legacy, alone>>

FlushRow(e) ==
    /\ call.at = "flush" /\ e \in call.todo
    /\ \E failed \in BOOLEAN :
         /\ failed => e.luid = Own
         /\ e.luid = Own /\ e \notin rows => failed
         /\ rows' = IF e.luid = Own /\ ~failed THEN rows \ {e} ELSE rows
         /\ call' = [call EXCEPT !.todo = @ \ {e}, !.err = @ \/ FlushError(failed)]
    /\ UNCHANGED <<kind, dns, legacy, alone>>

FlushEnds ==
    /\ call.at = "flush" /\ call.todo = {}
    /\ IF call.err THEN Return(TRUE) ELSE Goto("add")
    /\ UNCHANGED <<kind, rows, dns, legacy, alone>>

AddEntry ==
    /\ call.at = "add" /\ call.list # <<>>
    /\ LET e == Head(call.list)
           next == [call EXCEPT !.list = Tail(@)]
       IN  \/ ~In(call.family, e) /\ call' = next /\ rows' = rows
           \/ In(call.family, e) /\ e \notin rows /\ call' = next /\ rows' = rows \cup {e}
           \/ In(call.family, e) /\ Return(TRUE) /\ rows' = rows
    /\ UNCHANGED <<kind, dns, legacy, alone>>

AddIPAddress == kind = "address" /\ AddEntry
AddRoute == kind = "route" /\ AddEntry

AddEnds ==
    /\ call.at = "add" /\ call.list = <<>>
    /\ Return(FALSE)
    /\ UNCHANGED <<kind, rows, dns, legacy, alone>>

(* DeleteRoute reads the row before it deletes it.                         *)
GetRow ==
    /\ call.at = "get"
    /\ \/ Return(TRUE)
       \/ Head(call.list) \in rows /\ Goto("delete")
    /\ UNCHANGED <<kind, rows, dns, legacy, alone>>

DeleteRow ==
    /\ call.at = "delete"
    /\ \/ Return(TRUE) /\ rows' = rows
       \/ Head(call.list) \in rows /\ Return(FALSE) /\ rows' = rows \ {Head(call.list)}
    /\ UNCHANGED <<kind, dns, legacy, alone>>

(* Another program adds or deletes a row.                                  *)
Interfere(e) ==
    /\ kind # "dns"
    /\ rows' = IF e \in rows THEN rows \ {e} ELSE rows \cup {e}
    /\ alone' = (alone /\ e.luid # Own)
    /\ UNCHANGED <<kind, dns, legacy, call>>

(***************************************************************************)
(* Name servers.  A job is one SetDNS: a family, servers of any family and *)
(* the domain.  SetupDNS makes one for each family that has servers.       *)
(***************************************************************************)
Servers == {[family |-> f] : f \in Families}
OfFamily(servers, f) == {s \in servers : s.family = f}
Job(f, servers, domain) == [family |-> f, servers |-> servers, domain |-> domain]

SetDNS(f, servers, domain) ==
    Begin("dns", IF f \in Families THEN "dns" ELSE "refused", f, <<Job(f, servers, domain)>>)

FlushDNS(f) == SetDNS(f, {}, "")

SetupDNS(servers) ==
    LET Asked(f) == IF OfFamily(servers, f) = {} THEN <<>>
                    ELSE <<Job(f, OfFamily(servers, f), "")>>
    IN  Begin("setup", "dns", AnyFamily, Asked("4") \o Asked("6"))

(* ERROR_PROTOCOL_UNREACHABLE.                                             *)
RefuseDNS ==
    /\ call.at = "refused"
    /\ Return(TRUE)
    /\ UNCHANGED <<kind, rows, dns, legacy, alone>>

job == Head(call.list)

SetInterfaceDnsSettings ==
    /\ call.at = "dns" /\ call.list # <<>>
    /\ \/ Return(TRUE) /\ dns' = dns
       \/ ~legacy /\ dns' = [dns EXCEPT !.server[job.family] = OfFamily(job.servers, job.family),
                                        !.domain[job.family] = job.domain]
                  /\ call' = [call EXCEPT !.list = Tail(@)]
       \/ legacy /\ Goto("netsh") /\ dns' = dns
    /\ UNCHANGED <<kind, rows, legacy, alone>>

(* netsh runs its commands one by one, a flush of the family and an add    *)
(* for each server, and may stop after any of them.                        *)
fallbackSetDNSForFamily ==
    /\ call.at = "netsh"
    /\ LET given == OfFamily(job.servers, job.family) IN
       \/ Return(TRUE) /\ \E some \in (SUBSET given) \cup {dns.server[job.family]} :
                            dns' = [dns EXCEPT !.server[job.family] = some]
       \/ Goto("domain") /\ dns' = [dns EXCEPT !.server[job.family] = given]
    /\ UNCHANGED <<kind, rows, legacy, alone>>

(* One registry value, for both families.                                  *)
fallbackSetDNSDomain ==
    /\ call.at = "domain"
    /\ \/ Return(TRUE) /\ dns' = dns
       \/ /\ dns' = [dns EXCEPT !.domain = [f \in Families |-> job.domain]]
          /\ call' = [call EXCEPT !.at = "dns", !.list = Tail(@)]
    /\ UNCHANGED <<kind, rows, legacy, alone>>

(* SetupDNS ends with FlushResolverCache, unless it was given no server.   *)
DNSEnds ==
    /\ call.at = "dns" /\ call.list = <<>>
    /\ \E err \in BOOLEAN : (err => call.op = "setup" /\ call.asked # <<>>) /\ Return(err)
    /\ UNCHANGED <<kind, rows, dns, legacy, alone>>

(* Both ways it is one call, whose error configure drops.                  *)
DisableDNSRegistration ==
    /\ kind = "dns" /\ call = Idle
    /\ dns' = [dns EXCEPT !.registers = FALSE]
    /\ UNCHANGED <<kind, rows, legacy, call, alone>>

Done ==
    /\ call.at = "done"
    /\ call' = Idle
    /\ UNCHANGED <<kind, rows, dns, legacy, alone>>

Next ==
    \/ \E list \in Lists :
         \/ SetIPAddresses(list) \/ AddIPAddresses(list) \/ SetRoutes(list) \/ AddRoutes(list)
         \/ \E f \in Families : SetIPAddressesForFamily(f, list) \/ SetRoutesForFamily(f, list)
    \/ \E f \in Families \cup {AnyFamily} : FlushIPAddresses(f) \/ FlushRoutes(f) \/ FlushDNS(f)
    \/ \E f \in Families \cup {AnyFamily}, s \in SUBSET Servers, d \in Domains : SetDNS(f, s, d)
    \/ \E s \in SUBSET Servers : SetupDNS(s)
    \/ \E e \in OwnEntries : DeleteIPAddress(e) \/ DeleteRoute(e)
    \/ \E e \in Entries : FlushRow(e) \/ Interfere(e)
    \/ GetTable \/ FlushEnds \/ AddIPAddress \/ AddRoute \/ AddEnds \/ GetRow \/ DeleteRow \/ RefuseDNS
    \/ SetInterfaceDnsSettings \/ fallbackSetDNSForFamily \/ fallbackSetDNSDomain \/ DNSEnds
    \/ DisableDNSRegistration \/ Done

Spec == Init /\ [][Next]_vars

(***************************************************************************)
(* Properties.                                                             *)
(***************************************************************************)
Asked == {call.asked[k] : k \in DOMAIN call.asked}

(* When a method returns nil and nobody else touched the interface, it has *)
(* what was asked, whatever it had before and whatever an earlier call     *)
(* that failed halfway left: after a Set exactly the routes of the list,   *)
(* but only at least its addresses (a flush that could not delete an       *)
(* address says nothing); after SetDNS or SetupDNS the name servers of the *)
(* families asked for, by the new call of Windows or by netsh.             *)
SetMeansSet ==
    call.at = "done" /\ ~call.err =>
      LET mine == {e \in rows : e.luid = Own /\ In(call.family, e)}
          given == {e \in Asked : In(call.family, e)}
      IN  /\ call.op \in {"set", "add"} /\ alone => given \subseteq mine
          /\ call.op = "set" /\ kind = "route" /\ alone => mine = given
          /\ call.op = "delete" /\ alone => Asked \cap rows = {}
          /\ call.op \in {"dns", "setup"} =>
               \A j \in Asked : dns.server[j.family] = OfFamily(j.servers, j.family)

(* A step of a call changes rows of its own interface only, and of its own *)
(* family where it has one; SetDNS changes the servers of its own family   *)
(* only.  The copy of the table that a flush walks holds all interfaces,   *)
(* and may be out of date.                                                 *)
ChangesOwnOnly ==
    call' # call =>
      /\ \A e \in Entries : (e \in rows) # (e \in rows') => e.luid = Own /\ In(call.family, e)
      /\ \A f \in Families : dns'.server[f] # dns.server[f] => f = job.family
=============================================================================
