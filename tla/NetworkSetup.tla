---------------------------- MODULE NetworkSetup ----------------------------
(* The Wi-Fi setup service (scripts/setup_service.py) of the board: it joins
   a site's Wi-Fi, or opens a setup hotspot over which a phone names one, and
   announces the address of the host service by mDNS; in portable mode it
   keeps the board's own access point, the Cabin AP, up instead.

   main, the watchdog, a thread for every switch and for every requested
   hotspot, and the handlers (Flask, threaded) share the module's globals and
   the one Wi-Fi interface without a lock; every nmcli command may take half a
   minute.  A thread is the sequence of steps it has still to do, a step being
   a command with the assignments right after it, and the steps of several
   threads interleave.

   NetworkManager and the radio are external: a command takes effect or fails,
   a lost connection may come back by itself, an address comes later.  The
   ten or fifteen looks of a waiting loop are one look.  Whoever supervises
   the service starts it again when it ends. *)
EXTENDS Integers, Sequences, FiniteSets

CONSTANTS
    Sites,          \* site networks, and the profiles of their names
    Hotspot, Cabin, \* the profiles of the two access points
    CabinId,        \* another name NetworkManager knows Cabin by
    NoNet,
    Threshold,      \* WATCHDOG_FAIL_THRESHOLD
    MaxRequests,    \* bound: requests that start a thread, or forget
    MaxFaults,      \* bound: failing access points and announcements, lost
                    \* networks, new leases
    MaxRestarts     \* bound: restarts of the service

ASSUME NetworkAssumption ==
    /\ Hotspot \notin Sites \cup {Cabin, NoNet}
    /\ Threshold \in Nat \ {0}
    /\ MaxRequests \in Nat /\ MaxFaults \in Nat /\ MaxRestarts \in Nat

VARIABLES
    mode,           \* NETWORK_MODE
    profiles, active, addr, inRange, \* NetworkManager and the radio
    hotspotActive, switching, status, \* _hotspot_active, _switching, _switch_state
    mdns,           \* _mdns_ip
    held,           \* what _mdns_zc and _mdns_info, if set, have announced
    announced,      \* the addresses that zeroconf answers with
    fails,          \* the watchdog's count
    serving,        \* main has started the watchdog and the API
    todo,           \* what each thread has still to do
    site, ip,       \* per thread: the network it connects to, the address found
    left,           \* per thread: saved profiles still to try
    leaked,         \* history: addresses whose withdrawal failed
    blind,          \* history: the hotspot the service believes in went down,
                    \* or, set up by hand, did not come up
    raced,          \* history: two threads have been at work at once
    requests, faults, restarts

nm == <<profiles, active, addr, inRange>>
globals == <<hotspotActive, switching, status>>
naming == <<mdns, held, announced, leaked>>
counters == <<requests, faults, restarts>>
vars == <<mode, nm, globals, naming, fails, serving, todo, site, ip, left, blind, raced, counters>>

Main == 0
Watchdog == -1
Requests == 1..MaxRequests
Threads == {Main, Watchdog} \cup Requests
NoAddr == <<NoNet, 0>>
Lease(c) == {NoAddr, <<c, 1>>}
Portable == mode = "portable_ap"

Startup == <<"begin">>
HotspotStop == <<"stop hotspot">>
HotspotStart == HotspotStop \o <<"start hotspot">>
RegisterOver == <<"announce">>    \* mutant: the old registration stays
Register == <<"withdraw", "announce">>
EnsureCabin == <<"cabin profile", "cabin up", "cabin look">>

Init ==
    /\ mode \in {"site_client", "portable_ap"}
    /\ profiles \in SUBSET (Sites \cup {Cabin})
    /\ active = NoNet /\ addr = NoAddr /\ inRange \in SUBSET Sites
    /\ hotspotActive = FALSE /\ switching = FALSE /\ status = "idle"
    /\ mdns = NoAddr /\ held = NoAddr /\ announced = {} /\ leaked = {}
    /\ fails = 0 /\ serving = FALSE
    /\ todo = [t \in Threads |-> IF t = Main THEN Startup ELSE <<>>]
    /\ site = [t \in Threads |-> NoNet] /\ ip = [t \in Threads |-> NoAddr]
    /\ left = [t \in Threads |-> {}]
    /\ blind = FALSE /\ raced = FALSE /\ requests = 0 /\ faults = 0 /\ restarts = 0

-----------------------------------------------------------------------------
(* What the commands report *)

RealLan == addr[1] \in Sites \cup {Cabin}
SiteConnected == active \notin {NoNet, Cabin} /\ RealLan
Saved == profiles \ {Hotspot, Cabin}
Fault == faults < MaxFaults /\ faults' = faults + 1

(* A profile comes up, with its address at once or later. *)
Up(c) == active' = c /\ addr' \in Lease(c)

(* A profile does not come up; what was up may have been taken down. *)
Down ==
    \/ UNCHANGED <<active, addr>>
    \/ active # NoNet /\ active' = NoNet /\ addr' = NoAddr

Delete(c) ==
    /\ profiles' = profiles \ {c}
    /\ IF active = c THEN active' = NoNet /\ addr' = NoAddr ELSE UNCHANGED <<active, addr>>

-----------------------------------------------------------------------------
(* The steps of a thread *)

Does(t, step) == todo[t] # <<>> /\ Head(todo[t]) = step
Then(t, steps) == todo' = [todo EXCEPT ![t] = steps \o Tail(@)]
Only(t, steps) == todo' = [todo EXCEPT ![t] = steps]

Sighted(t) == ip' = [ip EXCEPT ![t] = addr]

(* hotspot_stop and hotspot_start.  With the first command failed the *)
(* profile is added by hand, and whether that comes up is not looked at. *)
StopHotspot(t) ==
    /\ Does(t, "stop hotspot") /\ Then(t, <<>>)
    /\ Delete(Hotspot) /\ hotspotActive' = FALSE /\ blind' = FALSE
    /\ UNCHANGED <<mode, inRange, switching, status, naming, fails, serving, site, ip, left, counters>>

StartHotspot(t) ==
    /\ Does(t, "start hotspot") /\ Then(t, <<>>)
    /\ \/ /\ profiles' = profiles \cup {Hotspot} /\ Up(Hotspot)
          /\ hotspotActive' = TRUE /\ UNCHANGED <<blind, faults>>
       \/ /\ Fault /\ Down
          /\ UNCHANGED <<profiles, hotspotActive, blind>>
       \/ /\ Fault /\ Down /\ profiles' = profiles \cup {Hotspot}
          /\ hotspotActive' = TRUE /\ blind' = TRUE
    /\ UNCHANGED <<mode, inRange, switching, status, naming, fails, serving, site, ip, left, requests, restarts>>

(* mdns_unregister.  What zeroconf raises is swallowed, the handles are  *)
(* dropped, and a registration no handle is left to is never withdrawn.  *)
Withdraw(t) ==
    /\ Does(t, "withdraw") /\ Then(t, <<>>)
    /\ \/ announced' = announced \ {held} /\ UNCHANGED <<leaked, faults>>
       \/ held # NoAddr /\ Fault /\ leaked' = leaked \cup {held} /\ UNCHANGED announced
    /\ held' = NoAddr /\ mdns' = NoAddr
    /\ UNCHANGED <<mode, nm, globals, fails, serving, site, ip, left, blind, requests, restarts>>

(* The rest of mdns_register, which logs what zeroconf raises: the name is *)
(* taken while an older registration answers, or the service fails before  *)
(* or after it has told anyone.  zeroconf is installed. *)
Announce(t) ==
    /\ Does(t, "announce") /\ Then(t, <<>>)
    /\ \/ /\ announced' = announced \cup {ip[t]} /\ held' = ip[t] /\ mdns' = ip[t]
          /\ UNCHANGED faults
       \/ /\ announced # {} /\ held' = NoAddr
          /\ UNCHANGED <<announced, mdns, faults>>
       \/ /\ Fault /\ held' \in {NoAddr, ip[t]}
          /\ announced' = announced \cup ({held'} \ {NoAddr}) /\ UNCHANGED mdns
    /\ UNCHANGED <<mode, nm, globals, leaked, fails, serving, site, ip, left, blind, requests, restarts>>

(* _try_saved_wifi, and what both of its callers make of the answer. *)
TrySaved(t) ==
    /\ Does(t, "try saved") /\ Then(t, <<"next saved">>)
    /\ left' = [left EXCEPT ![t] = Saved]
    /\ UNCHANGED <<mode, nm, globals, naming, fails, serving, site, ip, blind, counters>>

NextSaved(t) ==
    /\ Does(t, "next saved")
    /\ IF left[t] = {} THEN Then(t, HotspotStart) /\ UNCHANGED <<active, addr, left>>
       ELSE \E c \in left[t] :
            /\ left' = [left EXCEPT ![t] = @ \ {c}]
            /\ Then(t, <<"look saved">>)
            /\ Down \/ (c \in profiles \cap inRange /\ Up(c))
    /\ UNCHANGED <<mode, profiles, inRange, globals, naming, fails, serving, site, ip, blind, counters>>

LookSaved(t) ==
    /\ Does(t, "look saved")
    /\ IF active # NoNet /\ RealLan THEN Sighted(t) /\ Then(t, Register)
       ELSE UNCHANGED ip /\ Then(t, <<"next saved">>)
    /\ UNCHANGED <<mode, nm, globals, naming, fails, serving, site, left, blind, counters>>

(* _do_switch and wifi_connect *)
ForgetTarget(t) ==
    /\ Does(t, "forget target") /\ Then(t, <<>>)
    /\ Delete(site[t])
    /\ UNCHANGED <<mode, inRange, globals, naming, fails, serving, site, ip, left, blind, counters>>

ConnectTarget(t) ==
    /\ Does(t, "connect target")
    /\ \/ /\ site[t] \in inRange /\ Up(site[t])
          /\ profiles' = profiles \cup {site[t]}
          /\ Then(t, <<"look target">>)
       \/ /\ Down /\ profiles' \in {profiles, profiles \cup {site[t]}}
          /\ Then(t, <<"report failed">>)
    /\ UNCHANGED <<mode, inRange, globals, naming, fails, serving, site, ip, left, blind, counters>>

LookTarget(t) ==
    /\ Does(t, "look target")
    /\ IF addr # NoAddr THEN Sighted(t) /\ Then(t, <<"report success">>)
       ELSE UNCHANGED ip /\ Then(t, <<"report failed">>)
    /\ UNCHANGED <<mode, nm, globals, naming, fails, serving, site, left, blind, counters>>

Report(t) ==
    /\ \/ Does(t, "report success") /\ status' = "success" /\ Then(t, Register)
       \/ Does(t, "report failed") /\ status' = "failed" /\ Then(t, HotspotStart)
    /\ UNCHANGED <<mode, nm, hotspotActive, switching, naming, fails, serving, site, ip, left, blind, counters>>

Switched(t) ==
    /\ Does(t, "switched") /\ Then(t, <<>>)
    /\ switching' = FALSE
    /\ UNCHANGED <<mode, nm, hotspotActive, status, naming, fails, serving, site, ip, left, blind, counters>>

(* ensure_portable_ap.  Main gives up when it raises, the watchdog tries *)
(* again at its next tick. *)
Raise(t) == Only(t, IF t = Main THEN <<"exit">> ELSE <<>>)

CabinProfile(t) ==
    /\ Does(t, "cabin profile")
    /\ \/ profiles' = profiles \cup {Cabin} /\ Then(t, <<>>) /\ UNCHANGED faults
       \/ Fault /\ Raise(t) /\ UNCHANGED profiles
    /\ UNCHANGED <<mode, active, addr, inRange, globals, naming, fails, serving, site, ip, left, blind, requests, restarts>>

CabinUp(t) ==
    /\ Does(t, "cabin up")
    /\ \/ Cabin \in profiles /\ Up(Cabin) /\ Then(t, <<>>) /\ UNCHANGED faults
       \/ Cabin \notin profiles /\ Down /\ Raise(t) /\ UNCHANGED faults
       \/ Fault /\ Down /\ Raise(t)
    /\ UNCHANGED <<mode, profiles, inRange, globals, naming, fails, serving, site, ip, left, blind, requests, restarts>>

CabinLook(t) ==
    /\ Does(t, "cabin look")
    /\ IF (t = Main \/ active = Cabin) /\ addr \notin {NoAddr, mdns}
       THEN Sighted(t) /\ Then(t, Register)
       ELSE UNCHANGED ip /\ Then(t, <<>>)
    /\ UNCHANGED <<mode, nm, globals, naming, fails, serving, site, left, blind, counters>>

(* main *)
Begin ==
    /\ Does(Main, "begin")
    /\ IF Portable THEN Only(Main, EnsureCabin \o <<"serve">>) /\ UNCHANGED ip
       ELSE IF SiteConnected THEN Only(Main, Register \o <<"serve">>) /\ Sighted(Main)
       ELSE Only(Main, <<"try saved", "serve">>) /\ UNCHANGED ip
    /\ UNCHANGED <<mode, nm, globals, naming, fails, serving, site, left, blind, counters>>

Serve ==
    /\ Does(Main, "serve") /\ Only(Main, <<>>)
    /\ serving' = TRUE
    /\ UNCHANGED <<mode, nm, globals, naming, fails, site, ip, left, blind, counters>>

(* _watchdog: whether to act, and with what *)
Watch ==
    /\ serving /\ todo[Watchdog] = <<>>
    /\ IF Portable THEN Only(Watchdog, IF active = Cabin THEN <<"cabin look">> ELSE EnsureCabin)
       ELSE ~switching /\ ~hotspotActive /\ Only(Watchdog, <<"check">>)
    /\ UNCHANGED <<mode, nm, globals, naming, fails, serving, site, ip, left, blind, counters>>

(* Mutant: only the first address is announced. *)
CheckFirstAddress ==
    /\ Does(Watchdog, "check")
    /\ IF SiteConnected
       THEN /\ fails' = 0 /\ Sighted(Watchdog)
            /\ Then(Watchdog, IF mdns = NoAddr THEN Register ELSE <<>>)
       ELSE /\ fails' = (fails + 1) % Threshold
            /\ Then(Watchdog, IF fails' = 0 THEN <<"try saved">> ELSE <<>>)
            /\ UNCHANGED ip
    /\ UNCHANGED <<mode, nm, globals, naming, serving, site, left, blind, counters>>
(* Mutant: the count is not reset when it has been acted on. *)
CheckSavedOnce ==
    /\ Does(Watchdog, "check")
    /\ IF SiteConnected
       THEN /\ fails' = 0 /\ Sighted(Watchdog)
            /\ Then(Watchdog, IF addr # mdns THEN Register ELSE <<>>)
       ELSE /\ fails' = fails + (IF fails < Threshold THEN 1 ELSE 0)
            /\ Then(Watchdog, IF fails + 1 = Threshold THEN <<"try saved">> ELSE <<>>)
            /\ UNCHANGED ip
    /\ UNCHANGED <<mode, nm, globals, naming, serving, site, left, blind, counters>>
Check ==
    /\ Does(Watchdog, "check")
    /\ IF SiteConnected
       THEN /\ fails' = 0 /\ Sighted(Watchdog)
            /\ Then(Watchdog, IF addr # mdns THEN Register ELSE <<>>)
       ELSE /\ fails' = (fails + 1) % Threshold
            /\ Then(Watchdog, IF fails' = 0 THEN <<"try saved">> ELSE <<>>)
            /\ UNCHANGED ip
    /\ UNCHANGED <<mode, nm, globals, naming, serving, site, left, blind, counters>>

Claim(r) ==
    /\ Does(r, "claim")
    /\ switching' = TRUE /\ status' = "switching"
    /\ Only(r, HotspotStop \o <<"forget target", "connect target", "switched">>)
    /\ UNCHANGED <<mode, nm, hotspotActive, naming, fails, serving, site, ip, left, blind, counters>>

Step(t) ==
    \/ StopHotspot(t) \/ StartHotspot(t)
    \/ Withdraw(t) \/ Announce(t)
    \/ TrySaved(t) \/ NextSaved(t) \/ LookSaved(t)
    \/ ForgetTarget(t) \/ ConnectTarget(t) \/ LookTarget(t) \/ Report(t) \/ Switched(t)
    \/ CabinProfile(t) \/ CabinUp(t) \/ CabinLook(t)
    \/ t = Main /\ (Begin \/ Serve)
    \/ t = Watchdog /\ (Watch \/ Check)
    \/ t \in Requests /\ Claim(t)

-----------------------------------------------------------------------------
(* The handlers *)

Takes(r) ==
    /\ serving /\ r = requests + 1
    /\ requests' = r

(* POST /connect looks at _switching; claim sets it and starts the thread. *)
Connect(r, s) ==
    /\ Takes(r) /\ ~Portable /\ ~switching
    /\ site' = [site EXCEPT ![r] = s] /\ Only(r, <<"claim">>)
    /\ UNCHANGED <<mode, nm, globals, naming, fails, serving, ip, left, blind, faults, restarts>>

OpenHotspot(r) ==
    /\ Takes(r) /\ ~Portable /\ ~switching
    /\ Only(r, HotspotStart)
    /\ UNCHANGED <<mode, nm, globals, naming, fails, serving, site, ip, left, blind, faults, restarts>>

Resolve(name) == IF name = CabinId THEN Cabin ELSE name

(* Mutant: the name is compared as it came. *)
MayForgetByName(name) == Portable => name # Cabin /\ Resolve(name) \in profiles
MayForget(name) == Portable => Resolve(name) \in profiles \ {Cabin}

(* In site mode any profile goes, that of a hotspot that is up among them. *)
Forget(r, name) ==
    /\ Takes(r) /\ MayForget(name) /\ Delete(Resolve(name))
    /\ blind' = (blind \/ (name = Hotspot /\ hotspotActive))
    /\ UNCHANGED <<mode, inRange, globals, naming, fails, serving, todo, site, ip, left, faults, restarts>>

-----------------------------------------------------------------------------
(* The service ends by a signal, killed, or by itself, and starts again. *)

Stopped ==
    /\ hotspotActive' = FALSE /\ switching' = FALSE /\ status' = "idle"
    /\ mdns' = NoAddr /\ held' = NoAddr /\ announced' = {} /\ leaked' = {}
    /\ fails' = 0 /\ serving' = FALSE
    /\ blind' = FALSE /\ raced' = FALSE
    /\ todo' = [t \in Threads |-> IF t = Main THEN Startup ELSE <<>>]
    /\ UNCHANGED <<mode, inRange, site, ip, left, requests, faults>>

(* cleanup_service *)
Terminate ==
    /\ restarts < MaxRestarts /\ restarts' = restarts + 1
    /\ IF Portable THEN UNCHANGED <<profiles, active, addr>> ELSE Delete(Hotspot)
    /\ Stopped

Kill ==
    /\ restarts < MaxRestarts /\ restarts' = restarts + 1
    /\ Stopped /\ UNCHANGED <<profiles, active, addr>>

Exit ==
    /\ Does(Main, "exit") /\ Stopped
    /\ UNCHANGED <<profiles, active, addr, restarts>>

-----------------------------------------------------------------------------
(* The network *)

around == <<mode, profiles, globals, naming, fails, serving, todo, site, ip, left, raced, requests, restarts>>
outside == <<around, blind>>

(* An access point goes down: the driver, the radio, another program. *)
Drop(c) ==
    /\ active = c /\ Fault
    /\ active' = NoNet /\ addr' = NoAddr
    /\ blind' = (blind \/ (c = Hotspot /\ hotspotActive))
    /\ UNCHANGED <<inRange, around>>

Leave(s) ==
    /\ s \in inRange /\ Fault /\ inRange' = inRange \ {s}
    /\ IF active = s THEN active' = NoNet /\ addr' = NoAddr ELSE UNCHANGED <<active, addr>>
    /\ UNCHANGED outside

Return(s) ==
    /\ s \notin inRange /\ inRange' = inRange \cup {s}
    /\ UNCHANGED <<active, addr, faults, outside>>

AutoConnect(c) ==
    /\ active = NoNet /\ c \in profiles \cap (inRange \cup {Cabin}) /\ Up(c)
    /\ UNCHANGED <<inRange, faults, outside>>

Address ==
    /\ active # NoNet /\ addr = NoAddr /\ addr' = <<active, 1>>
    /\ UNCHANGED <<active, inRange, faults, outside>>

Renew ==
    /\ addr[2] = 1 /\ addr[1] \in Sites /\ Fault /\ addr' = <<active, 2>>
    /\ UNCHANGED <<active, inRange, outside>>

Network ==
    \/ \E s \in Sites : Leave(s) \/ Return(s)
    \/ \E c \in Sites \cup {Cabin} : AutoConnect(c)
    \/ \E c \in {Hotspot, Cabin} : Drop(c)
    \/ Address \/ Renew

Request(r) ==
    \/ \E s \in Sites : Connect(r, s)
    \/ OpenHotspot(r)
    \/ \E name \in Sites \cup {Cabin, CabinId, Hotspot} : Forget(r, name)

Busy == {t \in Threads : todo[t] # <<>>}
Racing == raced' = (raced \/ Cardinality(Busy') > 1)

Run(t) == Step(t) /\ Racing

Next ==
    \/ \E t \in Threads : Run(t)
    \/ \E r \in Requests : Request(r) /\ Racing
    \/ Terminate \/ Kill \/ Exit
    \/ Network

(* Every command ends by its timeout, the watchdog comes round every *)
(* WATCHDOG_INTERVAL_S, an interface that is up gets its address, and a *)
(* service that gave up is started again.  Nothing is asked of the phone, *)
(* the networks or NetworkManager's own reconnection. *)
Fairness == (\A t \in Threads : WF_vars(Run(t))) /\ WF_vars(Exit) /\ WF_vars(Address)

Spec == Init /\ [][Next]_vars /\ Fairness

-----------------------------------------------------------------------------
(* Properties *)

(* The board can always be reached again: over a site's network, over the *)
(* setup hotspot or over the Cabin AP, which in portable mode it has to be, *)
(* and which comes back when it went down.  But for a request that came *)
(* while another thread was at work, and for a setup hotspot that the *)
(* service takes to be up and is not. *)
Reached == active \in (IF Portable THEN {Cabin} ELSE Sites \cup {Hotspot, Cabin})
Reachable == []<>(Reached \/ raced \/ blind)

(* "连不上自动重开热点" (setup_service.py:601): the hotspot opens again *)
(* when no connection can be made, whatever failed and was asked for. *)
HotspotReopens == []<>Reached

(* Once the board stays on a network of a site with one address, that is *)
(* what is announced, by the watchdog if the registration failed at first; *)
(* but for an older registration, not withdrawn, that holds the name. *)
Steady(a) == active = a[1] /\ addr = a /\ ~hotspotActive /\ ~switching
Announced ==
    \A a \in Sites \X {1, 2} :
        <>[](Steady(a) /\ ~Portable /\ ~raced /\ leaked = {})
            => <>[](mdns = a /\ a \in announced)

(* "This deliberately never deletes a profile" (setup_service.py:253): in *)
(* portable mode the service never loses the Cabin AP's profile, whatever *)
(* name a request gives it, and comes by no temporary hotspot. *)
CabinKept ==
    [][Portable => /\ Cabin \in profiles => Cabin \in profiles'
                   /\ active' # Hotspot]_vars

(* What is announced is what the service holds the handles of, and that is *)
(* the address it believes it announces; the rest are registrations whose *)
(* withdrawal failed.  But for two threads that registered at once. *)
OneAnnouncement ==
    raced \/ (announced \subseteq leaked \cup {held} /\ mdns \in {NoAddr, held})
=============================================================================
