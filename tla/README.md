# TLA+ models of isdn4k-utils

isdn4k-utils is the collection of user-space programs for ISDN under Linux:
a PPP daemon for ISDN links (`ipppd`), a plugin that lets `pppd` dial through
CAPI (`pppdcapiplugin`), the CAPI library (`capi20`), an accounting daemon
(`isdnlog`), an answering machine (`vbox`), fax, telephone and file transfer
programs, and many small set-up tools. This directory holds models of the
parts whose correctness is a matter of protocols, timers and crossing
messages, the TLC configurations that check them, and TLAPS proofs of what
matters most. `PROJECT.json` has the machine-readable side: components, runs,
mutants, the line map, findings, hazards and theorems.

## 1. Inventory

### ipppd

One process, one thread, a `select` loop (`main.c`). All concurrency is with
the peer, with the kernel and with its own timers.

| part | state | operations | correct when |
|---|---|---|---|
| negotiation automaton, `fsm.c` | `struct fsm`: state, flags, id, reqid, seen_ack, retransmits, nakloops; one per protocol and link | lowerup, lowerdown, open, close, timeout, protreject, input (seven packet codes and the unknown ones) | a pending timer guards every wait; up and down callbacks alternate and match OPENED; only answers to the outstanding request count; negotiation and termination end |
| LCP, `lcp.c` | want/got/allow/his options per unit; echo counters and an idle timer in file scope | the automaton's callbacks; echo, idle, hang-up timers | both ends use what both granted |
| callouts and loop, `main.c` | a sorted singly linked list of (time, function, argument); link table | timeout, untimeout, calltimeout, timeleft; select | nothing runs early, nothing is lost, the loop does not sleep past a callout |
| links and phases, `main.c`, `auth.c` | `lns[]` with the unit numbers of all protocols, bundle rings, phases | link_established, network_phase, link_down, callback_phase, link_terminated | a unit belongs to one link, is freed once and not used after; rings stay rings; a link that ends comes back to PHASE_WAIT |
| CHAP, PAP, CBCP | one state per direction, ids, retransmission counters, the pending bits of `auth.c` | challenge, response, success, failure, timers, protocol reject | the network phase means that all asked for was shown; no right secret is refused for a late packet; timers fit the states; retries end |
| IPCP, IPXCP, CCP | options, the automaton, CCP reset state | automaton callbacks, reset request and ack | compression histories agree after a reset |
| the rest | `sys-linux.c`, `options.c`, hashes, RADIUS | system calls, parsing | not modelled |

Interaction: a packet goes from `select` to `get_input` to the protocol's input
function, which runs the automaton; the automaton calls back into the
protocol (options) and upwards (`up`, `down`, `finished`); both set and remove
callouts. A callback may call the automaton again before it returns (a refused
connection is closed from within `up`).

### The pppd CAPI plugin

`capiconn.c` is a library over one CAPI application: it keeps a list of
connections per controller, each with a PLCI (the call) and at most one NCCI
(the Layer 3 link on it), two table-driven state machines, a queue of
unconfirmed data blocks, and a listen state. `capiplugin.c` dials, answers and
hangs up through it, and polls for messages (`handlemessages`, `timeoutfunc`).
The controller runs at the same time; two message queues lie in between. What
is hard: a hang-up of the network crosses with everything the application
does; PLCIs, message numbers and data handles are used again; confirmations
are matched by a number that wraps; `LISTEN_CONF` names no request.

### Other programs

`capi20` (message coding, device I/O, a buffer table), `rcapid` (forwards CAPI
over TCP), `isdnlog` (D-channel decoding, rates), `vbox`, `vbox3`, `capifax`,
`ant-phone`, `eurofile`, `ipppcomp` (an LZS kernel module), `isdnctrl`,
monitors and card loaders. They are listed in `PROJECT.json` under components
with the reason why they are not modelled, or not yet.

## 2. Modules

| module | models | kind |
|---|---|---|
| `Fsm` | every function of `fsm.c` as an operator on the record `struct fsm` | operators |
| `FsmMachine` | one automaton with everything around it free | component |
| `FsmMachine_proofs` | invariants and action properties of `FsmMachine`; `FsmMachine` refines `Layer` | proofs |
| `LayerTable`, `Layer` | what the users of an automaton may see of it: changes of state with their callbacks; `FsmMachine` refines it | abstract specification |
| `PppPair` | two automata, the callbacks of `lcp.c`, a lossy line | composition |
| `PppPair_proofs` | the two ends agree on the options | proofs |
| `TimerService` | what the protocols expect of timers | abstract specification |
| `Callout` | the callout list and the `select` loop; refines `TimerService` | component |
| `Callout_proofs` | the order of the list and the bound on the sleep | proofs |
| `Daemon` | the tables of ipppd and the functions of `lcp.c`, `auth.c` and `main.c` that change them: units, rings, phases, echo and idle timers | operators |
| `Link` | ipppd with all its links, pass by pass of the main loop; the LCP of each link is an automaton of `LayerTable` | composition |
| `Link_proofs` | the invariants of `Link` | proofs |
| `Auth` | every function of `chap.c` and `upap.c` and the authentication part of `auth.c` as operators on one link | operators |
| `AuthPair` | two ends over a line that loses packets, session after session | composition |
| `AuthPair_proofs` | the invariants of `AuthPair` | proofs |
| `CapiConn` | every entry point of `capiconn.c` that touches calls, links and data, as an operator on `capi_contr` | operators |
| `CapiLine` | the library, an application and a controller with two queues | composition |
| `CapiLine_proofs` | the invariants of `CapiLine` about calls | proofs |
| `CapiData_proofs` | the ones about links and data | proofs |
| `CapiListen` | `capiconn_listen` and `LISTEN_CONF` | component |
| `CapiListen_proofs` | the invariant of `CapiListen` | proofs |
| `MC...` | instances for TLC | |

How code maps to TLA+: a C function on a structure is an operator from the
structure before the call to the one after it, so a call chain of the code is
a composition of operators and a handler is one atomic step, as it is in a
single-threaded program. Calls that leave the component (packets, CAPI
messages) are collected in the field `out` and put on the line or into the
queue by the action. Names are those of the source. Operators whose comment
begins with "Mutant" are wrong variants of the definition that follows; no
specification uses them.

`Fsm` keeps the control of `fsm.c` completely. Options are one value of `CI`;
what the callbacks make of a packet is a parameter (`verdict`, `hint`, `tough`
for `reqci`, `ret`, `try`, `looped` for `nakci`/`rejci`, `refuse` for `up`).
`FsmMachine` chooses these freely; `PppPair` computes them as `lcp_reqci`,
`lcp_nakci` and `lcp_rejci` do for one option: accepted values are
acknowledged, others are Nak'd with a value of one's own or, once `nakloops`
has reached its limit, rejected; a rejected option is left out. Three details:

* `timers` counts the pending `fsm_timeout` callouts of one automaton;
  `UNTIMEOUT` removes one and none when there is none. More than one can be
  pending, see the findings.
* `upper` is what the layer above believes: set by `up`, reset by `down`.
* `nakloops` stops at its limit; the code compares it with the limit only.
* `ackci` takes exactly what `addci` sent. In `lcp.c` the two differ in one
  test (line 846 looks at `opt` where line 695 looks at `type`), without
  effect: `options.c` and `lcp_nakci` leave the message empty for `CB_AUTH`.

`Callout` has one action per step of the loop: `Select` computes `timeleft`,
`Expire` or `Input` ends the sleep, `calltimeout` takes the head when it is
due and the handler it calls may call `timeout` and `untimeout` before it
returns, then input is handled. A time is one number; `tv_sec` and `tv_usec`
are quotient and remainder. The place of a new entry is found with the
comparison the code makes (microseconds against seconds).

`LayerTable` has the changes an automaton can make as rows, grouped by what
brings them about, with REQSENT, ACKRCVD and ACKSENT seen as one state
NEGOTIATING; `Layer` makes a specification of them, and `ImplementsLayer`
shows that `FsmMachine` keeps to it under the mapping `Seen`. `Link` then uses
the rows in place of the automaton, so that the tables of the daemon can be
explored with two links at once. The row OPENED to OPENED with `down` is the
Terminate-Ack quirk (finding `fsm_opened`) and is part of what `Link` explores.

`Daemon` and `Link`: one record `d` holds the tables, an operator stands for a
function. A pass of the loop is: timers (`calltimeout`), one packet or hang-up
per link in the order of the links, the sweep over links in PHASE_DEAD, the
loop that opens closed devices. A packet is what it does: a row of
`PacketRows`, an authentication result, a CBCP acknowledgement, an echo reply
or nothing. What is abstracted:

* `disc` is the outcome of the MP options of one LCP unit, the peer's endpoint
  or `NoMp`; it is looked up by the number of the link where the code does so.
  The comparison of PAP login names when bundling is left out, as are
  interface numbers, logins and scripts, which nothing in the tables depends
  on. Link-level CCP is off by default and left out.
* `getunit` is the search all four unit tables make.
* In `link_down` a unit number -1 indexes in front of the table; the entry
  that is written there belongs to another variable and is not modelled.
* `lcp_up` follows packets of the peer, so the line is not idle then.
  `LcpEchoTimeout` and `IdleTimeCheck` on a unit that was freed read a file
  descriptor in front of `lns[]`; the outcome of the `ioctl` is free.
* LCP is neither passive nor silent (the defaults). Signals (`kill_link`) and
  RADIUS (not compiled in by default) are left out.

`Auth` and `AuthPair`: a hash is the triple of what goes into it (id,
challenge, right secret), challenges that follow each other differ, ids of PAP
are left out because nothing reads them. `Up` and `Down` are `lcp_up` and
`lcp_down`; an end enters a session only when the other has left the one
before or is in it already, because LCP comes up by an exchange of packets
that pushes older ones out of the line. The quirk of the Terminate-Ack, which
breaks that rule for one end, is the subject of `fsm_opened` and kept out
here. `RcvProtReject` may come for either protocol at any time.

`CapiConn` keeps the state tables as sets of rows for the events the library
raises. `CapiLine` adds the application, which may connect, answer,
disconnect and send whenever it likes (a superset of what `capiplugin.c`
does), and a controller that follows the state diagrams of CAPI 2.0: it is not
part of the repository and is marked external. Assumptions on it: requests are
served in order; a released call is indicated once, after its link is gone; a
`CONNECT_CONF` that turns a call down names a PLCI; a PLCI is used again only
after `DISCONNECT_RESP`. Addresses `Ptrs` of `malloc` may run out; an incoming
call is then ignored as in `handle_incoming_call`. Memory for an NCCI never
runs out in the model. Messages the controller does not react to are not
queued. Message numbers are counted for the two requests a connection
remembers, since no other number is ever looked at.

`CapiListen` needs only the listen state, the last mask and the queues.

## 3. Runs

Passing runs:

* `fsm` (93 120 states): for every order of calls, timers and packets,
  with ids that wrap after three requests. `TimerArmed` and `UpperOnlyOpened`
  are the two invariants of the automaton that the rest of ipppd relies on;
  `OptionsFrozen` says a late Nak or Reject does not change options under a
  running connection; `UpOnlyByHandshake` that `up` comes only with an Ack for
  the outstanding request whose timer goes with it. `TerminationEnds`: a
  termination ends under any traffic, because no packet refills the counter.
  `QuietSettles`: with only timers running the automaton comes to rest.
  `ImplementsLayer`: seen from above it does nothing that `Layer` does not
  allow, so no change of state comes without its callback.
* `pair_safety` (1.6 million states): two peers, of which one asks for a value
  the other will not grant, with up to four faults (loss, hang-up, close, a
  timer that fires while its answer is on the way). `Agreement`: whenever both
  upper layers are up, what one got is what the other granted.
* `pair_live` (24 595 states): no losses. `Converges`: willing peers come
  up for good, through Naks, `maxnakloops` and the Reject that ends them.
  `CloseReachesPeer`: a close takes the other end's upper layer down.
* `callout` (79 425 states): `SecondsSorted`, `NeverOversleeps` (less than a
  second is lost by the wrong comparison), refinement of `TimerService`
  (`ImplementsService`: nothing early, nothing lost, nothing twice, seconds in
  order) and `EveryCalloutRuns`.
* `capi` (300 467 states): `OneCallPerPlci`, `SameCalls`, `SameLink`,
  `ConfirmsFindData`, `MessagesFindCall` (a wrong call or a null pointer
  otherwise), `AnsweredOnce` (late digits make the library ask about
  a call that is answered), and `EndIsReported` for every call the controller
  releases.
* `listen` (1 161 states): overlapping requests, answers read with a later
  mask, refusals: `ListenAgrees`, `ListenSettles`.

* `link` (166 215 states): one link with echo requests, an idle limit and the
  three ways of calling back; two links with authentication and a connect
  time; two links with MP, two endpoints; devices that fail to open in all of
  them. `LcpOwned`, `BundleRings`, `BundleSamePeer` and
  `NcpOwned` relate the tables to each other; `UnitIsLink` is what the
  code in `connect_time_expired` and `network_phase` takes for granted, and it
  holds only as long as no device ever failed to open; `PhaseFitsLcp`
  ties the phase to LCP and says which links marked PHASE_TERMINATE can be
  trusted to end (with callback by RFC 1570 `callback_phase` waits for the
  peer, although its comment says "take the lionk down"); `OneLinkWatched`
  that with one link the shared timer flags are right; `LinkReturns` that a link that
  terminates is opened again, whatever its peer and the other links do.
* `auth` (92 724 states): CHAP with repeated challenges, CHAP with a wrong
  secret, PAP, and PAP with a wrong password in one direction while CHAP runs
  in the other. `NetworkMeansProved` ties the phase of one end to what the
  other has shown and accepted; `RightSecretNeverFails` is about late and
  repeated answers; `CalloutsFit` relates timers and states over sessions,
  with the callout `upap_rauthack` leaves behind as the exception;
  `ServerDecides` and `ClientSettles` are the two liveness properties.

Runs whose property the code does not keep; each is a finding:

* `fsm_opened`: Terminate-Ack in OPENED (`fsm.c:586`) takes the upper layer
  down and sends a request but stays in OPENED; `fsm.h` says `up` and `down`
  are called on reaching and leaving OPENED. As a consequence the Ack to the
  new request restarts the negotiation once more, `fsm_lowerdown` leaves
  its timer behind, and an OPENED end and a closed one can answer each other
  for ever.
* `capi_ends`: `capiconn_disconnect` between `CONNECT_B3_REQ` and its
  confirmation returns `CAPICONN_OK`, the controller refuses the request, the
  link comes up and can not be disconnected any more. `dodisconnect` of the
  plugin ends in `fatal` after ten seconds.
* `link_stale`: a link that leaves its bundle without dying (the peer
  renegotiates LCP) keeps the unit numbers of the bundle; when it goes down
  again before it is in its network phase, it frees the units the rest of the
  bundle runs on (`auth.c:195`, `auth.c:235`).
* `link_idle`: `idle_timer_running` is one flag for all links and
  `lcp_echo_lowerup` does not reset it, so with two links and an idle limit
  the assertion in `RestartIdleTimer` fails (`lcp.c:359`).

Seen while modelling, without a run of their own: `timeout` compares
microseconds with seconds (`main.c:817`), so within a second the newest
callout comes first and `timeleft` is not always the time to the next one;
a connection that never got a message number has 0, so after 65536 messages a
`CONNECT_CONF` can be given to an incoming call (`capiconn.c:323`; the run
`capi` starts at 1, as the program does after its first `LISTEN_REQ`, and
stays below the wrap to 0); the `connected` callback is also called for a link
that is being disconnected (`capiconn.c:1398`).

### Bounds

| bound | value | why it is enough |
|---|---|---|
| `MaxConfReq`, `MaxTermReq`, `MaxNakLoops` | 1 to 3 (10, 2, 5 in the code) | the limits are reached and passed; the proofs hold for all values |
| `IdMod` | 3, 4 or 8 (256) | ids wrap in `fsm` and in `pair_safety`, where fewer ids in use than `IdMod` separate stale from current as 256 do |
| `TimerCap` | 3, 4 | two timers more than a correct automaton has; packets wait when it is reached, and timers then run out |
| `MaxFaults` | 2 to 4 | a loss, an early timer, a close and a hang-up in one behaviour |
| `ChanCap` | 3, 6 | in `pair_safety` what does not fit is lost, which adds losses; in `pair_live` 6 is never filled by two peers with three timers |
| `USEC`, `Start`, `LastSet`, `Cap`, `Delays` | 2, 4, 7, 3, {1, 2} | callouts that share a second in both orders, overdue ones, and a list with a head, a middle and an end; the clock runs four seconds after the last is set |
| `Plcis`, `Ptrs`, `MaxCalls` | 1 or 2, 2, 1 to 3 | a PLCI that is used again while an earlier call is being cleared; two connections at once; memory that runs out |
| `QueueCap` | 2, 3 | three messages cross in each direction |
| `Window`, `HandleMod` | 2, 3 | a full window and handles that wrap |
| `MsgMod` | 4 | the message number wraps |
| `NUM_PPP`, links | 2 (128 in the code) | a ring of two and its break-up; an LCP unit that is not the link's. A ring of three (without failures to open, 5.1 million states) was checked once with the same invariants |
| `Protocols`, `Discs` | one, two | all network protocols follow the same rule; same and different endpoint |
| `MaxOpenFails`, `EchoFails`, `MaxTimers` | 2, 2, 3 (16, any, none) | a device given up, a link closed by its echoes, stray timers; input waits when a unit has three |
| `MaxTransmits` | 2 (10) | the limit is reached after a retry |
| `IdMod` in `auth` | 2 (256) | the line keeps the order, so an answer is to the current challenge or the one before |
| `MaxInFlight` | 2 | what does not fit is lost |
| `MaxCallouts` | 2 | one callout of an old session besides the current one |

`MsgMod` is the modulus of `Request`; the wrap is reached by the counter, not
by a connection with number 0 (see above).

Deadlock is checked except in `CapiLine`, where nothing is left to do once
`MaxCalls` calls are over.

### Fairness

* `FsmMachine!FairSpec`: weak fairness of `Timeout`. The main loop sleeps no
  longer than `timeleft` and calls `calltimeout` after every wake-up; that
  pending callouts run is what `EveryCalloutRuns` checks of `Callout`.
* `PppPair!CalmSpec`: weak fairness of delivery on a line that loses nothing,
  strong fairness of timers, because a callout keeps its due time while the
  line is busy now and then. That users open and lines come up is a premise
  of `Converges` only.
* `Callout!Spec`: handlers return, the loop goes round, time passes. Input is
  not assumed.
* `Link!FairSpec`: the loop goes on (weak fairness of its last three steps),
  and a unit that is terminating, whose timer gets its turn again and again,
  runs out of retransmissions (strong fairness of `TermTimer`). The second is
  `TerminationEnds` of `FsmMachine` in the terms of `Layer`. No packet, hang-up
  or other timer is assumed.
* `AuthPair!FairSpec`: callouts run, LCP notices that its peer has left,
  packets do not stay on the line for ever (they may all be lost), and of
  Responses and Successes sent without end some arrive (strong fairness; a line
  that loses every one of them is down). Challenges and PAP packets need no
  such assumption, their senders give up.
* `CapiLine!FairSpec`, `CapiListen!Spec`: the plugin polls and the controller
  serves its queue. Nobody has to call, answer or hang up.

## 4. Proofs

`FsmMachine_proofs` proves, for all option sets, limits and id widths:

* `TypeCorrect`, `NeverWaitsUnguarded` (`TimerArmed`), `UpperLayerTold`
  (`UpperOnlyOpened`), `OptionsStay` (`OptionsFrozen`), `UpByHandshake`
  (`UpOnlyByHandshake`).
* The inductive invariant is
  `IInv == TypeOK /\ TimerArmed /\ UpperOnlyOpened /\ AckRcvdSeen`
  (theorem `Inductive`). `AckRcvdSeen` is the strengthening: in ACKRCVD an
  answer has been seen, so that a second answer to the same request is tossed.
  `TimerArmed` makes `UNTIMEOUT` in ACKSENT remove exactly one timer, which
  `UpByHandshake` needs. Each operator of `Fsm` has a lemma on what it
  keeps; the step lemma has one case per action.
* Assumptions: `NoCI` is an option list, the limits are naturals, `IdMod` is
  positive.

`Callout_proofs` proves, for every clock rate, every set of delays and lists
of any length, `ListSorted` (`SecondsSorted`) and `NoOversleep`
(`NeverOversleeps`). The invariant joins the type of the state, the order of
the list by seconds and the fact that while the loop sleeps its limit is the
time of the head or is over. The assumption that makes the wrong
comparison harmless for the order by seconds is `ClockAssumption`: the clock
shows more seconds since 1970 than a second has microseconds.

The second part of `FsmMachine_proofs` is the refinement, `LayerImplemented`:
every step of `FsmMachine` is, under the mapping `Seen`, a row of `LayerTable` with its
callback or a stuttering step. Each function of `fsm.c` has a lemma naming the
rows it may take; the step uses `IInv`, because a row says what the layer
above sees before and after, and that is known only when `upper` is never set
outside of OPENED. Since `Link` is built on the rows, this theorem is
what carries the results about `Link` back to the automaton.

`PppPair_proofs` proves `OptionsAgree` (`Agreement`) for any options that two
peers ask for, accept and suggest, lines of any length and any number of
losses, hang-ups, closes and early timers, under the hypothesis `IdsFresh`: an
id comes round only when no request with it, and no Ack of one, is left on the
line. The code has 256 ids and a packet is no longer on its way when the
counter has gone round; in the model a packet may stay for ever, so this is
said and not derived. TLC finds `IdsFresh` true throughout the instance of
`pair_safety` once there are 8 ids; with the 4 of its cfg it fails, so that run
also sees ids that come round too early. The inductive
invariant `PairInv` has for each of the two directions

* `Latest`: the requests on the line with the latest id carry the present
  options of their sender, and no older request comes after them;
* `Granted`: once the latest request is acknowledged (the Ack is on the line,
  or its sender is in ACKRCVD or up), the last grant of the other end is what
  was asked, and no older request is left that would change it.

Each function of `fsm.c` has a lemma that says which of three things it does:
it asks (with the next id, or again the same), it grants what it has just
read, or it takes the Ack of its latest request (`Does`, `Grants`, `Accepts`).
Four lemmas about lines say that each of these keeps both directions, and one
that they survive what is left of a line after losses and a hang-up (`Piece`).

`CapiListen_proofs` proves `ListenAgreement` (`ListenAgrees`) for every set of
masks and any number of requests under way. The inductive invariant
`ListenInv` adds what connects the two ends while messages cross: the library
waits only while an answer is to come, and as long as nothing was refused
every answer under way is good, the mask of the last call is the one the
controller will end with, and a state that waits for nothing fits that mask,
although the answer that brought it was to an earlier request.

`CapiLine_proofs` proves `TypeCorrect` (`TypeOK`) and, under the hypothesis
`InRound`, `PlciUnique` (`OneCallPerPlci`), `CallsAgree` (`SameCalls`),
`SearchesSucceed` (`MessagesFindCall`) and `NoSecondAnswer` (`AnsweredOnce`);
`CapiData_proofs`, on top of it, `LinksAgree` (`SameLink`) and `ConfirmsFound`
(`ConfirmsFindData`): for every set of PLCIs and of addresses, any number
of calls, queues of any length, every window and all widths of numbers.

* `InRound` says that the message number has not come round to 0. It is a
  hypothesis, not an invariant: after 65536 numbers the counter is 0 again,
  and then `find_plci_by_msgid` can give a `CONNECT_CONF` to an incoming
  call, whose number is 0 because it never got one (section 3).
* `Line` is the inductive invariant for the calls. `CallFits` says for each
  PLCI which messages may be under way in which state of the controller, and
  when a connection has that PLCI: after the `DISCONNECT_RESP` that
  ends a call nothing but stale confirmations is left, so the next
  call on the same PLCI starts clean; a connection has a PLCI only after the
  offer or the confirmation was read. `AppOrder` and `CapiOrder` say that what
  ends a call comes last in its queue; `Numbers` that a `CONNECT_REQ` or
  `CONNECT_CONF` under way has a connection that waits for its number, and
  that no two under way have the same one. The numbers of connections are
  smaller than the next one, which is what a wrap would break.
* `Links` is the one for the links on the calls: a link that the library takes
  for usable, or will once it has read what is under way, is up or its end
  is under way; the end of a link is told once and answered once before the
  next link of the call begins. It needs `Line`, because a message to a
  connection must be about the call that connection has.
* `Datas` is the one for the data: the `ackqueue` of a usable link is, in this
  order, the confirmations under way, the blocks that the controller has yet
  to confirm and, while the link is up, the requests under way (`Parts`); its
  handles follow each other modulo `HandleMod` up to the next handle, and there
  are at most `Window` of them. A call has no data under way before its link is
  known to the library, and none of an earlier link of the same PLCI is left
  when the next one comes up. So the handle of a `DATA_B3_CONF` is the one at
  the head of the queue, and `capi_del_ack` removes the block that was meant.
  The proof uses `WindowAssumption`, that a window is no larger than the number of handles
  (8 and 65536 in the code): with a larger one two unconfirmed blocks would have
  the same handle.

A handler of `capiconn_inject` has a lemma of its own saying what it may do to
the list and what it sends (`Wakes`, `Clears`, `Confirms`, `Mild`, ...); the
step lemmas see only those descriptions.

`AuthPair_proofs` proves `AuthTypes` (`TypeOK`), `AuthCallouts`
(`CalloutsFit`), `AuthRightSecret` (`RightSecretNeverFails`) and `AuthNetwork`
(`NetworkMeansProved`) for every set-up of the two ends, every capacity of the
line, number of transmissions and id width. `AuthInv` joins

* `Good`: the states a link can be in between two handlers, the callouts each
  goes with, and what a passed state says about the peer's secret;
* `LinesFit`: what may be on the line. A Response fits its challenge and the
  sender's secret; a Success or an Ack is there only if the sender, while
  it is up, still stands by it. This is the part without which a late packet
  could do anything;
* `AheadAlone`: an end that is in a session its peer is not in yet has
  heard nothing, so it has passed nothing of the peer's checks;
* `BothKnow`: in a session that both are in, what we think passed did.

One predicate, `Moves`, says what any handler may do to a link (it stays good,
takes back nothing it has told the peer, does not come up by itself); the lemmas
about the operators of `Auth` show it for each of them, and the step lemma has
one case per action of the pair.

`Link_proofs` proves eight invariants for every number of links, all sets of
protocols and endpoints and all limits: `LinkTyped` (`TypeOK`),
`LcpUnitsOwned` (`LcpOwned`), `UnitsAreLinks` (`UnitIsLink`), `RingsKept`
(`BundleRings`), `RingsSamePeer` (`BundleSamePeer`), `NcpUnitsOwned`
(`NcpOwned`), `PhasesFit` (`PhaseFitsLcp`) and `WatchGoesOn`
(`OneLinkWatched`). `LinkInv` (theorem `LinkInductive`) holds between two
calls of the main loop and consists of

* `LinkFits` and `UnitFits`: links and LCP units point at each other, a
  closed device is in no ring and waits, a link of a ring has LCP up, a free unit
  is in INITIAL, `upper` is set in OPENED only;
* `Rings`: `bundle_next` is injective, so it is a permutation. That a link has
  a predecessor in its ring (the search in `link_down` ends) and that there is
  a unit for a link that opens (`lcp_getunit` does not fail) follow by
  counting, with the theorems on finite sets;
* `OwnUnits`: without MP there are no rings and units of network protocols are
  owned one to one by links that are up;
* `SameNumbers`, `SamePeers`, `InTurn`: as long as no device failed to
  open. `InTurn` is the one that took a strengthening: unit and link get the
  same number only because the sweep closes devices and the next part of the
  pass opens them in the same order, before any other link can take the unit;
  so the place of the loop is part of the invariant;
* `Ending`, `Alone`, `EchoFits`, `IdleFits`: the phase TERMINATE, and with one
  link the callouts and flags of `lcp.c`.

Each conjunct was first checked with TLC, on the instances of `link` and on
three links with MP. Assumptions: at least one link, `NoMp` is not an endpoint,
the limits are naturals. `Ring` is the smallest set closed under
`bundle_next`, a definition without recursion, so that "all links of a ring"
follows from "neighbours" without induction.

Only model-checked, and why:

* all liveness properties and everything under fairness: the prover has
  neither fairness nor ENABLED;
* the refinement of `TimerService`: it counts pending callouts with bags,
  and the provers have no theory of bags;
* `Agreement` of `PppPair` when an id comes round too early (not `IdsFresh`).

The runs that expect a violation have nothing to prove.

## 5. Not modelled, and what comes next

Not modelled: message coding and formatting, device and system calls, parsing
of options and phone numbers, hashes; in `capiconn.c` DTMF and charge
information, which only pass data on, and adding and removing controllers,
which happens before the first and after the last message; in `lcp.c` the
options one by one; in ipppd signals, child processes and RADIUS.

The repository has about 177 000 lines in 449 implementation files, most of
them in programs that decode, tabulate and print (isdnlog and its rate tables
alone are a third), talk to X11 or GTK, load firmware, or are generated. The
map covers the protocol core of ipppd and of the CAPI plugin, a few per cent
of the whole; the share says how much of the collection is of this kind, not
how much of a modelled component is missing.

Plan, in this order:

1. `Ccp` on `Fsm`, with reset requests and history numbers (`ccp.c`,
   `ipppcomp`): histories agree again after a reset.
2. `capiplugin.c`: number lists, callback and demand dialling as the
   application of `CapiLine`; the buffer table of `capi20.c`.
3. The DLE protocol of `vbox` and its locking of the message box.

## 6. Running

    tlc -config MCFsmMachine.cfg MCFsmMachine
    tlapm FsmMachine_proofs.tla
    tlapm PppPair_proofs.tla
    tlapm Callout_proofs.tla
    tlapm CapiListen_proofs.tla
    tlapm CapiLine_proofs.tla
    tlapm CapiData_proofs.tla
    tlapm AuthPair_proofs.tla
    tlapm Link_proofs.tla

`link` and `auth` take about three minutes each with two workers, the others
no more than one. `Link_proofs`, `CapiLine_proofs` and `CapiData_proofs` take
about five minutes each, the other proof modules no more than two.
