------------------------- MODULE CapiListen_proofs -------------------------
(***************************************************************************)
(* What the library believes about listening, proved for every set of      *)
(* masks and any number of requests that overlap.                          *)
(***************************************************************************)
EXTENDS CapiListen, SequenceTheorems, TLAPS

ListenStates == {"NONE", "ACTIVE"} \cup Wait
Events == {"REQ", "CONF_ERROR", "CONF_EMPTY", "CONF_OK"}

(* Type correctness of the card and of the controller.                     *)
TypeInv == /\ state \in ListenStates /\ cipmask \in Masks /\ active \in Masks
           /\ reqs \in Seq(Masks) /\ confs \in Seq(BOOLEAN) /\ refused \in BOOLEAN

(* The library waits only while an answer is to come.                      *)
WaitsForAnswer == state \in Wait => reqs # <<>> \/ confs # <<>>

(* As long as nothing was turned down, every answer under way is good, ... *)
AllGood == ~refused => \A i \in 1 .. Len(confs) : confs[i] = TRUE

(* ... the mask of the last call is the one the controller will end with,  *)
LastMask == ~refused => cipmask = IF reqs = <<>> THEN active ELSE reqs[Len(reqs)]

(* ... and a state that waits for nothing was set for that mask, although  *)
(* the answer may have been the one to an earlier request.                 *)
StateFitsMask == ~refused /\ state \notin Wait => (state = "ACTIVE" <=> cipmask # 0)

ListenInv == TypeInv /\ WaitsForAnswer /\ AllGood /\ LastMask /\ StateFitsMask

-----------------------------------------------------------------------------
(* A row that is the only one for its state and event is taken.            *)
LEMMA OnlyRow ==
  ASSUME NEW s, NEW e, NEW t, <<s, e, t>> \in listentable,
         \A r \in listentable : r[1] = s /\ r[2] = e => r[3] = t
  PROVE  listen_change_state(s, e) = t
  <1> DEFINE rows == {r \in listentable : r[1] = s /\ r[2] = e}
  <1>1. <<s, e, t>> \in rows
    OBVIOUS
  <1>2. (CHOOSE r \in rows : TRUE) \in rows
    BY <1>1
  <1>3. (CHOOSE r \in rows : TRUE)[3] = t
    BY <1>2
  <1>4. listen_change_state(s, e) = IF rows = {} THEN s ELSE (CHOOSE r \in rows : TRUE)[3]
    BY DEF listen_change_state
  <1> HIDE DEF rows
  <1>5. QED
    BY <1>1, <1>3, <1>4

(* An event without a row changes nothing.                                 *)
LEMMA NoRow ==
  ASSUME NEW s, NEW e, \A r \in listentable : ~(r[1] = s /\ r[2] = e)
  PROVE  listen_change_state(s, e) = s
  BY DEF listen_change_state

(* What the table does with each event.                                    *)
LEMMA ChangeFacts ==
  ASSUME NEW s \in ListenStates
  PROVE  /\ listen_change_state(s, "REQ") \in Wait
         /\ s \notin Wait => \A e \in {"CONF_ERROR", "CONF_EMPTY", "CONF_OK"} :
                               listen_change_state(s, e) = s
         /\ s \in Wait => /\ listen_change_state(s, "CONF_ERROR") \in {"NONE", "ACTIVE"}
                          /\ listen_change_state(s, "CONF_EMPTY") = "NONE"
                          /\ listen_change_state(s, "CONF_OK") = "ACTIVE"
  <1>1. CASE s = "NONE"
    <2>1. listen_change_state(s, "REQ") = "WAIT_CONF"
      BY <1>1, OnlyRow DEF listentable
    <2>2. \A e \in {"CONF_ERROR", "CONF_EMPTY", "CONF_OK"} : listen_change_state(s, e) = s
      BY <1>1, NoRow DEF listentable
    <2>3. QED
      BY <1>1, <2>1, <2>2 DEF Wait
  <1>2. CASE s = "ACTIVE"
    <2>1. listen_change_state(s, "REQ") = "ACTIVE_WAIT_CONF"
      BY <1>2, OnlyRow DEF listentable
    <2>2. \A e \in {"CONF_ERROR", "CONF_EMPTY", "CONF_OK"} : listen_change_state(s, e) = s
      BY <1>2, NoRow DEF listentable
    <2>3. QED
      BY <1>2, <2>1, <2>2 DEF Wait
  <1>3. CASE s \in Wait
    <2>1. listen_change_state(s, "REQ") = s
      BY <1>3, NoRow DEF listentable, Wait
    <2>2. listen_change_state(s, "CONF_EMPTY") = "NONE"
      BY <1>3, OnlyRow DEF listentable, Wait
    <2>3. listen_change_state(s, "CONF_OK") = "ACTIVE"
      BY <1>3, OnlyRow DEF listentable, Wait
    <2>4. listen_change_state(s, "CONF_ERROR") \in {"NONE", "ACTIVE"}
      <3>1. CASE s = "WAIT_CONF"
        <4>1. listen_change_state(s, "CONF_ERROR") = "NONE"
          BY <3>1, OnlyRow DEF listentable
        <4>2. QED
          BY <4>1
      <3>2. CASE s = "ACTIVE_WAIT_CONF"
        <4>1. listen_change_state(s, "CONF_ERROR") = "ACTIVE"
          BY <3>2, OnlyRow DEF listentable
        <4>2. QED
          BY <4>1
      <3>3. QED
        BY <1>3, <3>1, <3>2 DEF Wait
    <2>5. QED
      BY <1>3, <2>1, <2>2, <2>3, <2>4
  <1>4. QED
    BY <1>1, <1>2, <1>3 DEF ListenStates, Wait

-----------------------------------------------------------------------------
LEMMA ListenInit == Init => ListenInv
  <1> SUFFICES ASSUME Init PROVE ListenInv
    OBVIOUS
  <1>1. <<>> \in Seq(Masks) /\ <<>> \in Seq(BOOLEAN) /\ 0 \in Masks
    BY ListenAssumption
  <1>2. TypeInv
    BY <1>1, Zenon DEF Init, TypeInv, ListenStates
  <1>3. QED
    BY <1>2 DEF Init, ListenInv, WaitsForAnswer, AllGood, LastMask, StateFitsMask, Wait

(* A new call: the state waits, and the mask is the one of the last        *)
(* request in the queue.                                                   *)
LEMMA ListenStep ==
  ASSUME ListenInv, NEW mask \in Masks, capiconn_listen(mask) PROVE ListenInv'
  <1>1. /\ reqs' = Append(reqs, mask) /\ cipmask' = mask
        /\ state' = listen_change_state(state, "REQ")
        /\ confs' = confs /\ active' = active /\ refused' = refused
    BY DEF capiconn_listen
  <1>2. state' \in Wait
    BY <1>1, ChangeFacts DEF ListenInv, TypeInv
  <1>3. reqs' \in Seq(Masks) /\ reqs' # <<>> /\ reqs'[Len(reqs')] = mask
    BY <1>1 DEF ListenInv, TypeInv
  <1>4. TypeInv'
    BY <1>1, <1>2, <1>3 DEF ListenInv, TypeInv, ListenStates
  <1>5. WaitsForAnswer' /\ StateFitsMask'
    BY <1>2, <1>3 DEF WaitsForAnswer, StateFitsMask
  <1>6. AllGood' /\ LastMask'
    BY <1>1, <1>3 DEF ListenInv, AllGood, LastMask
  <1>7. QED
    BY <1>4, <1>5, <1>6 DEF ListenInv

(* An answer: a state that waits is set for the mask of the last call, one *)
(* that does not is left alone.                                            *)
LEMMA ConfStep ==
  ASSUME ListenInv, ListenConf PROVE ListenInv'
  <1> DEFINE e == IF ~Head(confs) THEN "CONF_ERROR"
                  ELSE IF cipmask = 0 THEN "CONF_EMPTY" ELSE "CONF_OK"
  <1>1. state' = listen_change_state(state, e)
    BY DEF ListenConf
  <1>2. /\ e \in {"CONF_ERROR", "CONF_EMPTY", "CONF_OK"}
        /\ Head(confs) = TRUE => e = IF cipmask = 0 THEN "CONF_EMPTY" ELSE "CONF_OK"
    OBVIOUS
  <1> HIDE DEF e
  <1>3. /\ confs # <<>> /\ confs' = Tail(confs)
        /\ cipmask' = cipmask /\ reqs' = reqs /\ active' = active /\ refused' = refused
    BY DEF ListenConf
  <1>4. state \in ListenStates /\ confs \in Seq(BOOLEAN)
    BY DEF ListenInv, TypeInv
  <1>5. /\ confs' \in Seq(BOOLEAN) /\ Len(confs') = Len(confs) - 1 /\ Len(confs) > 0
        /\ \A i \in 1 .. Len(confs') : confs'[i] = confs[i + 1]
        /\ Head(confs) = confs[1] /\ Len(confs) \in Nat
    BY <1>3, <1>4
  <1>6. state \notin Wait => state' = state
    BY <1>1, <1>2, <1>4, ChangeFacts
  <1>7. /\ state' \in {"NONE", "ACTIVE"}
        /\ state \in Wait /\ e = "CONF_EMPTY" => state' = "NONE"
        /\ state \in Wait /\ e = "CONF_OK" => state' = "ACTIVE"
    BY <1>1, <1>2, <1>4, <1>6, ChangeFacts, ZenonT(60) DEF ListenStates
  <1>8. TypeInv'
    BY <1>3, <1>5, <1>7 DEF ListenInv, TypeInv, ListenStates
  <1>9. WaitsForAnswer'
    BY <1>7 DEF WaitsForAnswer, Wait
  <1>10. ASSUME ~refused, NEW i \in 1 .. Len(confs) PROVE confs[i] = TRUE
    BY <1>10 DEF ListenInv, AllGood
  <1>11. AllGood'
    <2> SUFFICES ASSUME ~refused, NEW i \in 1 .. Len(confs') PROVE confs'[i] = TRUE
      BY <1>3 DEF AllGood
    <2>1. i + 1 \in 1 .. Len(confs) /\ confs'[i] = confs[i + 1]
      BY <1>5
    <2>2. QED
      BY <1>10, <2>1
  <1>12. LastMask'
    BY <1>3 DEF ListenInv, LastMask
  <1>13. StateFitsMask'
    <2> SUFFICES ASSUME ~refused PROVE state' = "ACTIVE" <=> cipmask # 0
      BY <1>3 DEF StateFitsMask
    <2>1. 1 \in 1 .. Len(confs)
      BY <1>5
    <2>2. Head(confs) = TRUE
      BY <1>5, <1>10, <2>1
    <2>3. CASE state \in Wait
      BY <1>2, <1>7, <2>2, <2>3
    <2>4. CASE state \notin Wait
      BY <1>6, <2>4 DEF ListenInv, StateFitsMask
    <2>5. QED
      BY <2>3, <2>4
  <1>14. QED
    BY <1>8, <1>9, <1>11, <1>12, <1>13 DEF ListenInv

(* The controller serves a request.                                        *)
LEMMA ServeStep ==
  ASSUME ListenInv, Serve PROVE ListenInv'
  <1>1. PICK ok \in BOOLEAN :
          /\ confs' = Append(confs, ok)
          /\ active' = IF ok THEN Head(reqs) ELSE active
          /\ refused' = (refused \/ ~ok)
    BY DEF Serve
  <1>2. reqs # <<>> /\ reqs' = Tail(reqs) /\ state' = state /\ cipmask' = cipmask
    BY DEF Serve
  <1>3. /\ reqs \in Seq(Masks) /\ confs \in Seq(BOOLEAN)
        /\ active \in Masks /\ refused \in BOOLEAN
    BY DEF ListenInv, TypeInv
  <1>4. /\ Head(reqs) \in Masks /\ Head(reqs) = reqs[1] /\ Len(reqs) \in Nat
        /\ Len(reqs) > 0 /\ reqs' \in Seq(Masks) /\ Len(reqs') = Len(reqs) - 1
        /\ \A i \in 1 .. Len(reqs') : reqs'[i] = reqs[i + 1]
    BY <1>2, <1>3
  <1>5. /\ confs' \in Seq(BOOLEAN) /\ confs' # <<>> /\ Len(confs') = Len(confs) + 1
        /\ Len(confs) \in Nat /\ confs'[Len(confs) + 1] = ok
        /\ \A i \in 1 .. Len(confs) : confs'[i] = confs[i]
    BY <1>1, <1>3
  <1>6. TypeInv'
    BY <1>1, <1>2, <1>3, <1>4, <1>5 DEF ListenInv, TypeInv
  <1>7. WaitsForAnswer'
    BY <1>5 DEF WaitsForAnswer
  <1>8. AllGood'
    <2> SUFFICES ASSUME ~refused', NEW i \in 1 .. Len(confs') PROVE confs'[i] = TRUE
      BY DEF AllGood
    <2>1. refused = FALSE /\ ok = TRUE
      BY <1>1, <1>3
    <2>2. CASE i = Len(confs) + 1
      BY <1>5, <2>1, <2>2
    <2>3. CASE i # Len(confs) + 1
      <3>1. i \in 1 .. Len(confs)
        BY <1>5, <2>3
      <3>2. QED
        BY <1>5, <2>1, <3>1 DEF ListenInv, AllGood
    <2>4. QED
      BY <2>2, <2>3
  <1>9. LastMask'
    <2> SUFFICES ASSUME ~refused'
                 PROVE  cipmask' = IF reqs' = <<>> THEN active' ELSE reqs'[Len(reqs')]
      BY DEF LastMask
    <2>1. /\ refused = FALSE /\ ok = TRUE /\ active' = reqs[1]
          /\ cipmask = reqs[Len(reqs)]
      BY <1>1, <1>2, <1>3, <1>4 DEF ListenInv, LastMask
    <2>2. CASE Len(reqs) = 1
      <3>1. reqs' = <<>>
        BY <1>4, <2>2, EmptySeq
      <3>2. QED
        BY <1>2, <2>1, <2>2, <3>1
    <2>3. CASE Len(reqs) # 1
      <3>1. Len(reqs') \in 1 .. Len(reqs') /\ reqs' # <<>>
        BY <1>4, <2>3
      <3>2. reqs'[Len(reqs')] = reqs[Len(reqs)]
        BY <1>4, <3>1
      <3>3. QED
        BY <1>2, <2>1, <3>1, <3>2
    <2>4. QED
      BY <2>2, <2>3
  <1>10. StateFitsMask'
    BY <1>1, <1>2, <1>3 DEF ListenInv, StateFitsMask
  <1>11. QED
    BY <1>6, <1>7, <1>8, <1>9, <1>10 DEF ListenInv

(* The invariant holds in every reachable state.                           *)
THEOREM ListenInductive == Spec => []ListenInv
  <1>1. Init => ListenInv
    BY ListenInit
  <1>2. ListenInv /\ [Next]_vars => ListenInv'
    <2> SUFFICES ASSUME ListenInv, [Next]_vars PROVE ListenInv'
      OBVIOUS
    <2>1. CASE UNCHANGED vars
      BY <2>1 DEF vars, ListenInv, TypeInv, WaitsForAnswer, AllGood, LastMask, StateFitsMask
    <2>2. QED
      BY <2>1, ListenStep, ConfStep, ServeStep DEF Next
  <1>3. QED
    BY <1>1, <1>2, PTL DEF Spec

(* However many calls of capiconn_listen overlap, and however the          *)
(* controller answers, the library ends up knowing whether calls will be   *)
(* reported, for every set of masks and every number of calls.             *)
THEOREM ListenAgreement == Spec => []ListenAgrees
  <1>1. ListenInv => ListenAgrees
    BY DEF ListenInv, TypeInv, WaitsForAnswer, LastMask, StateFitsMask, ListenAgrees,
           capiconn_listenstate
  <1>2. QED
    BY <1>1, ListenInductive, PTL
=============================================================================
