---------------------------- MODULE StoreMapProofs ----------------------------
(***************************************************************************)
(* What the map of the sessions is in a store that is well linked and      *)
(* keeps its keys and its UUIDs apart, and which operation of SessionMap   *)
(* each way to write slots and links is.  Nothing here depends on who      *)
(* writes the store: SessionStoreProofs uses it for one caller at a time,  *)
(* MShieldStoreProofs for the hooks of many workers.                       *)
(***************************************************************************)
EXTENDS StoreMap, ShmStoreProofs, FiniteSetTheorems, FunctionTheorems

UuidsApart(sess) ==
  /\ \A h \in UsedSessions(sess) : sess[h].uuid \in Uuid
  /\ \A g, h \in UsedSessions(sess) : sess[g].uuid = sess[h].uuid => g = h

(* What the invariants of the store say of its two arrays.                 *)
StoreOK(sess, ck) ==
  /\ StoreTypeOK(sess, ck)
  /\ WellLinked(sess, ck)
  /\ KeysInv(sess, ck)
  /\ UuidsApart(sess)

(* The map has the session of each used slot under its UUID.               *)
LEMMA LiveAt ==
  ASSUME NEW sess, NEW ck, NEW h \in UsedSessions(sess), UuidsApart(sess)
  PROVE  /\ sess[h].uuid \in Uuids(sess)
         /\ LiveOf(sess, ck)[sess[h].uuid] = SessionIn(sess, ck, h)
<1>1. sess[h].uuid \in Uuids(sess)
  BY DEF Uuids
<1>2. SlotOf(sess, sess[h].uuid) = h
  BY DEF SlotOf, UuidsApart
<1>3. QED BY <1>1, <1>2 DEF LiveOf

(* A function with those sessions under those UUIDs is the map.            *)
LEMMA LiveIs ==
  ASSUME NEW sess, NEW ck, UuidsApart(sess),
         NEW m, m = [u \in Uuids(sess) |-> m[u]],
         \A h \in UsedSessions(sess) : m[sess[h].uuid] = SessionIn(sess, ck, h)
  PROVE  LiveOf(sess, ck) = m
<1>1. ASSUME NEW u \in Uuids(sess)
      PROVE  LiveOf(sess, ck)[u] = m[u]
  <2>1. PICK h \in UsedSessions(sess) : u = sess[h].uuid
    BY DEF Uuids
  <2>2. QED BY <2>1, LiveAt
<1>2. LiveOf(sess, ck) = [u \in Uuids(sess) |-> LiveOf(sess, ck)[u]]
  BY DEF LiveOf
<1>3. QED BY <1>1, <1>2

-----------------------------------------------------------------------------
(* Jars as maps.                                                           *)

(* The cookies of a chain that are in place k of its jar.                  *)
InPlace(ck, a, k) == AtPlace(ck, Chain(ck, a), k)

(* A cookie stays in its place while its name and location stay.           *)
LEMMA PlaceKept ==
  ASSUME NEW ck, NEW k1, NEW c, SameKey(ck, c, k1, c)
  PROVE  Place(k1, c) = Place(ck, c)
BY DEF Place, SameKey

(* A used cookie slot has a place.                                         *)
LEMMA PlaceIsPlace ==
  ASSUME NEW ck, CookiesNamed(ck), NEW c \in UsedCookies(ck)
  PROVE  Place(ck, c) \in Places
<1>1. ck[c].location_id \in Location /\ c \in CookieSlot
  BY DEF CookiesNamed, UsedCookies
<1>2. QED BY <1>1 DEF Place, Places

(* No name that fits is the mark of a place of its own.                    *)
LEMMA EmptyNotExact == "empty" \notin Exact
BY DataAssumption DEF Exact

(* The cookies of a session are in different places.                       *)
LEMMA PlacesApart ==
  ASSUME NEW sess, NEW ck, StoreOK(sess, ck), NEW h \in UsedSessions(sess),
         NEW c \in JarOf(sess, ck, h), NEW d \in JarOf(sess, ck, h),
         Place(ck, c) = Place(ck, d)
  PROVE  c = d
<1>1. CASE ck[c].name \in Exact /\ ck[d].name \in Exact
  <2>1. SameKey(ck, c, ck, d)
    BY <1>1 DEF Place, SameKey
  <2>2. QED BY <1>1, <2>1 DEF StoreOK, KeysInv, KeysApart
<1>2. CASE ~ (ck[c].name \in Exact /\ ck[d].name \in Exact)
  BY <1>2, EmptyNotExact DEF Place
<1>3. QED BY <1>1, <1>2

(* So one that is in a place is the only one there.                        *)
LEMMA FoundIsOnly ==
  ASSUME NEW sess, NEW ck, NEW h \in UsedSessions(sess), StoreOK(sess, ck),
         NEW k, NEW c \in InPlace(ck, sess[h].cookiestore_index, k)
  PROVE  /\ c \in JarOf(sess, ck, h) /\ c \in UsedCookies(ck)
         /\ Place(ck, c) = k
         /\ \A d \in InPlace(ck, sess[h].cookiestore_index, k) : d = c
<1>1. c \in JarOf(sess, ck, h) /\ Place(ck, c) = k
  BY DEF InPlace, AtPlace, JarOf
<1>2. c \in UsedCookies(ck)
  BY <1>1, JarsFacts DEF StoreOK
<1>3. ASSUME NEW d \in InPlace(ck, sess[h].cookiestore_index, k)
      PROVE  d = c
  <2>1. d \in JarOf(sess, ck, h) /\ Place(ck, d) = k
    BY DEF InPlace, AtPlace, JarOf
  <2>2. QED BY <1>1, <2>1, PlacesApart
<1>4. QED BY <1>1, <1>2, <1>3

(* What the map has in a place.                                            *)
LEMMA JarMapIn ==
  ASSUME NEW ck, NEW a, NEW k \in Places
  PROVE  JarMap(ck, a)[k] = IF InPlace(ck, a, k) = {} THEN NoCookie
                            ELSE ck[CHOOSE d \in InPlace(ck, a, k) : TRUE].value
BY DEF JarMap, InPlace

(* Its value is in the map of the session.                                 *)
LEMMA JarMapAt ==
  ASSUME NEW sess, NEW ck, NEW h \in UsedSessions(sess), StoreOK(sess, ck),
         NEW k \in Places, NEW c \in InPlace(ck, sess[h].cookiestore_index, k)
  PROVE  JarMap(ck, sess[h].cookiestore_index)[k] = ck[c].value
<1> DEFINE found == InPlace(ck, sess[h].cookiestore_index, k)
<1>1. found = {c}
  <2>1. \A d \in found : d = c
    BY FoundIsOnly
  <2>2. QED BY <2>1
<1>2. (CHOOSE d \in found : TRUE) = c
  BY <1>1
<1> HIDE DEF found
<1>3. QED BY <1>1, <1>2, JarMapIn DEF found

(* In a place where no cookie of the session is there is none.             *)
LEMMA JarMapNone ==
  ASSUME NEW ck, NEW a, NEW k \in Places, InPlace(ck, a, k) = {}
  PROVE  JarMap(ck, a)[k] = NoCookie
BY DEF JarMap, InPlace

(* No value of a cookie is taken for its absence.                          *)
LEMMA NoCookieIsNoValue == NoCookie \notin CookieValue
BY DataAssumption DEF NoCookie, ClearedCookie

(* When the cookies with key k are the same slots, with their values, the  *)
(* maps agree on k.                                                        *)
LEMMA JarMapAgrees ==
  ASSUME NEW ck, NEW a, NEW k1, NEW a1, NEW j \in Places,
         InPlace(k1, a1, j) = InPlace(ck, a, j),
         \A c \in InPlace(ck, a, j) : k1[c].value = ck[c].value
  PROVE  JarMap(k1, a1)[j] = JarMap(ck, a)[j]
<1>1. CASE InPlace(ck, a, j) = {}
  BY <1>1, JarMapIn
<1>2. CASE InPlace(ck, a, j) # {}
  <2>1. PICK c : c = CHOOSE d \in InPlace(ck, a, j) : TRUE
    OBVIOUS
  <2>2. c \in InPlace(ck, a, j)
    BY <1>2, <2>1
  <2>3. c = CHOOSE d \in InPlace(k1, a1, j) : TRUE
    BY <2>1
  <2>4. QED BY <1>2, <2>1, <2>2, <2>3, JarMapIn
<1>3. QED BY <1>1, <1>2

(* A slot that has the jar another one had has its map.                    *)
LEMMA JarMapSame ==
  ASSUME NEW sess, NEW ck, NEW g, NEW s1, NEW k1, NEW g1,
         SameJar(sess, ck, g, s1, k1, g1)
  PROVE  JarMap(k1, s1[g1].cookiestore_index) = JarMap(ck, sess[g].cookiestore_index)
<1> DEFINE a  == sess[g].cookiestore_index
           a1 == s1[g1].cookiestore_index
<1>1. \A x : InPlace(k1, a1, x) = InPlace(ck, a, x)
  BY DEF SameJar, SameCookie, JarOf, InPlace, AtPlace, Place
<1>2. \A x : \A c \in InPlace(ck, a, x) :
        k1[c].value = ck[c].value
  BY DEF SameJar, SameCookie, JarOf, InPlace, AtPlace, Place
<1> HIDE DEF a, a1
<1>3. \A j \in Places : JarMap(k1, a1)[j] = JarMap(ck, a)[j]
  BY <1>1, <1>2, JarMapAgrees
<1>4. JarMap(k1, a1) = JarMap(ck, a)
  BY <1>3 DEF JarMap
<1>5. QED BY <1>4 DEF a, a1

(* Two maps that agree except in place k.                                  *)
SameElsewhere(ck, a, k, k1, a1) ==
  \A j \in Places : j # k => JarMap(k1, a1)[j] = JarMap(ck, a)[j]

(* A map over the places is determined by its values.                      *)
LEMMA JarMapIs ==
  ASSUME NEW ck, NEW a, NEW k1, NEW a1,
         NEW k \in Places, SameElsewhere(ck, a, k, k1, a1)
  PROVE  JarMap(k1, a1) = [JarMap(ck, a) EXCEPT ![k] = JarMap(k1, a1)[k]]
<1> DEFINE m == JarMap(ck, a)
<1>1. /\ DOMAIN m = Places
      /\ m = [j \in Places |-> m[j]]
      /\ JarMap(k1, a1) = [j \in Places |-> JarMap(k1, a1)[j]]
  BY DEF JarMap
<1>2. \A j \in Places :
        JarMap(k1, a1)[j] = [m EXCEPT ![k] = JarMap(k1, a1)[k]][j]
  BY <1>1 DEF SameElsewhere
<1>3. QED BY <1>1, <1>2

(* Only place k of the jar of slot h has changed.                          *)
PutInJar(sess, ck, h, k, value, s1, k1) ==
  /\ JarMap(k1, s1[h].cookiestore_index) =
       [JarMap(ck, sess[h].cookiestore_index) EXCEPT ![k] = value]
  /\ \A g \in UsedSessions(sess) \ {h} :
       JarMap(k1, s1[g].cookiestore_index) = JarMap(ck, sess[g].cookiestore_index)

(* A deleted cookie is gone from the map of its session, and from no other. *)
LEMMA JarMapLeaves ==
  ASSUME NEW sess, NEW ck, NEW h \in UsedSessions(sess), StoreOK(sess, ck),
         NEW k \in Places,
         NEW c \in InPlace(ck, sess[h].cookiestore_index, k),
         NEW s1, NEW k1, LeavesJar(sess, ck, h, c, s1, k1)
  PROVE  PutInJar(sess, ck, h, k, NoCookie, s1, k1)
<1> DEFINE a  == sess[h].cookiestore_index
           a1 == s1[h].cookiestore_index
<1>1. /\ c \in JarOf(sess, ck, h) /\ c \in UsedCookies(ck)
      /\ Place(ck, c) = k
      /\ \A d \in InPlace(ck, a, k) : d = c
  BY FoundIsOnly
<1>2. \A g \in UsedSessions(sess) : JarOf(sess, ck, g) \subseteq UsedCookies(ck)
  BY JarsFacts DEF StoreOK
<1>3. \A x : InPlace(k1, a1, x) = InPlace(ck, a, x) \ {c}
  BY <1>2 DEF LeavesJar, InPlace, AtPlace, JarOf, SameCookie, Place
<1>4. \A x : \A d \in InPlace(k1, a1, x) : k1[d].value = ck[d].value
  BY <1>2 DEF LeavesJar, InPlace, AtPlace, JarOf, SameCookie, Place
<1> HIDE DEF a, a1
<1>5. JarMap(k1, a1)[k] = NoCookie
  BY <1>1, <1>3, JarMapNone
<1>6. ASSUME NEW j \in Places, j # k
      PROVE  JarMap(k1, a1)[j] = JarMap(ck, a)[j]
  <2>1. c \notin InPlace(ck, a, j)
    BY <1>1, <1>6 DEF InPlace, AtPlace
  <2>2. InPlace(k1, a1, j) = InPlace(ck, a, j)
    BY <2>1, <1>3
  <2>3. QED BY <2>2, <1>4, JarMapAgrees
<1>7. JarMap(k1, a1) = [JarMap(ck, a) EXCEPT ![k] = NoCookie]
  <2>1. SameElsewhere(ck, a, k, k1, a1)
    BY <1>6 DEF SameElsewhere
  <2>2. QED BY <1>5, <2>1, JarMapIs
<1>8. ASSUME NEW g \in UsedSessions(sess) \ {h}
      PROVE  SameJar(sess, ck, g, s1, k1, g)
  <2>1. c \notin JarOf(sess, ck, g)
    BY <1>1, JarsFacts DEF StoreOK
  <2>2. QED BY <2>1, <1>2 DEF LeavesJar, SameJar
<1>9. QED BY <1>7, <1>8, JarMapSame DEF a, a1, PutInJar

(* Cookie c is one of place k, with this value.                            *)
Carries(ck, c, k, value) == Place(ck, c) = k /\ ck[c].value = value

(* The chain from a has a cookie in place k.                               *)
Occupied(ck, a, k) == InPlace(ck, a, k) # {}

(* An added cookie is in the map of its session, and in no other.          *)
LEMMA JarMapJoins ==
  ASSUME NEW sess, NEW ck, NEW h \in UsedSessions(sess), StoreOK(sess, ck),
         NEW k \in Places, NEW value,
         ~Occupied(ck, sess[h].cookiestore_index, k),
         NEW c, NEW s1, NEW k1, JoinsJar(sess, ck, h, c, s1, k1),
         Carries(k1, c, k, value)
  PROVE  PutInJar(sess, ck, h, k, value, s1, k1)
<1> DEFINE a  == sess[h].cookiestore_index
           a1 == s1[h].cookiestore_index
<1>2. \A g \in UsedSessions(sess) : JarOf(sess, ck, g) \subseteq UsedCookies(ck)
  BY JarsFacts DEF StoreOK
<1>3. \A x : InPlace(k1, a1, x) =
        InPlace(ck, a, x) \cup (IF x = k THEN {c} ELSE {})
  BY <1>2 DEF JoinsJar, InPlace, AtPlace, JarOf, SameCookie, Place, Carries
<1>4. \A x : \A d \in InPlace(ck, a, x) : k1[d].value = ck[d].value
  BY <1>2 DEF JoinsJar, InPlace, AtPlace, JarOf, SameCookie, Place
<1> HIDE DEF a, a1
<1>5. JarMap(k1, a1)[k] = value
  <2>1. InPlace(k1, a1, k) = {c}
    BY <1>3 DEF a, Occupied
  <2>2. (CHOOSE d \in InPlace(k1, a1, k) : TRUE) = c
    BY <2>1
  <2>3. QED BY <2>1, <2>2, JarMapIn DEF Carries
<1>6. ASSUME NEW j \in Places, j # k
      PROVE  JarMap(k1, a1)[j] = JarMap(ck, a)[j]
  <2>1. InPlace(k1, a1, j) = InPlace(ck, a, j)
    <3>1. InPlace(k1, a1, j) = InPlace(ck, a, j) \cup {}
      BY <1>3, <1>6
    <3>2. QED BY <3>1
  <2>2. \A d \in InPlace(ck, a, j) : k1[d].value = ck[d].value
    BY <1>4
  <2>3. QED BY <2>1, <2>2, JarMapAgrees
<1>7. JarMap(k1, a1) = [JarMap(ck, a) EXCEPT ![k] = value]
  <2>1. SameElsewhere(ck, a, k, k1, a1)
    BY <1>6 DEF SameElsewhere
  <2>2. QED BY <1>5, <2>1, JarMapIs
<1>8. ASSUME NEW g \in UsedSessions(sess) \ {h}
      PROVE  SameJar(sess, ck, g, s1, k1, g)
  BY <1>2 DEF JoinsJar, SameJar
<1>9. QED BY <1>7, <1>8, JarMapSame DEF a, a1, PutInJar

(* An overwritten value is the new one in the map of its session.          *)
LEMMA JarMapUpdate ==
  ASSUME NEW sess, NEW ck, NEW h \in UsedSessions(sess), StoreOK(sess, ck),
         NEW k \in Places, NEW value,
         NEW c \in InPlace(ck, sess[h].cookiestore_index, k),
         NEW k1, Overwritten(sess, ck, c, value, k1)
  PROVE  PutInJar(sess, ck, h, k, value, sess, k1)
<1> DEFINE a == sess[h].cookiestore_index
<1>1. /\ c \in JarOf(sess, ck, h) /\ c \in UsedCookies(ck)
      /\ Place(ck, c) = k
      /\ \A d \in InPlace(ck, a, k) : d = c
  BY FoundIsOnly
<1>2. \A g \in UsedSessions(sess) : JarOf(sess, ck, g) \subseteq UsedCookies(ck)
  BY JarsFacts DEF StoreOK
<1>3. /\ \A d \in JarOf(sess, ck, h) : SameKey(ck, d, k1, d)
      /\ \A d \in JarOf(sess, ck, h) \ {c} : k1[d].value = ck[d].value
      /\ JarOf(sess, k1, h) = JarOf(sess, ck, h)
      /\ k1[c].value = value
  BY <1>2 DEF Overwritten, SameCookie, SameKey
<1>4. \A x : InPlace(k1, a, x) = InPlace(ck, a, x)
  BY <1>3 DEF InPlace, AtPlace, JarOf, SameKey, Place
<1>5. \A x : \A d \in InPlace(ck, a, x) \ {c} : k1[d].value = ck[d].value
  BY <1>3 DEF InPlace, AtPlace, JarOf
<1> HIDE DEF a
<1>6. JarMap(k1, a)[k] = value
  <2>1. InPlace(k1, a, k) = {c}
    BY <1>1, <1>4 DEF a
  <2>2. (CHOOSE d \in InPlace(k1, a, k) : TRUE) = c
    BY <2>1
  <2>3. QED BY <2>1, <2>2, <1>3, JarMapIn
<1>7. ASSUME NEW j \in Places, j # k
      PROVE  JarMap(k1, a)[j] = JarMap(ck, a)[j]
  <2>1. c \notin InPlace(ck, a, j)
    BY <1>1, <1>7 DEF InPlace, AtPlace
  <2>2. \A d \in InPlace(ck, a, j) : k1[d].value = ck[d].value
    BY <2>1, <1>5
  <2>3. InPlace(k1, a, j) = InPlace(ck, a, j)
    BY <1>4
  <2>4. QED BY <2>2, <2>3, JarMapAgrees
<1>8. JarMap(k1, a) = [JarMap(ck, a) EXCEPT ![k] = value]
  <2>1. SameElsewhere(ck, a, k, k1, a)
    BY <1>7 DEF SameElsewhere
  <2>2. QED BY <1>6, <2>1, JarMapIs
<1>9. ASSUME NEW g \in UsedSessions(sess) \ {h}
      PROVE  SameJar(sess, ck, g, sess, k1, g)
  <2>1. c \notin JarOf(sess, ck, g)
    BY <1>1, JarsFacts DEF StoreOK
  <2>2. QED BY <2>1, <1>2 DEF SameJar, Overwritten
<1>10. QED BY <1>8, <1>9, JarMapSame DEF a, PutInJar

-----------------------------------------------------------------------------
(* Counting: the map has as many sessions and cookies as there are used    *)
(* slots.                                                                  *)

(* The slots are as many as the constants say.                             *)
LEMMA SlotCounts ==
  /\ IsFiniteSet(SessionSlot) /\ Cardinality(SessionSlot) = SESSION_COUNT
  /\ IsFiniteSet(CookieSlot) /\ Cardinality(CookieSlot) = COOKIESTORE_COUNT
<1>1. /\ SESSION_COUNT \in Nat /\ SESSION_COUNT > 0
      /\ COOKIESTORE_COUNT \in Nat /\ COOKIESTORE_COUNT > 0
  BY CountsAssumption
<1>2. /\ IsFiniteSet(0 .. SESSION_COUNT - 1)
      /\ Cardinality(0 .. SESSION_COUNT - 1) = SESSION_COUNT
  BY <1>1, FS_Interval
<1>3. /\ IsFiniteSet(0 .. COOKIESTORE_COUNT - 1)
      /\ Cardinality(0 .. COOKIESTORE_COUNT - 1) = COOKIESTORE_COUNT
  BY <1>1, FS_Interval
<1>4. QED BY <1>2, <1>3 DEF SessionSlot, CookieSlot

(* Sessions and UUIDs correspond.                                          *)
LEMMA UuidCount ==
  ASSUME NEW sess, UuidsApart(sess), NEW S \in SUBSET UsedSessions(sess)
  PROVE  LET T == {sess[h].uuid : h \in S}
         IN  /\ IsFiniteSet(T)
             /\ Cardinality(T) = Cardinality(S)
             /\ Cardinality(T) \in Nat
             /\ Cardinality(T) <= SESSION_COUNT
             /\ Cardinality(T) = SESSION_COUNT <=> S = SessionSlot
<1> DEFINE T == {sess[h].uuid : h \in S}
           f == [h \in S |-> sess[h].uuid]
<1>1. f \in Bijection(S, T)
  <2>1. f \in [S -> T] /\ \A t \in T : \E h \in S : f[h] = t
    OBVIOUS
  <2>2. \A g, h \in S : f[g] = f[h] => g = h
    BY DEF UuidsApart
  <2> HIDE DEF f, T
  <2>3. QED BY <2>1, <2>2, Fun_IsBij
<1>2. ExistsBijection(S, T)
  BY <1>1 DEF ExistsBijection
<1>3. S \in SUBSET SessionSlot
  BY DEF UsedSessions
<1>4. /\ IsFiniteSet(S) /\ Cardinality(S) <= SESSION_COUNT
      /\ Cardinality(S) = SESSION_COUNT <=> S = SessionSlot
  BY <1>3, SlotCounts, FS_Subset
<1> HIDE DEF T
<1>5. IsFiniteSet(T) /\ Cardinality(T) = Cardinality(S)
  BY <1>2, <1>4, FS_Bijection
<1>6. Cardinality(T) \in Nat
  BY <1>5, FS_CardinalityType
<1>7. QED BY <1>4, <1>5, <1>6 DEF T

(* The places in which the sessions of a map have a cookie.                *)
KeysHeld(sess, ck) ==
  {uk \in Uuids(sess) \X Places :
     LiveOf(sess, ck)[uk[1]].jar[uk[2]] # NoCookie}

(* A session has a cookie in a place when its chain has one there.         *)
LEMMA HeldIfFound ==
  ASSUME NEW sess, NEW ck, StoreOK(sess, ck), NEW h \in UsedSessions(sess),
         NEW k \in Places
  PROVE  LiveOf(sess, ck)[sess[h].uuid].jar[k] # NoCookie
           <=> InPlace(ck, sess[h].cookiestore_index, k) # {}
<1> DEFINE a == sess[h].cookiestore_index
<1>1. LiveOf(sess, ck)[sess[h].uuid].jar = JarMap(ck, a)
  <2>1. LiveOf(sess, ck)[sess[h].uuid] = SessionIn(sess, ck, h)
    BY LiveAt DEF StoreOK
  <2>2. QED BY <2>1 DEF SessionIn
<1>2. CASE InPlace(ck, a, k) = {}
  BY <1>1, <1>2, JarMapNone
<1>3. CASE InPlace(ck, a, k) # {}
  <2> DEFINE c == CHOOSE d \in InPlace(ck, a, k) : TRUE
  <2>1. c \in InPlace(ck, a, k)
    BY <1>3
  <2>2. JarMap(ck, a)[k] = ck[c].value
    BY <1>3, JarMapIn
  <2> HIDE DEF c
  <2>3. c \in UsedCookies(ck)
    BY <2>1, FoundIsOnly
  <2>4. ck[c].value \in CookieValue
    BY <2>3 DEF StoreOK, KeysInv, CookiesNamed
  <2>5. QED BY <1>1, <1>3, <2>2, <2>4, NoCookieIsNoValue
<1>4. QED BY <1>2, <1>3

(* Cookies and held keys correspond.                                       *)
LEMMA CookieCount ==
  ASSUME NEW sess, NEW ck, StoreOK(sess, ck)
  PROVE  /\ Cardinality(KeysHeld(sess, ck)) \in Nat
         /\ Cardinality(KeysHeld(sess, ck)) <= COOKIESTORE_COUNT
         /\ Cardinality(KeysHeld(sess, ck)) = COOKIESTORE_COUNT
              <=> UsedCookies(ck) = CookieSlot
<1> DEFINE S == UsedCookies(ck)
           T == KeysHeld(sess, ck)
           Owner(c) == CHOOSE h \in UsedSessions(sess) : c \in JarOf(sess, ck, h)
           f == [c \in S |-> <<sess[Owner(c)].uuid, Place(ck, c)>>]
<1>1. ASSUME NEW c \in S
      PROVE  /\ Owner(c) \in UsedSessions(sess)
             /\ c \in JarOf(sess, ck, Owner(c))
             /\ \A h \in UsedSessions(sess) : c \in JarOf(sess, ck, h) => h = Owner(c)
             /\ Place(ck, c) \in Places
  <2>1. \E h \in UsedSessions(sess) : c \in JarOf(sess, ck, h)
    BY JarsPartition DEF JarOf, StoreOK
  <2>2. Owner(c) \in UsedSessions(sess) /\ c \in JarOf(sess, ck, Owner(c))
    BY <2>1
  <2>3. \A h \in UsedSessions(sess) : c \in JarOf(sess, ck, h) => h = Owner(c)
    BY <2>2, JarsFacts DEF StoreOK
  <2>4. Place(ck, c) \in Places
    BY PlaceIsPlace DEF StoreOK, KeysInv
  <2>5. QED BY <2>2, <2>3, <2>4
<1> HIDE DEF Owner
<1>2. ASSUME NEW c \in S
      PROVE  f[c] \in T
  <2> DEFINE h == Owner(c)
  <2>1. c \in InPlace(ck, sess[h].cookiestore_index, Place(ck, c))
    BY <1>1 DEF InPlace, AtPlace, JarOf
  <2>2. h \in UsedSessions(sess) /\ sess[h].uuid \in Uuids(sess)
    BY <1>1 DEF Uuids
  <2> HIDE DEF h
  <2>3. LiveOf(sess, ck)[sess[h].uuid].jar[Place(ck, c)] # NoCookie
    BY <1>1, <2>1, <2>2, HeldIfFound
  <2>4. f[c] = <<sess[h].uuid, Place(ck, c)>>
    BY DEF h
  <2>5. QED BY <1>1, <2>2, <2>3, <2>4 DEF KeysHeld
<1>3. ASSUME NEW c \in S, NEW d \in S, f[c] = f[d]
      PROVE  c = d
  <2>1. /\ sess[Owner(c)].uuid = sess[Owner(d)].uuid
        /\ Place(ck, c) = Place(ck, d)
    BY <1>3
  <2>2. Owner(c) = Owner(d)
    BY <1>1, <2>1 DEF StoreOK, UuidsApart
  <2>3. QED BY <1>1, <2>1, <2>2, PlacesApart
<1>4. ASSUME NEW uk \in T
      PROVE  \E c \in S : f[c] = uk
  <2>1. PICK h \in UsedSessions(sess) : uk[1] = sess[h].uuid
    BY DEF KeysHeld, Uuids
  <2>2. PICK k \in Places : uk[2] = k
    BY DEF KeysHeld
  <2>3. uk = <<sess[h].uuid, k>>
    BY <2>1, <2>2 DEF KeysHeld
  <2>4. LiveOf(sess, ck)[sess[h].uuid].jar[k] # NoCookie
    BY <2>1, <2>2 DEF KeysHeld
  <2>5. InPlace(ck, sess[h].cookiestore_index, k) # {}
    BY <2>4, HeldIfFound
  <2>6. PICK c : c \in InPlace(ck, sess[h].cookiestore_index, k)
    BY <2>5
  <2>7. /\ c \in S /\ c \in JarOf(sess, ck, h)
        /\ Place(ck, c) = k
    <3>1. c \in JarOf(sess, ck, h) /\ Place(ck, c) = k
      BY <2>6 DEF InPlace, AtPlace, JarOf
    <3>2. QED BY <3>1, JarsFacts DEF StoreOK
  <2>8. Owner(c) = h
    BY <1>1, <2>7
  <2>9. QED BY <2>3, <2>7, <2>8
<1>5. f \in Bijection(S, T)
  <2>1. f \in [S -> T]
    BY <1>2
  <2> HIDE DEF f, S, T
  <2>2. QED BY <2>1, <1>3, <1>4, Fun_IsBij
<1>6. S \in SUBSET CookieSlot
  BY DEF UsedCookies
<1>7. /\ IsFiniteSet(S) /\ Cardinality(S) <= COOKIESTORE_COUNT
      /\ Cardinality(S) = COOKIESTORE_COUNT <=> S = CookieSlot
  BY <1>6, SlotCounts, FS_Subset
<1>8. IsFiniteSet(T) /\ Cardinality(T) = Cardinality(S)
  <2> HIDE DEF f, S, T
  <2>1. ExistsBijection(S, T)
    BY <1>5 DEF ExistsBijection
  <2>2. QED BY <2>1, <1>7, FS_Bijection
<1>9. QED BY <1>7, <1>8, FS_CardinalityType

-----------------------------------------------------------------------------
(* The map after an operation, from what became of the slots.              *)

(* Slot g holds the session it held.                                       *)
SameSession(sess, ck, g, s1, k1) ==
  /\ g \in UsedSessions(sess)
  /\ s1[g].uuid = sess[g].uuid
  /\ SessionIn(s1, k1, g) = SessionIn(sess, ck, g)

(* Slots that are used as before, with their jars, hold what they held.    *)
LEMMA SameSessionIn ==
  ASSUME NEW sess, NEW ck, NEW s1, NEW k1, NEW g \in UsedSessions(sess),
         s1[g] = sess[g],
         JarMap(k1, s1[g].cookiestore_index) = JarMap(ck, sess[g].cookiestore_index)
  PROVE  SameSession(sess, ck, g, s1, k1)
BY DEF SameSession, SessionIn

(* Sessions went, and the others are as they were.                         *)
LEMMA LiveAfterDrop ==
  ASSUME NEW sess, NEW ck, NEW s1, NEW k1, UuidsApart(sess), UuidsApart(s1),
         \A g \in UsedSessions(s1) : SameSession(sess, ck, g, s1, k1)
  PROVE  LiveOf(s1, k1) = [v \in Uuids(s1) |-> LiveOf(sess, ck)[v]]
<1> DEFINE m == [v \in Uuids(s1) |-> LiveOf(sess, ck)[v]]
<1>1. ASSUME NEW g \in UsedSessions(s1)
      PROVE  m[s1[g].uuid] = SessionIn(s1, k1, g)
  <2>1. SameSession(sess, ck, g, s1, k1) /\ s1[g].uuid \in Uuids(s1)
    BY DEF Uuids
  <2>2. LiveOf(sess, ck)[sess[g].uuid] = SessionIn(sess, ck, g)
    BY <2>1, LiveAt DEF SameSession
  <2>3. QED BY <2>1, <2>2 DEF SameSession
<1>2. m = [v \in Uuids(s1) |-> m[v]]
  OBVIOUS
<1> HIDE DEF m
<1>3. LiveOf(s1, k1) = m
  BY <1>1, <1>2, LiveIs
<1>4. QED BY <1>3 DEF m

(* Sessions went, one was placed in slot i, and the others are as they     *)
(* were.                                                                   *)
LEMMA LiveAfterPlace ==
  ASSUME NEW sess, NEW ck, NEW s1, NEW k1, UuidsApart(sess), UuidsApart(s1),
         NEW i \in UsedSessions(s1),
         \A g \in UsedSessions(s1) \ {i} : SameSession(sess, ck, g, s1, k1)
  PROVE  LiveOf(s1, k1) =
           [v \in Uuids(s1) |-> IF v = s1[i].uuid THEN SessionIn(s1, k1, i)
                                ELSE LiveOf(sess, ck)[v]]
<1> DEFINE m == [v \in Uuids(s1) |-> IF v = s1[i].uuid THEN SessionIn(s1, k1, i)
                                     ELSE LiveOf(sess, ck)[v]]
<1>1. ASSUME NEW g \in UsedSessions(s1)
      PROVE  m[s1[g].uuid] = SessionIn(s1, k1, g)
  <2>1. s1[g].uuid \in Uuids(s1)
    BY DEF Uuids
  <2>2. CASE g = i
    BY <2>1, <2>2
  <2>3. CASE g # i
    <3>1. SameSession(sess, ck, g, s1, k1) /\ s1[g].uuid # s1[i].uuid
      BY <2>3 DEF UuidsApart
    <3>2. LiveOf(sess, ck)[sess[g].uuid] = SessionIn(sess, ck, g)
      BY <3>1, LiveAt DEF SameSession
    <3>3. QED BY <2>1, <3>1, <3>2 DEF SameSession
  <2>4. QED BY <2>2, <2>3
<1>2. m = [v \in Uuids(s1) |-> m[v]]
  OBVIOUS
<1> HIDE DEF m
<1>3. LiveOf(s1, k1) = m
  BY <1>1, <1>2, LiveIs
<1>4. QED BY <1>3 DEF m

-----------------------------------------------------------------------------
(* The operations.                                                         *)

(* What the map needs of a state.                                          *)
MapOK == StoreOK(sessions, cookies) /\ now \in Nat

(* What the operations write.                                              *)
CreatesIn(i, sid, uuid) ==
  /\ FirstReusableSlot(sessions, now, i)
  /\ sessions' = SessionsAfterCreate(sessions, i, sid, uuid, now)
  /\ cookies' = CookiesAfterCreate(sessions, cookies, i)

RenewsInto(h, i, sid) ==
  /\ FirstReusableSlot(sessions, now, i)
  /\ sessions' = SessionsAfterRenew(sessions, h, i, sid, now)
  /\ cookies' = CookiesAfterCreate(sessions, cookies, i)

Frees(h) ==
  /\ cookies' = mshield_shm_free(cookies, sessions[h])
  /\ sessions' = [sessions EXCEPT ![h] = ClearedSession]

Accesses(h) ==
  sessions' = [sessions EXCEPT ![h].atime = now] /\ cookies' = cookies

LogsOn(h) ==
  sessions' = [sessions EXCEPT ![h].logon_state = 1] /\ cookies' = cookies

Names(h, name) ==
  sessions' = [sessions EXCEPT ![h].username = name] /\ cookies' = cookies

Adds(h, c, key, value, locid) ==
  /\ FirstEmptyCookieSlot(cookies, c)
  /\ cookies' = AddCookie(cookies, sessions[h].cookiestore_index, c,
                          key, value, locid)
  /\ sessions' = [sessions EXCEPT ![h].cookiestore_index = c]

Updates(c, value) ==
  sessions' = sessions /\ cookies' = [cookies EXCEPT ![c].value = value]

Deletes(h, c) ==
  /\ cookies' = DeleteCookie(cookies, c)
  /\ sessions' = [sessions EXCEPT ![h].cookiestore_index =
                    AnchorAfterDelete(cookies, sessions[h].cookiestore_index, c)]

(* The instance counts as this module does.                                *)
LEMMA SameCardinality == ASSUME NEW S PROVE Map!Cardinality(S) = Cardinality(S)
BY DEF Map!Cardinality, Cardinality

(* What the map says of a state.                                           *)
LEMMA MapFacts ==
  ASSUME MapOK
  PROVE  /\ StoreOK(sessions, cookies) /\ now \in Nat
         /\ Map!Exists = Uuids(sessions)
         /\ Map!FreshIds = FreshId
         /\ Map!TotalCookies = Cardinality(KeysHeld(sessions, cookies))
         /\ \A h \in UsedSessions(sessions) :
              /\ sessions[h].uuid \in Uuids(sessions)
              /\ LiveMap[sessions[h].uuid] = SessionIn(sessions, cookies, h)
              /\ Map!Expired(sessions[h].uuid)
                   <=> mshield_shm_timeout(sessions[h], now)
<1>1. StoreOK(sessions, cookies) /\ now \in Nat
  BY DEF MapOK
<1>2. \A h \in UsedSessions(sessions) :
        /\ sessions[h].uuid \in Uuids(sessions)
        /\ LiveMap[sessions[h].uuid] = SessionIn(sessions, cookies, h)
  BY <1>1, LiveAt DEF LiveMap, StoreOK
<1>3. Map!Exists = Uuids(sessions)
  BY DEF Map!Exists, LiveMap, LiveOf
<1>0. ASSUME NEW h \in UsedSessions(sessions)
      PROVE  /\ LiveMap[sessions[h].uuid].session_id = sessions[h].session_id
             /\ LiveMap[sessions[h].uuid].ctime = sessions[h].ctime
             /\ LiveMap[sessions[h].uuid].atime = sessions[h].atime
  <2>1. LiveMap[sessions[h].uuid] = SessionIn(sessions, cookies, h)
    BY <1>2
  <2>2. QED BY <2>1 DEF SessionIn
<1>4. Map!FreshIds = FreshId
  <2>1. {LiveMap[u].session_id : u \in Map!Exists} =
          {sessions[h].session_id : h \in UsedSessions(sessions)}
    BY <1>0, <1>3 DEF Uuids
  <2>2. QED BY <2>1 DEF Map!FreshIds, FreshId
<1>6. Map!TotalCookies = Cardinality(KeysHeld(sessions, cookies))
  <2> DEFINE T == {uk \in Map!Exists \X Places :
                     LiveMap[uk[1]].jar[uk[2]] # NoCookie}
  <2>1. T = KeysHeld(sessions, cookies)
    BY <1>3 DEF KeysHeld, LiveMap
  <2>2. Map!TotalCookies = Cardinality(T)
    <3>1. Map!TotalCookies = Map!Cardinality(T)
      BY DEF Map!TotalCookies, Map!Exists
    <3> HIDE DEF T
    <3>2. QED BY <3>1, SameCardinality
  <2> HIDE DEF T
  <2>3. QED BY <2>1, <2>2
<1>7. ASSUME NEW h \in UsedSessions(sessions)
      PROVE  Map!Expired(sessions[h].uuid) <=> mshield_shm_timeout(sessions[h], now)
  BY <1>0 DEF Map!Expired, mshield_shm_timeout
<1>8. QED BY <1>1, <1>2, <1>3, <1>4, <1>6, <1>7

(* The session a reusable slot holds, if any, may be evicted.              *)
Evicted(i) == IF i \in UsedSessions(sessions) THEN {sessions[i].uuid} ELSE {}

(* That session has expired, or the slot is free; the others stay.         *)
LEMMA SlotEvictable ==
  ASSUME MapOK, NEW i \in SessionSlot, FirstReusableSlot(sessions, now, i)
  PROVE  /\ Evicted(i) \in Map!Evictable
         /\ Uuids(sessions) \ Evicted(i) =
              {sessions[h].uuid : h \in UsedSessions(sessions) \ {i}}
<1> DEFINE D == Evicted(i)
           R == UsedSessions(sessions) \ {i}
<1>1. UuidsApart(sessions)
  BY MapFacts DEF StoreOK
<1>2. Uuids(sessions) \ D = {sessions[h].uuid : h \in R}
  BY <1>1 DEF Uuids, Evicted, UuidsApart
<1>3. Cardinality(Map!Exists \ D) < SESSION_COUNT
  <2>1. R \in SUBSET UsedSessions(sessions) /\ R # SessionSlot
    OBVIOUS
  <2> DEFINE T == {sessions[h].uuid : h \in R}
  <2>2. /\ Cardinality(T) \in Nat /\ Cardinality(T) <= SESSION_COUNT
        /\ Cardinality(T) # SESSION_COUNT
    BY <1>1, <2>1, UuidCount
  <2>3. Map!Exists \ D = T
    BY <1>2, MapFacts
  <2> HIDE DEF T, D
  <2>4. QED BY <2>2, <2>3, CountsAssumption
<1>4. Cardinality(D) <= 1
  <2>1. Cardinality(D) = 0 \/ Cardinality(D) = 1
    BY FS_Singleton, FS_EmptySet DEF Evicted
  <2> HIDE DEF D
  <2>2. QED BY <2>1
<1>5. D \in SUBSET {u \in Map!Exists : Map!Expired(u)}
  <2>1. CASE i \in UsedSessions(sessions)
    <3>1. mshield_shm_timeout(sessions[i], now)
      BY <2>1 DEF FirstReusableSlot, Reusable, UsedSessions
    <3>2. QED BY <2>1, <3>1, MapFacts DEF Evicted
  <2>2. CASE i \notin UsedSessions(sessions)
    BY <2>2 DEF Evicted
  <2>3. QED BY <2>1, <2>2
<1>6. D \in Map!Evictable
  <2> HIDE DEF D
  <2>1. /\ Map!Cardinality(D) <= 1
        /\ Map!Cardinality(Map!Exists \ D) < SESSION_COUNT
    BY <1>3, <1>4, SameCardinality
  <2>2. QED BY <2>1, <1>5 DEF Map!Evictable
<1>7. QED BY <1>2, <1>6

(* The map with session s under u, and of the others those under E.        *)
Placed(E, u, s) == [v \in E \cup {u} |-> IF v = u THEN s ELSE LiveMap[v]]

(* That is what With and Without make of the map.                          *)
LEMMA WithIsPlaced ==
  ASSUME NEW D, NEW u, NEW s
  PROVE  /\ Map!With(Map!Without(D), u, s) = Placed(Map!Exists \ D, u, s)
         /\ Map!With(LiveMap, u, s) = Placed(Map!Exists, u, s)
<1>1. /\ DOMAIN Map!Without(D) = Map!Exists \ D
      /\ \A v \in Map!Exists \ D : Map!Without(D)[v] = LiveMap[v]
  BY DEF Map!Without
<1>2. Map!With(Map!Without(D), u, s) = Placed(Map!Exists \ D, u, s)
  BY <1>1 DEF Map!With, Placed
<1>3. QED BY <1>2 DEF Map!With, Map!Exists, Placed

(* It is the map after a step that places s in slot i and otherwise keeps  *)
(* the sessions under E.                                                   *)
LEMMA PlacedIn ==
  ASSUME MapOK, MapOK', NEW i \in UsedSessions(sessions'), NEW E,
         \A v : v \in Uuids(sessions') <=> v \in E \cup {sessions'[i].uuid},
         \A g \in UsedSessions(sessions') \ {i} :
           SameSession(sessions, cookies, g, sessions', cookies')
  PROVE  LiveMap' =
           Placed(E, sessions'[i].uuid, SessionIn(sessions', cookies', i))
<1>1. UuidsApart(sessions) /\ UuidsApart(sessions')
  BY DEF MapOK, StoreOK
<1>2. LiveOf(sessions', cookies') =
        [v \in Uuids(sessions') |->
           IF v = sessions'[i].uuid THEN SessionIn(sessions', cookies', i)
           ELSE LiveOf(sessions, cookies)[v]]
  BY <1>1, LiveAfterPlace
<1>3. QED BY <1>2 DEF LiveMap, Placed

(* A step that changes the session in one slot, under the same UUID.       *)
LEMMA UpdateMaps ==
  ASSUME MapOK, MapOK', NEW h \in UsedSessions(sessions),
         UsedSessions(sessions') = UsedSessions(sessions),
         sessions'[h].uuid = sessions[h].uuid,
         \A g \in UsedSessions(sessions) \ {h} :
           SameSession(sessions, cookies, g, sessions', cookies')
  PROVE  Map!Update(sessions[h].uuid, SessionIn(sessions', cookies', h))
<1> DEFINE u == sessions[h].uuid
           s == SessionIn(sessions', cookies', h)
<1>1. Map!Exists = Uuids(sessions)
  BY MapFacts
<1>2. \A v : v \in Uuids(sessions') <=> v \in Map!Exists \cup {u}
  BY <1>1 DEF Uuids, SameSession
<1>3. LiveMap' = Placed(Map!Exists, u, s)
  BY <1>2, PlacedIn
<1> HIDE DEF u, s
<1>4. LiveMap' = Map!With(LiveMap, u, s)
  BY <1>3, WithIsPlaced
<1>5. Map!Update(u, s)
  BY <1>4 DEF Map!Update
<1>6. QED BY <1>5 DEF u, s

(* A session that is set up in a slot is created in the map.               *)
LEMMA CreateMaps ==
  ASSUME MapOK, MapOK', NEW i \in SessionSlot,
         NEW sid \in FreshId, NEW uuid \in Uuid \ Uuids(sessions),
         CreatesIn(i, sid, uuid)
  PROVE  Map!Create
<1> DEFINE D == Evicted(i)
           s == [session_id |-> sid, ctime |-> now, atime |-> now,
                 logon_state |-> 0, username |-> Null, jar |-> Map!NoCookies]
<1>1. /\ StoreOK(sessions, cookies) /\ StoreOK(sessions', cookies')
      /\ now \in Nat /\ sid \in SessionId /\ uuid \in Uuid
      /\ sid \in Map!FreshIds /\ uuid \in Uuid \ Map!Exists
      /\ FirstReusableSlot(sessions, now, i)
  BY MapFacts DEF MapOK, FreshId, CreatesIn
<1>2. NewJar(sessions, cookies, i, sessions', cookies')
  BY <1>1, CreateJars DEF StoreOK, CreatesIn
<1>3. \A g \in SessionSlot :
        sessions'[g] = IF g = i THEN NewSession(sid, uuid, now) ELSE sessions[g]
  BY <1>1 DEF CreatesIn, SessionsAfterCreate, StoreOK, StoreTypeOK
<1>4. ASSUME NEW g \in UsedSessions(sessions') \ {i}
      PROVE  SameSession(sessions, cookies, g, sessions', cookies')
  <2>1. g \in UsedSessions(sessions) /\ sessions'[g] = sessions[g]
    BY <1>2, <1>3 DEF NewJar, UsedSessions
  <2>2. SameJar(sessions, cookies, g, sessions', cookies', g)
    BY <2>1, <1>2 DEF NewJar
  <2>3. QED BY <2>1, <2>2, JarMapSame, SameSessionIn
<1>5. SessionIn(sessions', cookies', i) = s
  <2>1. sessions'[i] = NewSession(sid, uuid, now)
    BY <1>3
  <2>2. JarMap(cookies', -1) = Map!NoCookies
    BY ChainNull DEF JarMap, AtPlace, Map!NoCookies
  <2>3. QED BY <2>1, <2>2 DEF SessionIn, NewSession
<1>6. /\ i \in UsedSessions(sessions') /\ sessions'[i].uuid = uuid
      /\ \A v : v \in Uuids(sessions') <=> v \in (Map!Exists \ D) \cup {uuid}
  <2>1. Map!Exists \ D = {sessions[g].uuid : g \in UsedSessions(sessions) \ {i}}
    BY <1>1, SlotEvictable, MapFacts
  <2>2. UsedSessions(sessions') = UsedSessions(sessions) \cup {i}
    BY <1>2 DEF NewJar
  <2>3. /\ sessions'[i].uuid = uuid
        /\ \A g \in UsedSessions(sessions) \ {i} :
             sessions'[g].uuid = sessions[g].uuid
    BY <1>3 DEF NewSession, UsedSessions
  <2> HIDE DEF D
  <2>4. QED BY <2>1, <2>2, <2>3 DEF Uuids
<1> HIDE DEF D, s
<1>7. LiveMap' = Placed(Map!Exists \ D, uuid, s)
  BY <1>4, <1>5, <1>6, PlacedIn
<1>8. LiveMap' = Map!With(Map!Without(D), uuid, s)
  BY <1>7, WithIsPlaced
<1>9. D \in Map!Evictable
  BY <1>1, SlotEvictable DEF D
<1>10. QED BY <1>1, <1>8, <1>9 DEF Map!Create, s

(* The fields of a session in the map, one by one.                         *)
Session(sid, ctime, atime, state, name, jar) ==
  [session_id |-> sid, ctime |-> ctime, atime |-> atime,
   logon_state |-> state, username |-> name, jar |-> jar]

(* The fields the operations write, each operator one of their writes.     *)
Renamed(s, x, y) == [s EXCEPT !.session_id = x, !.username = y]
WithId(s, x) == [s EXCEPT !.session_id = x]
Accessed(s, x) == [s EXCEPT !.atime = x]
LoggedOn(s, x) == [s EXCEPT !.logon_state = x]
Named(s, x) == [s EXCEPT !.username = x]
Filled(s, k, v) == [s EXCEPT !.jar[k] = v]
Put(jar, k, v) == [jar EXCEPT ![k] = v]

(* One field written is one argument changed.                              *)
LEMMA FieldWritten ==
  ASSUME NEW sid, NEW ctime, NEW atime, NEW state, NEW name, NEW jar, NEW x
  PROVE  /\ WithId(Session(sid, ctime, atime, state, name, jar), x) =
              Session(x, ctime, atime, state, name, jar)
         /\ Accessed(Session(sid, ctime, atime, state, name, jar), x) =
              Session(sid, ctime, x, state, name, jar)
         /\ LoggedOn(Session(sid, ctime, atime, state, name, jar), x) =
              Session(sid, ctime, atime, x, name, jar)
         /\ Named(Session(sid, ctime, atime, state, name, jar), x) =
              Session(sid, ctime, atime, state, x, jar)
BY DEF Session, WithId, Accessed, LoggedOn, Named

(* So it is for the two fields that a renewal writes.                      *)
LEMMA FieldsWritten ==
  ASSUME NEW sid, NEW ctime, NEW atime, NEW state, NEW name, NEW jar,
         NEW x, NEW y
  PROVE  /\ Renamed(Session(sid, ctime, atime, state, name, jar), x, y) =
              Session(x, ctime, atime, state, y, jar)
         /\ Filled(Session(sid, ctime, atime, state, name, jar), x, y) =
              Session(sid, ctime, atime, state, name, Put(jar, x, y))
<1> DEFINE s == Session(sid, ctime, atime, state, name, jar)
           r == [s EXCEPT !.session_id = x, !.username = y]
<1>1. DOMAIN s = {"session_id", "ctime", "atime", "logon_state", "username", "jar"}
  BY DEF Session
<1>2. /\ DOMAIN r = DOMAIN s /\ r = [k \in DOMAIN s |-> r[k]]
      /\ r.session_id = x /\ r.username = y
      /\ r.ctime = ctime /\ r.atime = atime
      /\ r.logon_state = state /\ r.jar = jar
  BY <1>1 DEF Session
<1> HIDE DEF r
<1>3. r = Session(x, ctime, atime, state, y, jar)
  BY <1>1, <1>2 DEF Session
<1>4. Filled(s, x, y) =
        Session(sid, ctime, atime, state, name, Put(jar, x, y))
  BY DEF Session, Filled, Put
<1>5. QED BY <1>3, <1>4 DEF r, Renamed

(* So does the session in a slot, when its fields are written that way.    *)
LEMMA SessionWritten ==
  ASSUME NEW sess, NEW ck, NEW h, NEW s1, NEW k1, NEW i,
         s1[i].ctime = sess[h].ctime
  PROVE  /\ /\ s1[i].atime = sess[h].atime
            /\ s1[i].logon_state = sess[h].logon_state
            /\ JarMap(k1, s1[i].cookiestore_index) =
                 JarMap(ck, sess[h].cookiestore_index)
            => SessionIn(s1, k1, i) =
                 Renamed(SessionIn(sess, ck, h), s1[i].session_id, s1[i].username)
         /\ /\ s1[i].session_id = sess[h].session_id
            /\ s1[i].logon_state = sess[h].logon_state
            /\ s1[i].username = sess[h].username
            /\ JarMap(k1, s1[i].cookiestore_index) =
                 JarMap(ck, sess[h].cookiestore_index)
            => SessionIn(s1, k1, i) =
                 Accessed(SessionIn(sess, ck, h), s1[i].atime)
         /\ /\ s1[i].session_id = sess[h].session_id
            /\ s1[i].atime = sess[h].atime
            /\ s1[i].username = sess[h].username
            /\ JarMap(k1, s1[i].cookiestore_index) =
                 JarMap(ck, sess[h].cookiestore_index)
            => SessionIn(s1, k1, i) =
                 LoggedOn(SessionIn(sess, ck, h), s1[i].logon_state)
         /\ /\ s1[i].session_id = sess[h].session_id
            /\ s1[i].atime = sess[h].atime
            /\ s1[i].logon_state = sess[h].logon_state
            /\ JarMap(k1, s1[i].cookiestore_index) =
                 JarMap(ck, sess[h].cookiestore_index)
            => SessionIn(s1, k1, i) =
                 Named(SessionIn(sess, ck, h), s1[i].username)
         /\ \A k, v :
              /\ s1[i].session_id = sess[h].session_id
              /\ s1[i].atime = sess[h].atime
              /\ s1[i].logon_state = sess[h].logon_state
              /\ s1[i].username = sess[h].username
              /\ JarMap(k1, s1[i].cookiestore_index) =
                   Put(JarMap(ck, sess[h].cookiestore_index), k, v)
              => SessionIn(s1, k1, i) = Filled(SessionIn(sess, ck, h), k, v)
<1>1. PICK sid, ctime, atime, state, name :
        /\ sid = sess[h].session_id /\ ctime = sess[h].ctime
        /\ atime = sess[h].atime /\ state = sess[h].logon_state
        /\ name = sess[h].username
  OBVIOUS
<1>2. PICK x, y, z, w, jar, jar1 :
        /\ x = s1[i].session_id /\ y = s1[i].atime
        /\ z = s1[i].logon_state /\ w = s1[i].username
        /\ jar = JarMap(ck, sess[h].cookiestore_index)
        /\ jar1 = JarMap(k1, s1[i].cookiestore_index)
  OBVIOUS
<1>3. /\ SessionIn(sess, ck, h) = Session(sid, ctime, atime, state, name, jar)
      /\ SessionIn(s1, k1, i) = Session(x, ctime, y, z, w, jar1)
  BY <1>1, <1>2 DEF SessionIn, Session
<1>4. /\ Renamed(Session(sid, ctime, atime, state, name, jar), x, w) =
           Session(x, ctime, atime, state, w, jar)
      /\ Accessed(Session(sid, ctime, atime, state, name, jar), y) =
           Session(sid, ctime, y, state, name, jar)
      /\ LoggedOn(Session(sid, ctime, atime, state, name, jar), z) =
           Session(sid, ctime, atime, z, name, jar)
      /\ Named(Session(sid, ctime, atime, state, name, jar), w) =
           Session(sid, ctime, atime, state, w, jar)
  BY FieldWritten, FieldsWritten
<1>5. ASSUME NEW k, NEW v
      PROVE  Filled(Session(sid, ctime, atime, state, name, jar), k, v) =
               Session(sid, ctime, atime, state, name, Put(jar, k, v))
  BY FieldsWritten
<1>6. QED BY <1>1, <1>2, <1>3, <1>4, <1>5

(* Without a user name a session that is renewed changes its id only.      *)
LEMMA OnlyIdWritten ==
  ASSUME NEW sess, NEW ck, NEW h, SessionIn(sess, ck, h).username = Null, NEW x
  PROVE  Renamed(SessionIn(sess, ck, h), x, Null) = WithId(SessionIn(sess, ck, h), x)
<1>1. PICK sid, ctime, atime, state, jar :
        SessionIn(sess, ck, h) = Session(sid, ctime, atime, state, Null, jar)
  BY DEF SessionIn, Session
<1>2. Renamed(Session(sid, ctime, atime, state, Null, jar), x, Null) =
        Session(x, ctime, atime, state, Null, jar)
  BY FieldsWritten
<1>3. WithId(Session(sid, ctime, atime, state, Null, jar), x) =
        Session(x, ctime, atime, state, Null, jar)
  BY FieldWritten
<1>4. QED BY <1>1, <1>2, <1>3

(* A session that is renewed goes on in the map under its UUID, but for    *)
(* its user name; when its own slot is the one to reuse, it is lost.       *)
LEMMA RenewMaps ==
  ASSUME MapOK, MapOK', NEW h \in UsedSessions(sessions),
         NEW i \in SessionSlot, NEW sid \in FreshId, RenewsInto(h, i, sid)
  PROVE  Map!Renew(sessions[h].uuid) \/ RenewFallsShort(sessions[h].uuid)
<1> DEFINE u == sessions[h].uuid
           D == Evicted(i)
           s0 == SessionsAfterCreate(sessions, i, sid, u, now)
<1>1. /\ StoreOK(sessions, cookies) /\ StoreOK(sessions', cookies')
      /\ now \in Nat /\ sid \in SessionId /\ u \in Uuid /\ h \in SessionSlot
      /\ sid \in Map!FreshIds
      /\ FirstReusableSlot(sessions, now, i)
  BY MapFacts
     DEF MapOK, FreshId, RenewsInto, StoreOK, UuidsApart, UsedSessions
<1>2. MovedJar(sessions, cookies, h, i, sessions', cookies')
  BY <1>1, RenewJars DEF StoreOK, RenewsInto
<1>3. D \in Map!Evictable
  BY <1>1, SlotEvictable
<1>4. /\ \A g \in SessionSlot :
           s0[g] = IF g = i THEN NewSession(sid, u, now) ELSE sessions[g]
      /\ DOMAIN s0 = SessionSlot
  BY <1>1 DEF SessionsAfterCreate, StoreOK, StoreTypeOK
<1>5. \A g \in SessionSlot :
        sessions'[g] = IF g = h THEN ClearedSession
                       ELSE IF g = i THEN CopyContent(s0[i], s0[h])
                       ELSE sessions[g]
  BY <1>1, <1>4 DEF RenewsInto, SessionsAfterRenew
<1>6. ASSUME NEW g \in UsedSessions(sessions') \ {i}
      PROVE  SameSession(sessions, cookies, g, sessions', cookies')
  <2>1. g \in UsedSessions(sessions) \ {h, i} /\ sessions'[g] = sessions[g]
    BY <1>2, <1>5 DEF MovedJar, UsedSessions
  <2>2. SameJar(sessions, cookies, g, sessions', cookies', g)
    BY <2>1, <1>2 DEF MovedJar
  <2>3. QED BY <2>1, <2>2, JarMapSame, SameSessionIn
<1>7. /\ Map!Exists \ D = {sessions[g].uuid : g \in UsedSessions(sessions) \ {i}}
      /\ Map!Exists = Uuids(sessions)
  BY <1>1, SlotEvictable, MapFacts
<1>8. CASE i = h
  <2>1. UsedSessions(sessions') = UsedSessions(sessions) \ {h}
    BY <1>2, <1>8 DEF MovedJar
  <2>2. D = {u} /\ mshield_shm_timeout(sessions[h], now)
    BY <1>1, <1>8 DEF Evicted, FirstReusableSlot, Reusable, UsedSessions
  <2>3. \A v : v \in Uuids(sessions') <=> v \in Map!Exists \ D
    BY <2>1, <1>5, <1>7, <1>8 DEF Uuids, UsedSessions
  <2>4. LiveOf(sessions', cookies') =
          [v \in Uuids(sessions') |-> LiveOf(sessions, cookies)[v]]
    BY <2>1, <1>1, <1>6, <1>8, LiveAfterDrop DEF StoreOK
  <2>5. LiveMap' = Map!Without(D)
    <3> HIDE DEF D
    <3>1. QED BY <2>3, <2>4 DEF LiveMap, Map!Without
  <2>6. Map!Expired(u)
    BY <2>2, MapFacts
  <2> HIDE DEF D, u
  <2>7. RenewLosesSession(u)
    BY <2>2, <2>5, <2>6 DEF RenewLosesSession
  <2>8. QED BY <2>7 DEF RenewFallsShort, u
<1>9. CASE i # h
  <2> DEFINE s == Renamed(LiveMap[u], sid, Null)
  <2>1. u \notin D
    BY <1>1, <1>9 DEF Evicted, StoreOK, UuidsApart
  <2>2. /\ sessions'[i].session_id = sid
        /\ sessions'[i].uuid = u
        /\ sessions'[i].ctime = sessions[h].ctime
        /\ sessions'[i].atime = sessions[h].atime
        /\ sessions'[i].logon_state = sessions[h].logon_state
        /\ sessions'[i].username = Null
    <3>1. s0[i] = NewSession(sid, u, now) /\ s0[h] = sessions[h]
      BY <1>1, <1>4, <1>9
    <3>2. sessions'[i] = CopyContent(s0[i], s0[h])
      BY <1>5, <1>9
    <3> HIDE DEF s0, u
    <3>3. sessions'[i] = CopyContent(NewSession(sid, u, now), sessions[h])
      BY <3>1, <3>2
    <3>4. sessions[h].uuid = u
      BY DEF u
    <3>5. QED BY <3>3, <3>4 DEF CopyContent, NewSession
  <2>3. JarMap(cookies', sessions'[i].cookiestore_index) =
          JarMap(cookies, sessions[h].cookiestore_index)
    BY <1>2, <1>9, JarMapSame DEF MovedJar
  <2>4. SessionIn(sessions', cookies', i) = s
    <3>1. LiveMap[u] = SessionIn(sessions, cookies, h)
      BY MapFacts
    <3>2. SessionIn(sessions', cookies', i) =
            Renamed(SessionIn(sessions, cookies, h), sid, Null)
      BY <2>2, <2>3, SessionWritten
    <3>3. QED BY <3>1, <3>2
  <2>5. i \in UsedSessions(sessions') /\ sessions'[i].uuid = u
    BY <1>2, <1>9, <2>2 DEF MovedJar
  <2>6. \A v : v \in Uuids(sessions') <=> v \in (Map!Exists \ D) \cup {u}
    <3>1. \A g \in UsedSessions(sessions) \ {h, i} :
            sessions'[g].uuid = sessions[g].uuid
      BY <1>5 DEF UsedSessions
    <3>2. UsedSessions(sessions') = (UsedSessions(sessions) \cup {i}) \ {h}
      BY <1>2 DEF MovedJar
    <3> HIDE DEF D, s0
    <3>3. QED BY <3>1, <3>2, <2>5, <1>7, <1>9 DEF Uuids
  <2> HIDE DEF D, u, s
  <2>7. LiveMap' = Placed(Map!Exists \ D, u, s)
    BY <1>6, <2>4, <2>5, <2>6, PlacedIn
  <2>8. LiveMap' = Map!With(Map!Without(D), u, s)
    BY <2>7, WithIsPlaced
  <2>9. CASE LiveMap[u].username = Null
    <3>1. LiveMap[u] = SessionIn(sessions, cookies, h)
      BY MapFacts DEF u
    <3>2. s = WithId(LiveMap[u], sid)
      BY <3>1, <2>9, OnlyIdWritten DEF s
    <3>3. Map!Renew(u)
      BY <1>1, <1>3, <2>1, <2>8, <3>2 DEF Map!Renew, WithId
    <3>4. QED BY <3>3 DEF u
  <2>10. CASE LiveMap[u].username # Null
    <3>1. RenewForgetsName(u)
      BY <1>1, <1>3, <2>1, <2>8, <2>10 DEF RenewForgetsName, Renamed, s
    <3>2. QED BY <3>1 DEF RenewFallsShort, u
  <2>11. QED BY <2>9, <2>10
<1>10. QED BY <1>8, <1>9

(* A session that is freed is gone from the map.                           *)
LEMMA FreeMaps ==
  ASSUME MapOK, MapOK', NEW h \in UsedSessions(sessions),
         FreedJar(sessions, cookies, h, sessions', cookies'),
         \A g \in SessionSlot \ {h} : sessions'[g] = sessions[g]
  PROVE  LiveMap' = Map!Without({sessions[h].uuid})
<1>1. /\ StoreOK(sessions, cookies) /\ StoreOK(sessions', cookies')
      /\ h \in SessionSlot /\ Map!Exists = Uuids(sessions)
  BY MapFacts DEF MapOK, UsedSessions
<1>2. ASSUME NEW g \in UsedSessions(sessions')
      PROVE  SameSession(sessions, cookies, g, sessions', cookies')
  <2>1. g \in UsedSessions(sessions) \ {h}
    BY DEF FreedJar
  <2>2. sessions'[g] = sessions[g]
    BY <2>1 DEF UsedSessions
  <2>3. SameJar(sessions, cookies, g, sessions', cookies', g)
    BY <2>1 DEF FreedJar
  <2>4. QED BY <2>1, <2>2, <2>3, JarMapSame, SameSessionIn
<1>3. \A v : v \in Uuids(sessions') <=> v \in Map!Exists \ {sessions[h].uuid}
  <2>1. UsedSessions(sessions') = UsedSessions(sessions) \ {h}
    BY DEF FreedJar
  <2>2. \A g \in UsedSessions(sessions) \ {h} :
          /\ sessions'[g].uuid = sessions[g].uuid
          /\ sessions[g].uuid # sessions[h].uuid
    BY <2>1, <1>1, <1>2 DEF StoreOK, UuidsApart, SameSession
  <2>3. QED BY <2>1, <2>2, <1>1 DEF Uuids
<1>4. LiveOf(sessions', cookies') =
        [v \in Uuids(sessions') |-> LiveOf(sessions, cookies)[v]]
  BY <1>1, <1>2, LiveAfterDrop DEF StoreOK
<1>5. QED BY <1>3, <1>4 DEF LiveMap, Map!Without

(* mshield_session_unlink, and mshield_session_validate of a session that  *)
(* has expired.                                                            *)
LEMMA UnlinkMaps ==
  ASSUME MapOK, MapOK', NEW h \in UsedSessions(sessions), Frees(h)
  PROVE  /\ Map!Unlink(sessions[h].uuid)
         /\ mshield_shm_timeout(sessions[h], now) => Map!Drop(sessions[h].uuid)
<1>1. StoreOK(sessions, cookies) /\ h \in SessionSlot
  BY MapFacts DEF UsedSessions
<1>2. FreedJar(sessions, cookies, h, sessions', cookies')
  BY <1>1, FreeJars DEF StoreOK, Frees
<1>3. \A g \in SessionSlot \ {h} : sessions'[g] = sessions[g]
  BY <1>1 DEF StoreOK, StoreTypeOK, Frees
<1>4. LiveMap' = Map!Without({sessions[h].uuid})
  BY <1>2, <1>3, FreeMaps
<1>5. mshield_shm_timeout(sessions[h], now) => Map!Expired(sessions[h].uuid)
  BY MapFacts
<1>6. QED BY <1>4, <1>5 DEF Map!Unlink, Map!Drop

(* A step that writes other fields of the session in slot h than its links. *)
LEMMA FieldMaps ==
  ASSUME MapOK, MapOK', NEW h \in UsedSessions(sessions),
         cookies' = cookies,
         sessions'[h].slot_used, sessions'[h].uuid = sessions[h].uuid,
         sessions'[h].cookiestore_index = sessions[h].cookiestore_index,
         \A g \in SessionSlot \ {h} : sessions'[g] = sessions[g]
  PROVE  /\ Map!Update(sessions[h].uuid, SessionIn(sessions', cookies', h))
         /\ JarMap(cookies', sessions'[h].cookiestore_index) =
              JarMap(cookies, sessions[h].cookiestore_index)
<1>1. UsedSessions(sessions') = UsedSessions(sessions)
  BY DEF UsedSessions
<1>2. ASSUME NEW g \in UsedSessions(sessions) \ {h}
      PROVE  SameSession(sessions, cookies, g, sessions', cookies')
  <2>1. sessions'[g] = sessions[g]
    BY DEF UsedSessions
  <2>2. QED BY <2>1, SameSessionIn
<1>3. Map!Update(sessions[h].uuid, SessionIn(sessions', cookies', h))
  BY <1>1, <1>2, UpdateMaps
<1>4. QED BY <1>3

(* A session that is validated in time.                                    *)
LEMMA ValidateMaps ==
  ASSUME MapOK, MapOK', NEW h \in UsedSessions(sessions),
         ~ mshield_shm_timeout(sessions[h], now), Accesses(h)
  PROVE  Map!Validate(sessions[h].uuid)
<1> DEFINE u == sessions[h].uuid
<1>1. /\ StoreOK(sessions, cookies) /\ h \in SessionSlot
      /\ LiveMap[u] = SessionIn(sessions, cookies, h)
      /\ ~ Map!Expired(u)
  BY MapFacts DEF UsedSessions
<1>2. /\ sessions'[h].slot_used /\ sessions'[h].uuid = u
      /\ sessions'[h].cookiestore_index = sessions[h].cookiestore_index
      /\ sessions'[h].session_id = sessions[h].session_id
      /\ sessions'[h].ctime = sessions[h].ctime
      /\ sessions'[h].atime = now
      /\ sessions'[h].logon_state = sessions[h].logon_state
      /\ sessions'[h].username = sessions[h].username
      /\ \A g \in SessionSlot \ {h} : sessions'[g] = sessions[g]
  BY <1>1 DEF Accesses, StoreOK, StoreTypeOK, session_data_t, UsedSessions
<1>3. /\ Map!Update(u, SessionIn(sessions', cookies', h))
      /\ JarMap(cookies', sessions'[h].cookiestore_index) =
           JarMap(cookies, sessions[h].cookiestore_index)
  BY <1>2, FieldMaps DEF Accesses
<1>4. SessionIn(sessions', cookies', h) = Accessed(LiveMap[u], now)
  BY <1>1, <1>2, <1>3, SessionWritten
<1> HIDE DEF u
<1>5. Map!Update(u, Accessed(LiveMap[u], now))
  BY <1>3, <1>4
<1>6. QED BY <1>1, <1>5 DEF Map!Validate, Accessed, u

(* LOGON=ok changes the session under its UUID.                            *)
LEMMA LogonMaps ==
  ASSUME MapOK, MapOK', NEW h \in UsedSessions(sessions),
         LogsOn(h)
  PROVE  Map!Logon(sessions[h].uuid)
<1> DEFINE u == sessions[h].uuid
<1>1. /\ StoreOK(sessions, cookies) /\ h \in SessionSlot
      /\ LiveMap[u] = SessionIn(sessions, cookies, h)
  BY MapFacts DEF UsedSessions
<1>2. /\ sessions'[h].slot_used /\ sessions'[h].uuid = u
      /\ sessions'[h].cookiestore_index = sessions[h].cookiestore_index
      /\ sessions'[h].session_id = sessions[h].session_id
      /\ sessions'[h].ctime = sessions[h].ctime
      /\ sessions'[h].atime = sessions[h].atime
      /\ sessions'[h].logon_state = 1
      /\ sessions'[h].username = sessions[h].username
      /\ \A g \in SessionSlot \ {h} : sessions'[g] = sessions[g]
  BY <1>1 DEF LogsOn, StoreOK, StoreTypeOK, session_data_t, UsedSessions
<1>3. /\ Map!Update(u, SessionIn(sessions', cookies', h))
      /\ JarMap(cookies', sessions'[h].cookiestore_index) =
           JarMap(cookies, sessions[h].cookiestore_index)
  BY <1>2, FieldMaps DEF LogsOn
<1>4. SessionIn(sessions', cookies', h) = LoggedOn(LiveMap[u], 1)
  BY <1>1, <1>2, <1>3, SessionWritten
<1> HIDE DEF u
<1>5. Map!Update(u, LoggedOn(LiveMap[u], 1))
  BY <1>3, <1>4
<1>6. QED BY <1>5 DEF Map!Logon, LoggedOn, u

(* So does the user name of a session that is logged on.                   *)
LEMMA UsernameMaps ==
  ASSUME MapOK, MapOK', NEW h \in UsedSessions(sessions),
         sessions[h].logon_state = 1, NEW name \in UserName, Names(h, name)
  PROVE  Map!Logon(sessions[h].uuid)
<1> DEFINE u == sessions[h].uuid
<1>1. /\ StoreOK(sessions, cookies) /\ h \in SessionSlot
      /\ LiveMap[u] = SessionIn(sessions, cookies, h)
      /\ LiveMap[u].logon_state = 1
  BY MapFacts DEF UsedSessions, SessionIn
<1>2. /\ sessions'[h].slot_used /\ sessions'[h].uuid = u
      /\ sessions'[h].cookiestore_index = sessions[h].cookiestore_index
      /\ sessions'[h].session_id = sessions[h].session_id
      /\ sessions'[h].ctime = sessions[h].ctime
      /\ sessions'[h].atime = sessions[h].atime
      /\ sessions'[h].logon_state = sessions[h].logon_state
      /\ sessions'[h].username = name
      /\ \A g \in SessionSlot \ {h} : sessions'[g] = sessions[g]
  BY <1>1 DEF Names, StoreOK, StoreTypeOK, session_data_t, UsedSessions
<1>3. /\ Map!Update(u, SessionIn(sessions', cookies', h))
      /\ JarMap(cookies', sessions'[h].cookiestore_index) =
           JarMap(cookies, sessions[h].cookiestore_index)
  BY <1>2, FieldMaps DEF Names
<1>4. SessionIn(sessions', cookies', h) = Named(LiveMap[u], name)
  BY <1>1, <1>2, <1>3, SessionWritten
<1> HIDE DEF u
<1>5. Map!Update(u, Named(LiveMap[u], name))
  BY <1>3, <1>4
<1>6. QED BY <1>1, <1>5 DEF Map!Logon, Named, u

-----------------------------------------------------------------------------
(* mshield_session_set_cookie.                                             *)

(* A step that changes the jar of the session in slot h, and no other.     *)
LEMMA JarMaps ==
  ASSUME MapOK, MapOK', NEW h \in UsedSessions(sessions),
         NEW k \in Places, NEW v,
         \A g \in SessionSlot \ {h} : sessions'[g] = sessions[g],
         sessions'[h].slot_used,
         sessions'[h].uuid = sessions[h].uuid,
         sessions'[h].session_id = sessions[h].session_id,
         sessions'[h].ctime = sessions[h].ctime,
         sessions'[h].atime = sessions[h].atime,
         sessions'[h].logon_state = sessions[h].logon_state,
         sessions'[h].username = sessions[h].username,
         PutInJar(sessions, cookies, h, k, v, sessions', cookies')
  PROVE  Map!Update(sessions[h].uuid,
                    Filled(LiveMap[sessions[h].uuid], k, v))
<1> DEFINE u == sessions[h].uuid
<1>1. /\ LiveMap[u] = SessionIn(sessions, cookies, h)
      /\ UsedSessions(sessions') = UsedSessions(sessions)
  BY MapFacts DEF UsedSessions
<1>2. ASSUME NEW g \in UsedSessions(sessions) \ {h}
      PROVE  SameSession(sessions, cookies, g, sessions', cookies')
  <2>1. sessions'[g] = sessions[g]
    BY DEF UsedSessions
  <2>2. JarMap(cookies', sessions'[g].cookiestore_index) =
          JarMap(cookies, sessions[g].cookiestore_index)
    BY DEF PutInJar
  <2>3. QED BY <2>1, <2>2, SameSessionIn
<1>3. Map!Update(u, SessionIn(sessions', cookies', h))
  BY <1>1, <1>2, UpdateMaps
<1>4. SessionIn(sessions', cookies', h) = Filled(LiveMap[u], k, v)
  <2>1. JarMap(cookies', sessions'[h].cookiestore_index) =
          Put(JarMap(cookies, sessions[h].cookiestore_index), k, v)
    BY DEF Put, PutInJar
  <2> HIDE DEF u
  <2>2. QED BY <1>1, <2>1, SessionWritten
<1> HIDE DEF u
<1>5. Map!Update(u, Filled(LiveMap[u], k, v))
  BY <1>3, <1>4
<1>6. QED BY <1>5 DEF u

(* Where get_cookie_index_by_name finds a key in the session of slot h.    *)
IndexOf(h, key, locid) ==
  get_cookie_index_by_name(cookies, sessions[h].cookiestore_index, key, locid)

(* It finds a cookie of the jar, which is in its place, or no cookie has   *)
(* the key.                                                                *)
LEMMA LookUp ==
  ASSUME MapOK, NEW h \in UsedSessions(sessions),
         NEW key \in CookieName, NEW locid \in Location,
         NEW c, c = IndexOf(h, key, locid)
  PROVE  /\ c # -1 =>
              /\ c \in JarOf(sessions, cookies, h)
              /\ c \in UsedCookies(cookies)
              /\ Place(cookies, c) \in Places
              /\ c \in InPlace(cookies, sessions[h].cookiestore_index,
                            Place(cookies, c))
              /\ LiveMap[sessions[h].uuid].jar[Place(cookies, c)] # NoCookie
         /\ c = -1 =>
              Matching(cookies, sessions[h].cookiestore_index, key, locid) = {}
<1>1. StoreOK(sessions, cookies)
  BY MapFacts
<1>2. /\ c = -1 =>
           Matching(cookies, sessions[h].cookiestore_index, key, locid) = {}
      /\ c # -1 =>
           c \in Matching(cookies, sessions[h].cookiestore_index, key, locid)
  BY <1>1, FindInJar DEF IndexOf, StoreOK
<1>3. ASSUME c # -1
      PROVE  /\ c \in JarOf(sessions, cookies, h)
             /\ c \in UsedCookies(cookies)
             /\ Place(cookies, c) \in Places
             /\ c \in InPlace(cookies, sessions[h].cookiestore_index,
                           Place(cookies, c))
  <2>1. c \in JarOf(sessions, cookies, h)
    BY <1>2, <1>3 DEF Matching, JarOf
  <2>2. c \in UsedCookies(cookies)
    BY <2>1, <1>1, JarsFacts DEF StoreOK
  <2>3. Place(cookies, c) \in Places
    BY <2>2, <1>1, PlaceIsPlace DEF StoreOK, KeysInv
  <2>4. QED BY <2>1, <2>2, <2>3 DEF InPlace, AtPlace, JarOf
<1>4. ASSUME c # -1
      PROVE  LiveMap[sessions[h].uuid].jar[Place(cookies, c)] # NoCookie
  <2> DEFINE k == Place(cookies, c)
  <2>1. k \in Places /\ InPlace(cookies, sessions[h].cookiestore_index, k) # {}
    BY <1>3, <1>4
  <2> HIDE DEF k
  <2>2. LiveMap[sessions[h].uuid].jar[k] # NoCookie
    BY <1>1, <2>1, HeldIfFound DEF LiveMap
  <2>3. QED BY <2>2 DEF k
<1>5. QED BY <1>2, <1>3, <1>4

(* A place without a cookie in the jar is what a deletion leaves.          *)
LEMMA WithoutCookie ==
  ASSUME NEW u, NEW k \in Places, Map!Update(u, Filled(LiveMap[u], k, NoCookie))
  PROVE  Map!SetCookie(u)
BY DEF Map!SetCookie, Filled

(* A value in the jar is what an addition or an update leaves.             *)
LEMMA WithCookie ==
  ASSUME NEW u, NEW k \in Places, NEW value \in CookieValue,
         LiveMap[u].jar[k] # NoCookie \/ Map!TotalCookies < COOKIESTORE_COUNT,
         Map!Update(u, Filled(LiveMap[u], k, value))
  PROVE  Map!SetCookie(u)
BY DEF Map!SetCookie, Filled

(* A deletion under a key without a cookie changes nothing.                *)
LEMMA AbsentMaps ==
  ASSUME sessions' = sessions, cookies' = cookies, NEW u
  PROVE  Map!SetCookie(u)
BY DEF Map!SetCookie, LiveMap

(* A cookie deleted is a place without a cookie in the jar.                *)
LEMMA DeletedMaps ==
  ASSUME MapOK, MapOK', NEW h \in UsedSessions(sessions),
         NEW key \in CookieName, NEW locid \in Location,
         NEW c, c = IndexOf(h, key, locid), c # -1, Deletes(h, c)
  PROVE  Map!SetCookie(sessions[h].uuid)
<1> DEFINE n == AnchorAfterDelete(cookies, sessions[h].cookiestore_index, c)
           k == Place(cookies, c)
<1>1. /\ StoreOK(sessions, cookies) /\ h \in SessionSlot
      /\ sessions \in [SessionSlot -> session_data_t]
      /\ sessions[h] \in session_data_t /\ sessions[h].slot_used
  BY MapFacts DEF StoreOK, StoreTypeOK, UsedSessions
<1>2. /\ sessions' = [sessions EXCEPT ![h].cookiestore_index = n]
      /\ cookies' = DeleteCookie(cookies, c)
  BY DEF Deletes
<1>3. /\ k \in Places /\ c \in InPlace(cookies, sessions[h].cookiestore_index, k)
      /\ c \in JarOf(sessions, cookies, h)
  BY LookUp
<1> HIDE DEF k
<1>4. LeavesJar(sessions, cookies, h, c, sessions', cookies')
  BY <1>1, <1>2, <1>3, DeleteJars DEF StoreOK
<1> HIDE DEF n
<1>5. PutInJar(sessions, cookies, h, k, NoCookie, sessions', cookies')
  BY <1>1, <1>3, <1>4, JarMapLeaves
<1> HIDE DEF n
<1>6. /\ \A g \in SessionSlot \ {h} : sessions'[g] = sessions[g]
      /\ sessions'[h].slot_used
      /\ sessions'[h].uuid = sessions[h].uuid
      /\ sessions'[h].session_id = sessions[h].session_id
      /\ sessions'[h].ctime = sessions[h].ctime
      /\ sessions'[h].atime = sessions[h].atime
      /\ sessions'[h].logon_state = sessions[h].logon_state
      /\ sessions'[h].username = sessions[h].username
  BY <1>1, <1>2 DEF session_data_t
<1>7. Map!Update(sessions[h].uuid,
                 Filled(LiveMap[sessions[h].uuid], k, NoCookie))
  BY <1>3, <1>5, <1>6, JarMaps
<1>8. QED BY <1>3, <1>7, WithoutCookie

(* A cookie updated was there, and has the new value.                      *)
LEMMA UpdatedMaps ==
  ASSUME MapOK, MapOK', NEW h \in UsedSessions(sessions),
         NEW key \in CookieName, NEW locid \in Location,
         NEW value \in CookieValue,
         NEW c, c = IndexOf(h, key, locid), c # -1, Updates(c, value)
  PROVE  Map!SetCookie(sessions[h].uuid)
<1> DEFINE k == Place(cookies, c)
<1>1. StoreOK(sessions, cookies) /\ sessions[h].slot_used
  BY MapFacts DEF UsedSessions
<1>2. sessions' = sessions /\ cookies' = [cookies EXCEPT ![c].value = value]
  BY DEF Updates
<1>3. /\ k \in Places /\ c \in InPlace(cookies, sessions[h].cookiestore_index, k)
      /\ c \in UsedCookies(cookies)
      /\ LiveMap[sessions[h].uuid].jar[k] # NoCookie
  BY LookUp
<1> HIDE DEF k
<1>4. Overwritten(sessions, cookies, c, value, cookies')
  BY <1>1, <1>2, <1>3, UpdateKeepsKeys DEF StoreOK
<1>5. PutInJar(sessions, cookies, h, k, value, sessions', cookies')
  <2>1. PutInJar(sessions, cookies, h, k, value, sessions, cookies')
    BY <1>1, <1>3, <1>4, JarMapUpdate
  <2>2. QED BY <2>1, <1>2
<1>6. Map!Update(sessions[h].uuid,
                 Filled(LiveMap[sessions[h].uuid], k, value))
  BY <1>1, <1>2, <1>3, <1>5, JarMaps
<1>7. QED BY <1>3, <1>6, WithCookie

(* Slot c joins the jar of the session in slot h with a new cookie.        *)
Joined(sess, ck, h, c, key, value, locid, s1, k1) ==
  /\ JoinsJar(sess, ck, h, c, s1, k1)
  /\ k1[c].name = Cut[key] /\ k1[c].value = value /\ k1[c].location_id = locid

(* A slot added at the head of a chain joins its jar.                      *)
LEMMA AddJoins ==
  ASSUME NEW sess, NEW ck, NEW h \in UsedSessions(sess),
         NEW c \in CookieSlot \ UsedCookies(ck),
         NEW key \in CookieName, NEW value \in CookieValue,
         NEW locid \in Location, StoreOK(sess, ck)
  PROVE  Joined(sess, ck, h, c, key, value, locid,
                [sess EXCEPT ![h].cookiestore_index = c],
                AddCookie(ck, sess[h].cookiestore_index, c, key, value, locid))
<1>1. StoreTypeOK(sess, ck) /\ WellLinked(sess, ck)
  BY DEF StoreOK
<1> DEFINE s1 == [sess EXCEPT ![h].cookiestore_index = c]
           k1 == AddCookie(ck, sess[h].cookiestore_index, c, key, value, locid)
<1>2. /\ JoinsJar(sess, ck, h, c, s1, k1)
      /\ k1[c].name = Cut[key] /\ k1[c].value = value
      /\ k1[c].location_id = locid
  BY <1>1, AddJars
<1> HIDE DEF s1, k1
<1>3. Joined(sess, ck, h, c, key, value, locid, s1, k1)
  BY <1>2 DEF Joined
<1>4. QED BY <1>3 DEF s1, k1

(* It has a place in which there was no cookie: a name that fits was not   *)
(* found, and a slot that was free had no place of its own.                *)
LEMMA NewPlace ==
  ASSUME NEW ck, NEW a, NEW c, NEW k1, NEW key \in CookieName,
         NEW locid \in Location, Matching(ck, a, key, locid) = {},
         c \notin Chain(ck, a), c \in CookieSlot,
         k1[c].name = Cut[key], k1[c].location_id = locid
  PROVE  Place(k1, c) \in Places /\ InPlace(ck, a, Place(k1, c)) = {}
<1>1. CASE Cut[key] \in Exact
  <2>1. key = Cut[key]
    BY <1>1 DEF Exact
  <2>2. Place(k1, c) = <<key, locid>> /\ key \in Exact
    BY <1>1, <2>1 DEF Place
  <2>3. ASSUME NEW d \in Chain(ck, a), Place(ck, d) = <<key, locid>>
        PROVE  FALSE
    <3>1. ck[d].name = key /\ ck[d].location_id = locid
      BY <2>2, <2>3, EmptyNotExact DEF Place
    <3>2. QED BY <3>1 DEF Matching
  <2>4. InPlace(ck, a, <<key, locid>>) = {}
    BY <2>3 DEF InPlace, AtPlace
  <2>5. QED BY <2>2, <2>4 DEF Places
<1>2. CASE Cut[key] \notin Exact
  <2>1. Place(k1, c) = <<"empty", c>>
    BY <1>2 DEF Place
  <2>2. ASSUME NEW d \in Chain(ck, a), Place(ck, d) = <<"empty", c>>
        PROVE  FALSE
    BY <2>2, EmptyNotExact DEF Place
  <2>3. InPlace(ck, a, <<"empty", c>>) = {}
    BY <2>2 DEF InPlace, AtPlace
  <2>4. QED BY <2>1, <2>3 DEF Places
<1>3. QED BY <1>1, <1>2

(* A cookie added found room in the map, and is in the jar.                *)
LEMMA AddedMaps ==
  ASSUME MapOK, MapOK', NEW h \in UsedSessions(sessions),
         NEW key \in CookieName, NEW locid \in Location,
         NEW value \in CookieValue, IndexOf(h, key, locid) = -1,
         NEW c \in CookieSlot, Adds(h, c, key, value, locid)
  PROVE  Map!SetCookie(sessions[h].uuid)
<1>1. /\ StoreOK(sessions, cookies) /\ h \in SessionSlot
      /\ sessions \in [SessionSlot -> session_data_t]
      /\ sessions[h] \in session_data_t /\ sessions[h].slot_used
  BY MapFacts DEF StoreOK, StoreTypeOK, UsedSessions
<1>2. /\ FirstEmptyCookieSlot(cookies, c)
      /\ cookies' = AddCookie(cookies, sessions[h].cookiestore_index, c,
                              key, value, locid)
      /\ sessions' = [sessions EXCEPT ![h].cookiestore_index = c]
  BY DEF Adds
<1>3. c \in CookieSlot \ UsedCookies(cookies)
  BY <1>2 DEF FirstEmptyCookieSlot
<1>4. Map!TotalCookies < COOKIESTORE_COUNT
  <2>1. UsedCookies(cookies) # CookieSlot
    BY <1>3
  <2>2. /\ Cardinality(KeysHeld(sessions, cookies)) \in Nat
        /\ Cardinality(KeysHeld(sessions, cookies)) <= COOKIESTORE_COUNT
        /\ Cardinality(KeysHeld(sessions, cookies)) # COOKIESTORE_COUNT
    BY <1>1, <2>1, CookieCount
  <2>3. Map!TotalCookies = Cardinality(KeysHeld(sessions, cookies))
    BY MapFacts
  <2>4. QED BY <2>2, <2>3, CountsAssumption
<1>5. Matching(cookies, sessions[h].cookiestore_index, key, locid) = {}
  <2>1. PICK d : d = IndexOf(h, key, locid)
    OBVIOUS
  <2>2. QED BY <2>1, LookUp
<1>6. /\ JoinsJar(sessions, cookies, h, c, sessions', cookies')
      /\ cookies'[c].name = Cut[key] /\ cookies'[c].value = value
      /\ cookies'[c].location_id = locid
  <2>1. Joined(sessions, cookies, h, c, key, value, locid, sessions', cookies')
    BY <1>1, <1>2, <1>3, AddJoins
  <2>2. QED BY <2>1 DEF Joined
<1> DEFINE k == Place(cookies', c)
<1>a. k \in Places /\ InPlace(cookies, sessions[h].cookiestore_index, k) = {}
  <2>1. c \notin Chain(cookies, sessions[h].cookiestore_index)
    BY <1>1, <1>3, JarsFacts DEF StoreOK, JarOf
  <2>2. QED BY <1>5, <1>6, <2>1, NewPlace
<1>7. PutInJar(sessions, cookies, h, k, value, sessions', cookies')
  <2>1. Carries(cookies', c, k, value)
    BY <1>6 DEF Carries
  <2>2. ~Occupied(cookies, sessions[h].cookiestore_index, k)
    BY <1>a DEF Occupied
  <2> HIDE DEF k
  <2>3. QED BY <1>1, <1>a, <1>6, <2>1, <2>2, JarMapJoins
<1> HIDE DEF k
<1>8. /\ \A g \in SessionSlot \ {h} : sessions'[g] = sessions[g]
      /\ sessions'[h].slot_used
      /\ sessions'[h].uuid = sessions[h].uuid
      /\ sessions'[h].session_id = sessions[h].session_id
      /\ sessions'[h].ctime = sessions[h].ctime
      /\ sessions'[h].atime = sessions[h].atime
      /\ sessions'[h].logon_state = sessions[h].logon_state
      /\ sessions'[h].username = sessions[h].username
  BY <1>1, <1>2 DEF session_data_t
<1>9. Map!Update(sessions[h].uuid,
                 Filled(LiveMap[sessions[h].uuid], k, value))
  BY <1>a, <1>7, <1>8, JarMaps
<1>10. QED BY <1>4, <1>9, <1>a, WithCookie

(* There is no room for a cookie when every cookie slot is used.           *)
LEMMA NoRoomMaps ==
  ASSUME MapOK, UsedCookies(cookies) = CookieSlot,
         sessions' = sessions, cookies' = cookies, NEW u
  PROVE  Map!NoRoom(u)
<1>1. Map!TotalCookies = COOKIESTORE_COUNT
  BY MapFacts, CookieCount
<1>2. LiveMap' = LiveMap
  BY DEF LiveMap
<1>3. QED BY <1>1, <1>2 DEF Map!NoRoom

-----------------------------------------------------------------------------
(* The store is full when every slot holds a session that has time left.   *)
LEMMA FullMaps ==
  ASSUME MapOK, StoreFull(sessions, now),
         sessions' = sessions, cookies' = cookies
  PROVE  Map!Full
<1>1. StoreOK(sessions, cookies) /\ Map!Exists = Uuids(sessions)
  BY MapFacts
<1>2. /\ UsedSessions(sessions) = SessionSlot
      /\ \A h \in UsedSessions(sessions) : ~ mshield_shm_timeout(sessions[h], now)
  BY DEF StoreFull, Reusable, UsedSessions
<1>3. Map!Cardinality(Map!Exists) = SESSION_COUNT
  <2> DEFINE S == UsedSessions(sessions)
             T == {sessions[h].uuid : h \in S}
  <2>1. Cardinality(T) = SESSION_COUNT
    BY <1>1, <1>2, UuidCount DEF StoreOK
  <2>2. T = Map!Exists
    BY <1>1 DEF Uuids
  <2> HIDE DEF T
  <2>3. QED BY <2>1, <2>2, SameCardinality
<1>4. \A u \in Map!Exists : ~ Map!Expired(u)
  BY <1>1, <1>2, MapFacts DEF Uuids
<1>5. LiveMap' = LiveMap
  BY DEF LiveMap
<1>6. QED BY <1>3, <1>4, <1>5 DEF Map!Full

(* An empty store is an empty map.                                         *)
LEMMA InitMaps ==
  ASSUME sessions = [i \in SessionSlot |-> ClearedSession], now = 0
  PROVE  Map!Init
<1>1. Uuids(sessions) = {}
  BY DEF Uuids, UsedSessions, ClearedSession
<1>2. LiveMap = [u \in {} |-> Null]
  BY <1>1 DEF LiveMap, LiveOf
<1>3. QED BY <1>2 DEF Map!Init

=============================================================================
