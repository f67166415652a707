---------------------------- MODULE EngineProofs ----------------------------
(***************************************************************************)
(* What the sound, the graphics and the code formats of the engine do for  *)
(* any cart.                                                               *)
(*                                                                         *)
(* Sound, for any channels, effects and song, any number of calls, and any *)
(* order of the stores of the two threads: the cart has no effect on two   *)
(* channels, but where both threads launched on one channel at once; the   *)
(* music is at a pattern and not past its end, from a setting of it that   *)
(* the other thread was not at until both are in it at once.               *)
(*                                                                         *)
(* Graphics, for any side of the screen, any sheet and map, and calls with *)
(* any arguments: through a clip window that ends on the screen - as all   *)
(* do but those with a far side that is negative or past the cart's        *)
(* numbers - no call draws outside it, or in a plane that is not written,  *)
(* a filled rectangle is every point between its corners, a line loses     *)
(* nothing when it is cut at the screen, and spr, sspr and map draw a      *)
(* sprite alike; through any window a line is the same from either end,    *)
(* and nothing is drawn that no row of the window runs over into.          *)
(*                                                                         *)
(* Code, for any text the header of a cart has room for: what is written   *)
(* in any of the formats is read back, and the packer's search counts, for *)
(* each way through the text, the bits that are written for it.            *)
(***************************************************************************)
EXTENDS SoundInvariants, Drawing, CodeCodec, FiniteSetTheorems, SequenceTheorems, WellFoundedInduction, TLAPS

-----------------------------------------------------------------------------
(* Numbers.                                                                *)

\* What 0 has and every next number has, all numbers have.
LEMMA Counting ==
  ASSUME NEW S, 0 \in S, \A n \in Nat : n \in S => n + 1 \in S
  PROVE  Nat \subseteq S
<1> DEFINE Missing == Nat \ S
<1> SUFFICES ASSUME Missing # {} PROVE FALSE
  OBVIOUS
<1>1. \E m \in Missing : \A n \in Missing : <<n, m>> \notin OpToRel(<, Nat)
  <2>1. Missing \subseteq Nat
    OBVIOUS
  <2> HIDE DEF Missing
  <2> QED
    BY <2>1, NatLessThanWellFounded, WFMin, Zenon
<1>2. PICK m \in Missing : \A n \in Missing : <<n, m>> \notin OpToRel(<, Nat)
  BY <1>1
<1>3. \A n \in Missing : ~(n < m)
  BY <1>2, Zenon DEF OpToRel
<1>4. m # 0 /\ m - 1 \in Nat /\ m - 1 < m
  OBVIOUS
<1>5. m - 1 \in S
  BY <1>3, <1>4
<1> QED
  BY <1>4, <1>5

\* A number is largest somewhere on a finite set: of the sets where it is not, one
\* would be smallest.
LEMMA Largest ==
  ASSUME NEW S, IsFiniteSet(S), S # {}, NEW f \in [S -> Int]
  PROVE  \E x \in S : \A y \in S : f[y] <= f[x]
<1> DEFINE Has(U) == \E x \in U : \A y \in U : f[y] <= f[x]
           Bad == {U \in SUBSET S : U # {} /\ ~Has(U)}
           Less == StrictSubsetOrdering(S)
<1>1. Bad = {}
  <2> SUFFICES ASSUME Bad # {} PROVE FALSE
    OBVIOUS
  <2>1. IsWellFoundedOn(Less, SUBSET S)
    BY FS_StrictSubsetOrderingWellFounded, FS_FiniteSubsetsOfFinite
  <2>2. \E U \in Bad : \A V \in Bad : <<V, U>> \notin Less
    <3> HIDE DEF Has, Less
    <3>1. Bad \subseteq SUBSET S
      OBVIOUS
    <3> HIDE DEF Bad
    <3> QED
      BY <2>1, <3>1, WFMin
  <2>3. PICK U \in Bad : \A V \in Bad : <<V, U>> \notin Less
    BY <2>2
  <2>4. PICK x \in U : TRUE
    OBVIOUS
  <2> DEFINE V == U \ {x}
  <2>5. U \in SUBSET S /\ V \in SUBSET S /\ V \subseteq U /\ V # U /\ ~Has(U)
    BY <2>4
  <2>6. <<V, U>> \in Less
    BY <2>5 DEF StrictSubsetOrdering
  <2>7. V \notin Bad
    BY <2>3, <2>6
  <2>8. \A y \in U : f[y] \in Int
    BY <2>5
  <2>9. CASE V = {}
    <3>1. \A y \in U : y = x
      BY <2>9
    <3> QED
      BY <2>4, <2>5, <2>8, <3>1
  <2>10. CASE V # {}
    <3>1. Has(V)
      BY <2>5, <2>7, <2>10
    <3>2. PICK z \in V : \A y \in V : f[y] <= f[z]
      BY <3>1
    <3>3. \A y \in U : y \in V \/ y = x
      OBVIOUS
    <3>4. \A y \in U : f[y] <= IF f[x] <= f[z] THEN f[z] ELSE f[x]
      BY <2>4, <2>8, <3>2, <3>3
    <3>5. Has(U)
      BY <2>4, <3>2, <3>4
    <3> QED
      BY <2>5, <3>5
  <2> QED
    BY <2>9, <2>10
<1> QED
  BY <1>1

\* What is the least of a finite set of numbers is one of them.
LEMMA MinIsIn ==
  ASSUME NEW S \in SUBSET Int, IsFiniteSet(S), S # {}
  PROVE  Min(S) \in S
<1>1. [x \in S |-> -x] \in [S -> Int]
  OBVIOUS
<1>2. PICK x \in S : \A y \in S : [z \in S |-> -z][y] <= [z \in S |-> -z][x]
  BY <1>1, Largest
<1>3. \A y \in S : x <= y
  BY <1>2
<1> QED
  BY <1>3 DEF Min

\* What is the greatest of a finite set of numbers is one of them.
LEMMA MaxIsIn ==
  ASSUME NEW S \in SUBSET Int, IsFiniteSet(S), S # {}
  PROVE  Max(S) \in S /\ \A y \in S : Max(S) >= y
<1>1. [x \in S |-> x] \in [S -> Int]
  OBVIOUS
<1>2. PICK x \in S : \A y \in S : [z \in S |-> z][y] <= [z \in S |-> z][x]
  BY <1>1, Largest
<1>3. \A y \in S : x >= y
  BY <1>2
<1> QED
  BY <1>3 DEF Max

-----------------------------------------------------------------------------
(* The voices.                                                             *)

LEMMA ThreadsAre == \A t \in Threads : Other(t) \in Threads /\ Other(t) # t /\ \A o \in Threads : o = t \/ o = Other(t)
  BY DEF Threads, Other

LEMMA PlacesAre ==
  ASSUME NEW c \in Channels
  PROVE  \A f \in ChannelFields : <<c, f>> \in Places /\ <<c, f>>[1] = c /\ <<c, f>>[2] = f
  BY DEF Places

LEMMA AtIs ==
  ASSUME NEW c, NEW fields
  PROVE  /\ \A f \in DOMAIN fields : <<c, f>> \in DOMAIN At(c, fields) /\ At(c, fields)[<<c, f>>] = fields[f]
         /\ \A p \in DOMAIN At(c, fields) : p[1] = c /\ p[2] \in DOMAIN fields /\ p = <<c, p[2]>>
         /\ \A d, f : <<d, f>> \in DOMAIN At(c, fields) => d = c /\ f \in DOMAIN fields
         /\ OfOnePlace(At(c, fields))
<1>1. DOMAIN At(c, fields) = {c} \X DOMAIN fields
  BY DEF At
<1>2. \A f \in DOMAIN fields : <<c, f>> \in {c} \X DOMAIN fields /\ <<c, f>>[2] = f
  OBVIOUS
<1>3. \A f \in DOMAIN fields : At(c, fields)[<<c, f>>] = fields[f]
  BY <1>2 DEF At
<1>4. \A p \in {c} \X DOMAIN fields : p[1] = c /\ p[2] \in DOMAIN fields /\ p = <<c, p[2]>>
  OBVIOUS
<1>5. \A d, f : <<d, f>> \in {c} \X DOMAIN fields => d = c /\ f \in DOMAIN fields
  OBVIOUS
<1> QED
  BY <1>1, <1>2, <1>3, <1>4, <1>5 DEF OfOnePlace

LEMMA FewerStores ==
  ASSUME NEW some, NEW all, OfOnePlace(all), DOMAIN some \subseteq DOMAIN all
  PROVE  OfOnePlace(some)
  BY DEF OfOnePlace

LEMMA NoStoresAre ==
  /\ DOMAIN NoStores = {} /\ OfOnePlace(NoStores)
<1>1. DOMAIN NoStores = {None} \X DOMAIN << >>
  BY DEF NoStores, At
<1>2. DOMAIN << >> = {}
  OBVIOUS
<1> QED
  BY <1>1, <1>2 DEF OfOnePlace

\* What comes to memory is what the thread has pending, and it sees no change.
LEMMA LandIs ==
  ASSUME NEW t \in Threads, DOMAIN pending = Threads, Land(t)
  PROVE  /\ pending'[Other(t)] = pending[Other(t)] /\ DOMAIN pending' = Threads
         /\ DOMAIN pending'[t] \subseteq DOMAIN pending[t]
         /\ \A p \in DOMAIN pending'[t] : pending'[t][p] = pending[t][p]
         /\ \A p \in Places : \/ mem'[p] = mem[p] /\ (p \in DOMAIN pending[t] => p \in DOMAIN pending'[t])
                              \/ /\ mem'[p] = pending[t][p]
                                 /\ p \in DOMAIN pending[t] /\ p \notin DOMAIN pending'[t]
         /\ UNCHANGED <<pc, todo, goal, play, beat, still, paused, calls, torn, crossed>>
<1>1. PICK word \in Together :
        LET places == {p \in DOMAIN pending[t] : p[2] \in word}
        IN  /\ mem' = [p \in Places |-> IF p \in places THEN pending[t][p] ELSE mem[p]]
            /\ Stores(t, [p \in DOMAIN pending[t] \ places |-> pending[t][p]])
  BY DEF Land
<1> DEFINE places == {p \in DOMAIN pending[t] : p[2] \in word}
           rest == [p \in DOMAIN pending[t] \ places |-> pending[t][p]]
<1>2. places \subseteq DOMAIN pending[t]
  OBVIOUS
<1>3. /\ mem' = [p \in Places |-> IF p \in places THEN pending[t][p] ELSE mem[p]]
      /\ pending' = [pending EXCEPT ![t] = rest]
  BY <1>1 DEF Stores
<1>4. DOMAIN rest = DOMAIN pending[t] \ places /\ \A p \in DOMAIN rest : rest[p] = pending[t][p]
  OBVIOUS
<1> HIDE DEF places, rest
<1>5. pending'[t] = rest /\ DOMAIN pending' = Threads /\ pending'[Other(t)] = pending[Other(t)]
  BY <1>3, ThreadsAre
<1>6. UNCHANGED <<pc, todo, goal, play, beat, still, paused, calls, torn, crossed>>
  BY DEF Land
<1> QED
  BY <1>2, <1>3, <1>4, <1>5, <1>6

\* A channel that plays an effect for the cart after the audio thread's stores have
\* come to memory played it before.
LEMMA AudioLandsNoVoice ==
  ASSUME PendingStores, Launches, Land("audio"), NEW c \in Channels, Voiced(c)'
  PROVE  Voiced(c) /\ Playing(c)' = Playing(c)
<1>1. "audio" \in Threads /\ "cart" \in Threads /\ Other("audio") = "cart"
  BY DEF Threads, Other
<1>2. /\ pending'["cart"] = pending["cart"] /\ crossed' = crossed
      /\ DOMAIN pending'["audio"] \subseteq DOMAIN pending["audio"]
      /\ \A p \in DOMAIN pending'["audio"] : pending'["audio"][p] = pending["audio"][p]
      /\ \A p \in Places :
            \/ mem'[p] = mem[p] /\ (p \in DOMAIN pending["audio"] => p \in DOMAIN pending'["audio"])
            \/ /\ mem'[p] = pending["audio"][p]
               /\ p \in DOMAIN pending["audio"] /\ p \notin DOMAIN pending'["audio"]
  BY <1>1, LandIs DEF PendingStores
<1>3. <<c, "sfx">> \in Places /\ <<c, "ofMusic">> \in Places
  BY PlacesAre DEF ChannelFields
<1>4. c \notin crossed /\ ~Launching("audio", c)' /\ ~Launching("cart", c)'
  BY <1>1, <1>2 DEF Voiced, Whole
<1>5. ~Launching("cart", c)
  BY <1>2, <1>4 DEF Launching
<1>6. ~Launching("audio", c)
  <2>1. SUFFICES ASSUME Launching("audio", c) PROVE FALSE
    OBVIOUS
  <2>2. Seen("audio", <<c, "ofMusic">>) = TRUE
    BY <1>4, <2>1 DEF Launches
  <2>3. <<c, "ofMusic">> \notin DOMAIN pending'["audio"]
    BY <1>4 DEF Launching
  <2>4. mem'[<<c, "ofMusic">>] = TRUE
    BY <1>2, <1>3, <2>2, <2>3 DEF Seen
  <2> QED
    BY <2>4 DEF Voiced, OfMusic
<1>7. mem'[<<c, "ofMusic">>] = mem[<<c, "ofMusic">>]
  BY <1>2, <1>3, <1>6 DEF Launching
<1>8. mem'[<<c, "sfx">>] = mem[<<c, "sfx">>]
  BY <1>2, <1>3, <1>6 DEF Launching, Voiced, Playing
<1>9. Whole(c)
  BY <1>4, <1>5, <1>6 DEF Whole, Threads
<1> QED
  BY <1>7, <1>8, <1>9 DEF Voiced, OfMusic, Playing

LEMMA AudioLandKeepsVoices ==
  ASSUME OneVoiceInv, Land("audio")
  PROVE  OneVoiceInv'
<1>1. "audio" \in Threads /\ "cart" \in Threads /\ Other("audio") = "cart"
  BY DEF Threads, Other
<1> DEFINE old == pending["audio"]
           new == pending'["audio"]
<1>2. /\ pending'["cart"] = pending["cart"] /\ DOMAIN pending' = Threads
      /\ DOMAIN new \subseteq DOMAIN old
      /\ \A p \in DOMAIN new : new[p] = old[p]
      /\ \A p \in Places :
            \/ mem'[p] = mem[p] /\ (p \in DOMAIN old => p \in DOMAIN new)
            \/ mem'[p] = old[p] /\ p \in DOMAIN old /\ p \notin DOMAIN new
      /\ UNCHANGED <<pc, todo, play, crossed>>
  BY <1>1, LandIs DEF OneVoiceInv, PendingStores
<1>3. \A c \in Channels : <<c, "sfx">> \in Places /\ <<c, "ofMusic">> \in Places
  BY PlacesAre DEF ChannelFields
<1>4. \A c \in Channels : Voiced(c)' => Voiced(c) /\ Playing(c)' = Playing(c)
  BY AudioLandsNoVoice DEF OneVoiceInv
<1>5. \A c : Launching("cart", c)' <=> Launching("cart", c)
  BY <1>2 DEF Launching
<1>6. \A c : Launching("audio", c)' => Launching("audio", c)
  BY <1>2 DEF Launching
<1>7. PendingStores'
  <2>1. OfOnePlace(old) /\ OfOnePlace(pending["cart"])
    BY <1>1 DEF OneVoiceInv, PendingStores
  <2>2. OfOnePlace(new)
    BY <1>2, <2>1, FewerStores
  <2> QED
    BY <1>1, <1>2, <1>5, <2>1, <2>2 DEF OneVoiceInv, PendingStores, Threads
<1>8. Launches'
  <2>1. ASSUME NEW c \in Channels, c \notin crossed, Launching("audio", c)'
        PROVE  Seen("audio", <<c, "ofMusic">>)' = TRUE
    <3>1. Seen("audio", <<c, "ofMusic">>) = TRUE
      BY <1>6, <2>1 DEF OneVoiceInv, Launches
    <3> QED
      BY <1>2, <1>3, <3>1 DEF Seen
  <2>2. \A c \in Channels : <<c, "ofMusic">> \in DOMAIN new => new[<<c, "ofMusic">>] = TRUE
    BY <1>2 DEF OneVoiceInv, Launches
  <2> QED
    BY <1>2, <1>5, <1>6, <2>1, <2>2 DEF OneVoiceInv, Launches
<1>9. StoppedElsewhere'
  BY <1>2, <1>4 DEF OneVoiceInv, StoppedElsewhere
<1>10. LaunchedOnce'
  <2> SUFFICES ASSUME NEW c \in Channels \ crossed, Launching("cart", c),
                      Seen("cart", <<c, "ofMusic">>)' # TRUE
               PROVE  /\ <<c, "sfx">> \in DOMAIN pending["cart"] => pending["cart"][<<c, "sfx">>] # None
                      /\ \A d \in Channels \ {c} : Voiced(d)' => Seen("cart", <<c, "sfx">>)' # Playing(d)'
    BY <1>2, <1>5 DEF LaunchedOnce
  <2>1. ~Launching("audio", c)
    BY DEF OneVoiceInv, Launches
  <2>2. Seen("cart", <<c, "ofMusic">>)' = Seen("cart", <<c, "ofMusic">>)
    BY <1>2, <1>3, <2>1 DEF Launching, Seen
  <2>3. Seen("cart", <<c, "sfx">>)' \in {Seen("cart", <<c, "sfx">>), None}
    BY <1>2, <1>3, <2>1 DEF Launching, Seen
  <2> QED
    BY <1>4, <2>2, <2>3 DEF OneVoiceInv, LaunchedOnce, Voiced
<1>11. OneVoicePerEffect'
  <2> SUFFICES ASSUME NEW c \in Channels, NEW d \in Channels, c # d, Voiced(c)', Voiced(d)'
               PROVE  Playing(c)' # Playing(d)'
    BY DEF OneVoicePerEffect, Voiced
  <2> QED
    BY <1>4 DEF OneVoiceInv, OneVoicePerEffect, Voiced
<1> QED
  BY <1>7, <1>8, <1>9, <1>10, <1>11 DEF OneVoiceInv

LEMMA CartLandKeepsVoices ==
  ASSUME OneVoiceInv, Land("cart")
  PROVE  OneVoiceInv'
<1>1. "audio" \in Threads /\ "cart" \in Threads /\ Other("cart") = "audio"
  BY DEF Threads, Other
<1> DEFINE old == pending["cart"]
           new == pending'["cart"]
<1>2. /\ pending'["audio"] = pending["audio"] /\ DOMAIN pending' = Threads
      /\ DOMAIN new \subseteq DOMAIN old
      /\ \A p \in DOMAIN new : new[p] = old[p]
      /\ \A p \in Places :
            \/ mem'[p] = mem[p] /\ (p \in DOMAIN old => p \in DOMAIN new)
            \/ mem'[p] = old[p] /\ p \in DOMAIN old /\ p \notin DOMAIN new
      /\ UNCHANGED <<pc, todo, play, crossed>>
  BY <1>1, LandIs DEF OneVoiceInv, PendingStores
<1>3. \A c \in Channels : <<c, "sfx">> \in Places /\ <<c, "ofMusic">> \in Places
  BY PlacesAre DEF ChannelFields
<1>5. \A c : Launching("cart", c)' => Launching("cart", c)
  BY <1>2 DEF Launching
<1>6. \A c : Launching("audio", c)' <=> Launching("audio", c)
  BY <1>2 DEF Launching
<1>4. \A c \in Channels : Voiced(c)' /\ ~Launching("cart", c)
        => Voiced(c) /\ Playing(c)' = Playing(c)
  <2> SUFFICES ASSUME NEW c \in Channels, Voiced(c)', ~Launching("cart", c)
               PROVE  Voiced(c) /\ Playing(c)' = Playing(c)
    OBVIOUS
  <2>1. mem'[<<c, "ofMusic">>] = mem[<<c, "ofMusic">>]
    BY <1>2, <1>3 DEF Launching
  <2>2. mem'[<<c, "sfx">>] = mem[<<c, "sfx">>]
    BY <1>2, <1>3 DEF Launching, Voiced, Playing
  <2>3. Whole(c)
    BY <1>1, <1>2, <1>6 DEF Voiced, Whole, Threads
  <2> QED
    BY <2>1, <2>2, <2>3 DEF Voiced, OfMusic, Playing
<1>7. PendingStores'
  <2>1. OfOnePlace(old) /\ OfOnePlace(pending["audio"])
    BY <1>1 DEF OneVoiceInv, PendingStores
  <2>2. OfOnePlace(new)
    BY <1>2, <2>1, FewerStores
  <2> QED
    BY <1>1, <1>2, <1>5, <2>1, <2>2 DEF OneVoiceInv, PendingStores, Threads
<1>8. Launches'
  <2>1. ASSUME NEW c \in Channels, c \notin crossed, Launching("audio", c)
        PROVE  Seen("audio", <<c, "ofMusic">>)' = TRUE
    <3>1. Seen("audio", <<c, "ofMusic">>) = TRUE /\ ~Launching("cart", c)
      BY <2>1 DEF OneVoiceInv, Launches
    <3> QED
      BY <1>2, <1>3, <3>1 DEF Seen, Launching
  <2> QED
    BY <1>2, <1>5, <1>6, <2>1 DEF OneVoiceInv, Launches
<1>9. StoppedElsewhere'
  <2> SUFFICES ASSUME pc["cart"] = "once", NEW c \in Channels \ todo["cart"], Voiced(c)'
               PROVE  Playing(c)' # play.sfx \/ <<c, "sfx">> \in DOMAIN new
    BY <1>2 DEF StoppedElsewhere
  <2>1. ~Launching("cart", c)
    BY DEF OneVoiceInv, PendingStores
  <2>2. Voiced(c) /\ Playing(c)' = Playing(c)
    BY <1>4, <2>1
  <2>3. <<c, "sfx">> \in DOMAIN old => <<c, "sfx">> \in DOMAIN new \/ Playing(c)' = None
    BY <1>2, <1>3, <2>1 DEF Launching, Playing
  <2> QED
    BY <2>2, <2>3 DEF OneVoiceInv, StoppedElsewhere, Voiced
<1>10. ASSUME NEW c \in Channels, NEW d \in Channels, c # d, Launching("cart", c)
       PROVE  ~Launching("cart", d)
  BY <1>1, <1>10 DEF OneVoiceInv, PendingStores, OfOnePlace, Launching
<1>11. LaunchedOnce'
  <2> SUFFICES ASSUME NEW c \in Channels \ crossed, Launching("cart", c)',
                      Seen("cart", <<c, "ofMusic">>)' # TRUE
               PROVE  /\ <<c, "sfx">> \in DOMAIN new => new[<<c, "sfx">>] # None
                      /\ \A d \in Channels \ {c} : Voiced(d)' => Seen("cart", <<c, "sfx">>)' # Playing(d)'
    BY <1>2 DEF LaunchedOnce
  <2>1. Launching("cart", c)
    BY <1>5
  <2>2. /\ Seen("cart", <<c, "ofMusic">>)' = Seen("cart", <<c, "ofMusic">>)
        /\ Seen("cart", <<c, "sfx">>)' = Seen("cart", <<c, "sfx">>)
    BY <1>2, <1>3 DEF Seen
  <2>3. \A d \in Channels \ {c} : Voiced(d)' => Voiced(d) /\ Playing(d)' = Playing(d)
    BY <1>4, <1>10, <2>1
  <2> QED
    BY <1>2, <2>1, <2>2, <2>3 DEF OneVoiceInv, LaunchedOnce
<1>12. OneVoicePerEffect'
  <2>1. ASSUME NEW c \in Channels, NEW d \in Channels, c # d, Voiced(c)', Voiced(d)', Launching("cart", c)
        PROVE  Playing(c)' # Playing(d)'
    <3>1. Voiced(d) /\ Playing(d)' = Playing(d)
      BY <1>4, <1>10, <2>1
    <3>2. ~Launching("cart", c)' /\ c \notin crossed
      BY <1>1, <1>2, <2>1 DEF Voiced, Whole
    <3>3. Seen("cart", <<c, "ofMusic">>) # TRUE
      BY <1>2, <1>3, <2>1, <3>2 DEF Seen, Launching, Voiced, OfMusic
    <3>4. <<c, "sfx">> \notin DOMAIN new
      BY <1>2, <2>1, <3>2, <3>3 DEF OneVoiceInv, LaunchedOnce, Launching
    <3>5. Playing(c)' = Seen("cart", <<c, "sfx">>)
      BY <1>2, <1>3, <3>4 DEF Seen, Playing
    <3> QED
      BY <2>1, <3>1, <3>2, <3>3, <3>5 DEF OneVoiceInv, LaunchedOnce
  <2> SUFFICES ASSUME NEW c \in Channels, NEW d \in Channels, c # d, Voiced(c)', Voiced(d)'
               PROVE  Playing(c)' # Playing(d)'
    BY DEF OneVoicePerEffect, Voiced
  <2>2. CASE Launching("cart", c)
    BY <2>1, <2>2
  <2>3. CASE Launching("cart", d)
    BY <2>1, <2>3
  <2>4. CASE ~Launching("cart", c) /\ ~Launching("cart", d)
    BY <1>4, <2>4 DEF OneVoiceInv, OneVoicePerEffect, Voiced
  <2> QED
    BY <2>2, <2>3, <2>4
<1> QED
  BY <1>7, <1>8, <1>9, <1>11, <1>12 DEF OneVoiceInv

\* What a step of a thread leaves of the cart's sfx().
CartSame == pc'["cart"] = pc["cart"] /\ todo'["cart"] = todo["cart"] /\ play' = play

\* A thread that stores no sound, or silence, changes no voice.
LEMMA QuietVoices ==
  ASSUME OneVoiceInv, NEW t \in Threads, NEW stores, pending[t] = NoStores,
         pending'[t] = stores, DOMAIN pending' = Threads,
         \A o \in Threads \ {t} : pending'[o] = pending[o], OfOnePlace(stores),
         \A c \in Channels : /\ <<c, "ofMusic">> \notin DOMAIN stores
                             /\ <<c, "sfx">> \in DOMAIN stores => stores[<<c, "sfx">>] = None,
         mem' = mem, crossed' = crossed, DOMAIN pc' = Threads, DOMAIN todo' = Threads,
         \/ CartSame /\ t = "audio"
         \/ (pc'["cart"] = "once" => play'.sfx # None) /\ StoppedElsewhere' /\ t = "cart"
  PROVE  OneVoiceInv'
<1>1. "audio" \in Threads /\ "cart" \in Threads
  BY DEF Threads
<1>2. /\ pending'[t] = stores /\ DOMAIN pending' = Threads
      /\ \A o \in Threads \ {t} : pending'[o] = pending[o]
  OBVIOUS
<1>3. \A c \in Channels : ~Launching(t, c) /\ ~Launching(t, c)'
  BY <1>2, NoStoresAre DEF Launching
<1>4. \A c \in Channels, o \in Threads : Launching(o, c)' <=> Launching(o, c)
  <2>1. \A c \in Channels, o \in Threads \ {t} : Launching(o, c)' <=> Launching(o, c)
    BY <1>2 DEF Launching
  <2> QED
    BY <1>3, <2>1
<1>5. \A c \in Channels : (Voiced(c)' <=> Voiced(c)) /\ Playing(c)' = Playing(c)
  BY <1>4 DEF Voiced, Whole, OfMusic, Playing
<1>6. PendingStores'
  <2>1. \A o \in Threads : OfOnePlace(pending'[o])
    BY <1>2 DEF OneVoiceInv, PendingStores
  <2>2. pc'["cart"] = "once" => play'.sfx # None /\ \A c \in Channels : ~Launching("cart", c)'
    BY <1>1, <1>3, <1>4 DEF OneVoiceInv, PendingStores, CartSame
  <2> QED
    BY <1>2, <2>1, <2>2 DEF PendingStores
<1>7. Launches'
  <2>1. \A c \in Channels : <<c, "ofMusic">> \in DOMAIN pending'["audio"] =>
           pending'["audio"][<<c, "ofMusic">>] = TRUE
    BY <1>1, <1>2 DEF OneVoiceInv, Launches
  <2>2. \A c \in Channels \ crossed : Launching("audio", c)' => Seen("audio", <<c, "ofMusic">>)' = TRUE
    BY <1>1, <1>2, <1>3, <1>4 DEF OneVoiceInv, Launches, Seen
  <2> QED
    BY <1>1, <1>4, <2>1, <2>2 DEF OneVoiceInv, Launches
<1>8. StoppedElsewhere'
  <2>1. CASE CartSame /\ t = "audio"
    <3>1. pending'["cart"] = pending["cart"]
      BY <1>1, <1>2, <2>1
    <3> QED
      BY <1>5, <2>1, <3>1 DEF OneVoiceInv, StoppedElsewhere, CartSame
  <2> QED
    BY <2>1
<1>9. LaunchedOnce'
  <2>1. CASE t = "cart"
    BY <1>3, <2>1 DEF LaunchedOnce
  <2>2. CASE t # "cart"
    <3>1. pending'["cart"] = pending["cart"]
      BY <1>1, <1>2, <2>2
    <3>2. \A p : Seen("cart", p)' = Seen("cart", p)
      BY <3>1 DEF Seen
    <3>3. \A c \in Channels : Launching("cart", c)' <=> Launching("cart", c)
      BY <1>1, <1>4
    <3> QED
      BY <1>5, <3>1, <3>2, <3>3 DEF OneVoiceInv, LaunchedOnce
  <2> QED
    BY <2>1, <2>2
<1>10. OneVoicePerEffect'
  BY <1>5 DEF OneVoiceInv, OneVoicePerEffect, Voiced
<1> QED
  BY <1>6, <1>7, <1>8, <1>9, <1>10 DEF OneVoiceInv

LEMMA QuietKeepsVoices ==
  ASSUME OneVoiceInv, NEW t \in Threads, NEW stores, pending[t] = NoStores,
         pending' = [pending EXCEPT ![t] = stores], OfOnePlace(stores),
         \A c \in Channels : /\ <<c, "ofMusic">> \notin DOMAIN stores
                             /\ <<c, "sfx">> \in DOMAIN stores => stores[<<c, "sfx">>] = None,
         mem' = mem, crossed' = crossed, DOMAIN pc' = Threads, DOMAIN todo' = Threads,
         \/ CartSame /\ t = "audio"
         \/ (pc'["cart"] = "once" => play'.sfx # None) /\ StoppedElsewhere' /\ t = "cart"
  PROVE  OneVoiceInv'
  BY QuietVoices DEF OneVoiceInv, PendingStores

\* A thread that launches a sound changes no voice before the sound has come to memory;
\* what the cart launches plays nowhere else.
LEMMA LaunchKeepsVoices ==
  ASSUME OneVoiceInv, NEW t \in Threads, NEW c \in Channels, NEW stores, pending[t] = NoStores,
         pending' = [pending EXCEPT ![t] = stores], \A p \in DOMAIN stores : p[1] = c,
         <<c, "sfx">> \in DOMAIN stores, <<c, "ofMusic">> \in DOMAIN stores,
         mem' = mem, Mixes(t, c), DOMAIN pc' = Threads, DOMAIN todo' = Threads,
         \/ CartSame /\ t = "audio" /\ stores[<<c, "ofMusic">>] = TRUE
         \/ pc'["cart"] # "once" /\ t = "cart",
         stores[<<c, "ofMusic">>] # TRUE =>
            /\ stores[<<c, "sfx">>] # None
            /\ \A d \in Channels \ {c} : Voiced(d) => Playing(d) # stores[<<c, "sfx">>]
  PROVE  OneVoiceInv'
<1>1. "audio" \in Threads /\ "cart" \in Threads /\ Other(t) \in Threads \ {t}
  BY ThreadsAre DEF Threads
<1>2. /\ pending'[t] = stores /\ DOMAIN pending' = Threads
      /\ \A o \in Threads \ {t} : pending'[o] = pending[o]
  BY DEF OneVoiceInv, PendingStores
<1>3. Launching(t, c)' /\ \A d \in Channels : ~Launching(t, d) /\ (d # c => ~Launching(t, d)')
  <2>1. \A d \in Channels : \A f : d # c => <<d, f>> \notin DOMAIN stores
    OBVIOUS
  <2> QED
    BY <1>2, <2>1, NoStoresAre DEF Launching
<1>4. \A d \in Channels, o \in Threads \ {t} : Launching(o, d)' <=> Launching(o, d)
  BY <1>2 DEF Launching
<1>5. /\ \A d \in Channels \ {c} : d \in crossed' <=> d \in crossed
      /\ c \in crossed' <=> Launching(Other(t), c)
  BY DEF Mixes
<1>6. \A d \in Channels : Voiced(d)' => Voiced(d) /\ d # c
  BY <1>3, <1>4, <1>5 DEF Voiced, Whole, OfMusic, Playing
<1>7. \A d \in Channels : Playing(d)' = Playing(d)
  BY DEF Playing
<1>8. PendingStores'
  <2>1. OfOnePlace(stores)
    BY DEF OfOnePlace
  <2>2. \A o \in Threads : OfOnePlace(pending'[o])
    BY <1>2, <2>1 DEF OneVoiceInv, PendingStores
  <2>3. pc'["cart"] = "once" => play'.sfx # None /\ \A d \in Channels : ~Launching("cart", d)'
    BY <1>1, <1>4 DEF OneVoiceInv, PendingStores, CartSame
  <2> QED
    BY <1>2, <2>2, <2>3 DEF PendingStores
<1>9. Launches'
  <2>1. ASSUME NEW d \in Channels, Launching("cart", d)', Launching("audio", d)' PROVE d \in crossed'
    <3>1. CASE d = c
      <4>1. Launching(Other(t), c)'
        BY <2>1, <3>1 DEF Other
      <4> QED
        BY <1>1, <1>4, <1>5, <3>1, <4>1
    <3>2. CASE d # c
      BY <1>1, <1>3, <2>1, <3>2 DEF Threads
    <3> QED
      BY <3>1, <3>2
  <2>2. ASSUME NEW d \in Channels, <<d, "ofMusic">> \in DOMAIN pending'["audio"]
        PROVE  pending'["audio"][<<d, "ofMusic">>] = TRUE
    <3>1. CASE t = "audio"
      BY <1>2, <2>2, <3>1
    <3>2. CASE t # "audio"
      BY <1>1, <1>2, <2>2, <3>2 DEF OneVoiceInv, Launches
    <3> QED
      BY <3>1, <3>2
  <2>3. ASSUME NEW d \in Channels, d \notin crossed', Launching("audio", d)'
        PROVE  Seen("audio", <<d, "ofMusic">>)' = TRUE
    <3>1. CASE t = "audio"
      BY <1>2, <1>3, <2>3, <3>1 DEF Seen
    <3>2. CASE t # "audio"
      <4>1. pending'["audio"] = pending["audio"] /\ Launching("audio", d)
        BY <1>1, <1>2, <1>4, <2>3, <3>2
      <4>2. Other(t) = "audio"
        BY <3>2 DEF Other, Threads
      <4>3. d \notin crossed
        BY <1>5, <2>3, <4>1, <4>2
      <4> QED
        BY <2>3, <4>1, <4>3 DEF OneVoiceInv, Launches, Seen
    <3> QED
      BY <3>1, <3>2
  <2> QED
    BY <2>1, <2>2, <2>3 DEF Launches
<1>10. StoppedElsewhere'
  <2>1. CASE CartSame /\ t = "audio"
    <3>1. pending'["cart"] = pending["cart"]
      BY <1>1, <1>2, <2>1
    <3> QED
      BY <1>6, <1>7, <2>1, <3>1 DEF OneVoiceInv, StoppedElsewhere, CartSame
  <2> QED
    BY <2>1 DEF StoppedElsewhere
<1>11. LaunchedOnce'
  <2>1. CASE t = "cart"
    <3>1. Seen("cart", <<c, "ofMusic">>)' = stores[<<c, "ofMusic">>] /\ Seen("cart", <<c, "sfx">>)' = stores[<<c, "sfx">>]
      BY <1>2, <2>1 DEF Seen
    <3>2. pending'["cart"] = stores
      BY <1>2, <2>1
    <3>3. \A d \in Channels : Launching("cart", d)' => d = c
      BY <1>3, <2>1
    <3>4. \A d \in Channels \ {c} : Voiced(d)' => Voiced(d) /\ Playing(d)' = Playing(d)
      BY <1>6, <1>7
    <3> QED
      BY <3>1, <3>2, <3>3, <3>4 DEF LaunchedOnce
  <2>2. CASE t # "cart"
    <3>1. pending'["cart"] = pending["cart"] /\ Other(t) = "cart"
      BY <1>1, <1>2, <2>2 DEF Other
    <3>2. \A d \in Channels \ crossed' : Launching("cart", d)' => d \notin crossed /\ Launching("cart", d)
      BY <1>1, <1>4, <1>5, <2>2, <3>1
    <3> QED
      BY <1>6, <1>7, <3>1, <3>2 DEF OneVoiceInv, LaunchedOnce, Seen
  <2> QED
    BY <2>1, <2>2
<1>12. OneVoicePerEffect'
  <2> SUFFICES ASSUME NEW d \in Channels, NEW e \in Channels, d # e, Voiced(d)', Voiced(e)'
               PROVE  Playing(d)' # Playing(e)'
    BY DEF OneVoicePerEffect, Voiced
  <2> QED
    BY <1>6, <1>7 DEF OneVoiceInv, OneVoicePerEffect, Voiced
<1> QED
  BY <1>8, <1>9, <1>10, <1>11, <1>12 DEF OneVoiceInv

LEMMA NoneIsNoEffect == None \notin Effects /\ None \notin Patterns /\ None \notin Channels
  BY SoundConstants DEF None

\* The steps of set_music_pattern.
LEMMA SetMusicKeepsVoices ==
  ASSUME OneVoiceInv, NEW t \in Threads, SetMusicPattern(t)
  PROVE  OneVoiceInv'
<1>1. DOMAIN pc = Threads /\ DOMAIN todo = Threads
  BY DEF OneVoiceInv, PendingStores
<1>2. t = "audio" \/ t = "cart"
  BY DEF Threads
<1>3. ASSUME NEW at, NEW chans, Goes(t, at, chans), at # "once", play' = play
      PROVE  /\ DOMAIN pc' = Threads /\ DOMAIN todo' = Threads
             /\ t = "audio" => CartSame
             /\ t = "cart" => pc'["cart"] # "once"
  BY <1>1, <1>2, <1>3 DEF Goes, CartSame, Threads
<1>4. ASSUME NEW chans, Starts(t, chans), play' = play
      PROVE  /\ DOMAIN pc' = Threads /\ DOMAIN todo' = Threads
             /\ t = "audio" => CartSame
             /\ t = "cart" => pc'["cart"] # "once"
  BY <1>3, <1>4 DEF Starts
<1>5. CASE SetPattern(t)
  <2> DEFINE stores == IF goal[t] \in Patterns /\ PatternLengths[goal[t]] > 0
                       THEN At(None, [pattern |-> goal[t], offset |-> 0, length |-> PatternLengths[goal[t]]])
                       ELSE At(None, [pattern |-> None, offset |-> -1, length |-> 0, mask |-> {}])
  <2>1. /\ pending[t] = NoStores /\ pending' = [pending EXCEPT ![t] = stores]
        /\ mem' = mem /\ crossed' = crossed /\ play' = play
    BY <1>5 DEF SetPattern, Ready, Stores
  <2>2. \E chans : Starts(t, chans)
    BY <1>5 DEF SetPattern
  <2>3. OfOnePlace(stores) /\ \A c \in Channels : \A f : <<c, f>> \notin DOMAIN stores
    BY AtIs, NoneIsNoEffect
  <2> HIDE DEF stores
  <2> QED
    BY <1>2, <1>4, <2>1, <2>2, <2>3, QuietKeepsVoices DEF StoppedElsewhere
<1>6. ASSUME NEW c \in Channels, StopSound(t, c) PROVE OneVoiceInv'
  <2> DEFINE stores == IF OfMusic(c) THEN At(c, [sfx |-> None, waiting |-> None]) ELSE NoStores
  <2>1. /\ pending[t] = NoStores /\ pending' = [pending EXCEPT ![t] = stores]
        /\ mem' = mem /\ crossed' = crossed /\ play' = play
        /\ Goes(t, "stop", todo[t] \ {c})
    BY <1>6 DEF StopSound, Ready, Stores
  <2>2. OfOnePlace(stores) /\ \A d \in Channels :
          /\ <<d, "ofMusic">> \notin DOMAIN stores
          /\ <<d, "sfx">> \in DOMAIN stores => stores[<<d, "sfx">>] = None
    BY AtIs, NoStoresAre
  <2> HIDE DEF stores
  <2> QED
    BY <1>2, <1>3, <2>1, <2>2, QuietKeepsVoices DEF StoppedElsewhere
<1>7. ASSUME NEW c \in Channels, StartSound(t, c) PROVE OneVoiceInv'
  <2>0. pending[t] = NoStores /\ mem' = mem /\ play' = play /\ Starts(t, todo[t] \ {c})
    BY <1>7 DEF StartSound, Ready
  <2>1. CASE Playing(c) = None
    <3> DEFINE stores == At(c, Launched(Song[goal[t]].sfx[c], 0, TRUE))
    <3>1. pending' = [pending EXCEPT ![t] = stores] /\ Mixes(t, c)
      BY <1>7, <2>1 DEF StartSound, Stores
    <3>2. /\ \A p \in DOMAIN stores : p[1] = c
          /\ <<c, "sfx">> \in DOMAIN stores /\ <<c, "ofMusic">> \in DOMAIN stores
          /\ stores[<<c, "ofMusic">>] = TRUE
      BY AtIs DEF Launched
    <3> HIDE DEF stores
    <3> QED
      BY <1>2, <1>4, <2>0, <3>1, <3>2, LaunchKeepsVoices
  <2>2. CASE Playing(c) # None
    <3> DEFINE stores == At(c, [waiting |-> Song[goal[t]].sfx[c]])
    <3>1. pending' = [pending EXCEPT ![t] = stores] /\ crossed' = crossed
      BY <1>7, <2>2 DEF StartSound, Stores
    <3>2. OfOnePlace(stores) /\ \A d \in Channels :
            <<d, "ofMusic">> \notin DOMAIN stores /\ <<d, "sfx">> \notin DOMAIN stores
      BY AtIs
    <3> HIDE DEF stores
    <3> QED
      BY <1>2, <1>4, <2>0, <3>1, <3>2, QuietKeepsVoices DEF StoppedElsewhere
  <2> QED
    BY <2>1, <2>2
<1> QED
  BY <1>5, <1>6, <1>7 DEF SetMusicPattern

LEMMA MusicCallsKeepVoices ==
  ASSUME OneVoiceInv,
         \/ \E p, fades, mask : MusicPlay(p, fades, mask)
         \/ \E fades : MusicStop(fades)
  PROVE  OneVoiceInv'
<1>1. DOMAIN pc = Threads /\ DOMAIN todo = Threads /\ "cart" \in Threads
  BY DEF OneVoiceInv, PendingStores, Threads
<1>2. ASSUME NEW fields, Stores("cart", At(None, fields))
      PROVE  LET stores == At(None, fields)
             IN  /\ pending' = [pending EXCEPT !["cart"] = stores]
                 /\ OfOnePlace(stores)
                 /\ \A c \in Channels : \A f : <<c, f>> \notin DOMAIN stores
  BY <1>2, AtIs, NoneIsNoEffect DEF Stores
<1>3. ASSUME NEW p, NEW fades, NEW mask, MusicPlay(p, fades, mask) PROVE OneVoiceInv'
  <2>1. /\ \E fields : Stores("cart", At(None, fields))
        /\ pending["cart"] = NoStores /\ mem' = mem /\ crossed' = crossed
        /\ DOMAIN pc' = Threads /\ DOMAIN todo' = Threads /\ pc'["cart"] # "once"
    BY <1>1, <1>3 DEF MusicPlay, Call, Ready, Goes
  <2> QED
    BY <1>1, <1>2, <2>1, QuietKeepsVoices DEF StoppedElsewhere
<1>4. ASSUME NEW fades, MusicStop(fades) PROVE OneVoiceInv'
  <2>1. /\ \E fields : Stores("cart", At(None, fields))
        /\ pending["cart"] = NoStores /\ mem' = mem /\ crossed' = crossed
        /\ DOMAIN pc' = Threads /\ DOMAIN todo' = Threads /\ pc'["cart"] # "once"
    BY <1>1, <1>4 DEF MusicStop, Call, Ready
  <2> QED
    BY <1>1, <1>2, <2>1, QuietKeepsVoices DEF StoppedElsewhere
<1> QED
  BY <1>3, <1>4

\* A step that stores nothing.
LEMMA NothingStored ==
  ASSUME OneVoiceInv, NEW t \in Threads, pending[t] = NoStores, pending' = pending,
         mem' = mem, crossed' = crossed, DOMAIN pc' = Threads, DOMAIN todo' = Threads,
         \/ CartSame /\ t = "audio"
         \/ (pc'["cart"] = "once" => play'.sfx # None) /\ StoppedElsewhere' /\ t = "cart"
  PROVE  OneVoiceInv'
<1>1. DOMAIN pending' = Threads /\ \A o \in Threads \ {t} : pending'[o] = pending[o]
  BY DEF OneVoiceInv, PendingStores
<1> QED
  BY <1>1, NoStoresAre, QuietVoices

LEMMA SfxCallsKeepVoices ==
  ASSUME OneVoiceInv,
         \/ \E at \in {"silence", "release"} : \E chans : SfxCall(at, chans)
         \/ \E s \in Effects : \E chan, len : SfxPlay(s, chan, len)
  PROVE  OneVoiceInv'
<1>1. DOMAIN pc = Threads /\ DOMAIN todo = Threads /\ "cart" \in Threads
  BY DEF OneVoiceInv, PendingStores, Threads
<1>2. ASSUME NEW at \in {"silence", "release"}, NEW chans, SfxCall(at, chans) PROVE OneVoiceInv'
  <2>1. /\ pending["cart"] = NoStores /\ pending' = pending /\ mem' = mem /\ crossed' = crossed
        /\ DOMAIN pc' = Threads /\ DOMAIN todo' = Threads /\ pc'["cart"] # "once"
    BY <1>1, <1>2 DEF SfxCall, Call, Ready, Goes
  <2> QED
    BY <1>1, <2>1, NothingStored DEF StoppedElsewhere
<1>3. ASSUME NEW s \in Effects, NEW chan, NEW len, SfxPlay(s, chan, len) PROVE OneVoiceInv'
  <2>1. /\ pending["cart"] = NoStores /\ pending' = pending /\ mem' = mem /\ crossed' = crossed
        /\ DOMAIN pc' = Threads /\ DOMAIN todo' = Threads
        /\ todo'["cart"] = Channels /\ play'.sfx = s
    BY <1>1, <1>3 DEF SfxPlay, Call, Ready, Goes
  <2> QED
    BY <1>1, <2>1, NothingStored, NoneIsNoEffect DEF StoppedElsewhere
<1> QED
  BY <1>2, <1>3

\* sfx(-1), sfx(-2), and the two halves of sfx().
LEMMA CartGoesOnKeepsVoices ==
  ASSUME OneVoiceInv, SfxStop \/ SfxRelease \/ \E c \in Channels : Once(c) \/ PlayOn(c)
  PROVE  OneVoiceInv'
<1>1. DOMAIN pc = Threads /\ DOMAIN todo = Threads /\ "cart" \in Threads
  BY DEF OneVoiceInv, PendingStores, Threads
<1>2. ASSUME NEW at, at # "once", NEW fields, Leave(at, fields),
             \/ fields = [sfx |-> None] \/ fields = [loop |-> FALSE]
      PROVE  OneVoiceInv'
  <2>1. PICK c \in Channels :
          /\ Stores("cart", IF OfMusic(c) THEN NoStores ELSE At(c, fields))
          /\ Goes("cart", IF todo["cart"] = {c} THEN "idle" ELSE at, todo["cart"] \ {c})
    BY <1>2 DEF Leave
  <2> DEFINE stores == IF OfMusic(c) THEN NoStores ELSE At(c, fields)
  <2>2. /\ pending["cart"] = NoStores /\ mem' = mem /\ crossed' = crossed
        /\ pending' = [pending EXCEPT !["cart"] = stores]
        /\ DOMAIN pc' = Threads /\ DOMAIN todo' = Threads /\ pc'["cart"] # "once"
    BY <1>1, <1>2, <2>1 DEF Leave, Ready, Goes, Stores
  <2>3. OfOnePlace(stores) /\ \A d \in Channels :
          /\ <<d, "ofMusic">> \notin DOMAIN stores
          /\ <<d, "sfx">> \in DOMAIN stores => stores[<<d, "sfx">>] = None
    BY <1>2, AtIs, NoStoresAre
  <2> HIDE DEF stores
  <2> QED
    BY <1>1, <2>2, <2>3, QuietKeepsVoices DEF StoppedElsewhere
<1>3. ASSUME NEW c \in Channels, Once(c) PROVE OneVoiceInv'
  <2> DEFINE stores == IF Playing(c) = play.sfx THEN At(c, [sfx |-> None]) ELSE NoStores
  <2>1. /\ pending["cart"] = NoStores /\ mem' = mem /\ crossed' = crossed /\ play' = play
        /\ pending' = [pending EXCEPT !["cart"] = stores] /\ pc["cart"] = "once"
        /\ DOMAIN pc' = Threads /\ DOMAIN todo' = Threads /\ todo'["cart"] = todo["cart"] \ {c}
    BY <1>1, <1>3 DEF Once, Ready, Goes, Stores
  <2>2. OfOnePlace(stores) /\ \A d \in Channels :
          /\ <<d, "ofMusic">> \notin DOMAIN stores
          /\ <<d, "sfx">> \in DOMAIN stores => stores[<<d, "sfx">>] = None
    BY AtIs, NoStoresAre
  <2>3. Playing(c) = play.sfx => <<c, "sfx">> \in DOMAIN stores
    BY AtIs
  <2> HIDE DEF stores
  <2>4. play.sfx # None
    BY <2>1 DEF OneVoiceInv, PendingStores
  <2>5. pending'["cart"] = stores
    BY <1>1, <2>1 DEF OneVoiceInv, PendingStores
  <2>6. \A d \in Channels : Voiced(d)' => Voiced(d) /\ Playing(d)' = Playing(d)
    <3>1. \A d \in Channels : Launching("audio", d)' <=> Launching("audio", d)
      BY <2>1 DEF Launching, OneVoiceInv, PendingStores, Threads
    <3>2. \A d \in Channels : ~Launching("cart", d)
      BY <2>1, NoStoresAre DEF Launching
    <3> QED
      BY <2>1, <3>1, <3>2 DEF Voiced, Whole, OfMusic, Playing, Threads
  <2>7. StoppedElsewhere'
    <3> SUFFICES ASSUME NEW d \in Channels \ todo'["cart"], Voiced(d)'
                 PROVE  Playing(d)' # play'.sfx \/ <<d, "sfx">> \in DOMAIN pending'["cart"]
      BY DEF StoppedElsewhere
    <3>1. CASE d = c
      BY <2>1, <2>3, <2>5, <2>6, <3>1
    <3>2. CASE d # c
      <4>1. <<d, "sfx">> \notin DOMAIN pending["cart"]
        BY <2>1, NoStoresAre
      <4> QED
        BY <2>1, <2>6, <3>2, <4>1 DEF OneVoiceInv, StoppedElsewhere
    <3> QED
      BY <3>1, <3>2
  <2> QED
    BY <1>1, <2>1, <2>2, <2>4, <2>7, QuietKeepsVoices
<1>4. ASSUME NEW c \in Channels, PlayOn(c) PROVE OneVoiceInv'
  <2> DEFINE launched == Launched(play.sfx, play.length, FALSE)
             stores == IF Playing(c) # None /\ OfMusic(c)
                       THEN At(c, AndWaiting(launched, Playing(c))) ELSE At(c, launched)
  <2>1. /\ pending["cart"] = NoStores /\ mem' = mem /\ Mixes("cart", c)
        /\ pending' = [pending EXCEPT !["cart"] = stores]
        /\ pc["cart"] = "once" /\ todo["cart"] = {}
        /\ DOMAIN pc' = Threads /\ DOMAIN todo' = Threads /\ pc'["cart"] # "once"
    BY <1>1, <1>4 DEF PlayOn, Ready, Goes, Stores
  <2>2. /\ \A p \in DOMAIN stores : p[1] = c
        /\ <<c, "sfx">> \in DOMAIN stores /\ <<c, "ofMusic">> \in DOMAIN stores
        /\ stores[<<c, "sfx">>] = play.sfx
    BY AtIs DEF Launched, AndWaiting
  <2> HIDE DEF stores
  <2>3. play.sfx # None
    BY <2>1 DEF OneVoiceInv, PendingStores
  <2>4. \A d \in Channels : Voiced(d) => Playing(d) # play.sfx
    <3>1. \A d \in Channels : <<d, "sfx">> \notin DOMAIN pending["cart"]
      BY <2>1, NoStoresAre
    <3> QED
      BY <2>1, <3>1 DEF OneVoiceInv, StoppedElsewhere
  <2> QED
    BY <1>1, <2>1, <2>2, <2>3, <2>4, LaunchKeepsVoices
<1> QED
  BY <1>2, <1>3, <1>4 DEF SfxStop, SfxRelease

\* The audio thread's own steps.
LEMMA AudioKeepsVoices ==
  ASSUME OneVoiceInv, AdvanceMusic \/ Decide \/ \E c \in Channels : Relaunch(c) \/ Update(c)
  PROVE  OneVoiceInv'
<1>1. DOMAIN pc = Threads /\ DOMAIN todo = Threads /\ "audio" \in Threads /\ "cart" \in Threads
  BY DEF OneVoiceInv, PendingStores, Threads
<1>2. ASSUME NEW at, NEW chans, Goes("audio", at, chans), play' = play
      PROVE  DOMAIN pc' = Threads /\ DOMAIN todo' = Threads /\ CartSame
  BY <1>1, <1>2 DEF Goes, CartSame
<1>3. CASE AdvanceMusic
  <2>1. /\ pending["audio"] = NoStores /\ mem' = mem /\ crossed' = crossed /\ play' = play
        /\ \E at, chans : Goes("audio", at, chans)
    BY <1>3 DEF AdvanceMusic, Ready
  <2>2. CASE Music("pattern") = None \/ paused
    <3>1. pending' = pending
      BY <1>3, <2>2 DEF AdvanceMusic
    <3> QED
      BY <1>1, <1>2, <2>1, <3>1, NothingStored
  <2>3. CASE ~(Music("pattern") = None \/ paused)
    <3>1. \E fields : pending' = [pending EXCEPT !["audio"] = At(None, fields)]
      BY <1>3, <2>3 DEF AdvanceMusic, Stores
    <3>2. PICK fields : pending' = [pending EXCEPT !["audio"] = At(None, fields)]
      BY <3>1
    <3>3. /\ OfOnePlace(At(None, fields))
          /\ \A c \in Channels : \A f : <<c, f>> \notin DOMAIN At(None, fields)
      BY AtIs, NoneIsNoEffect
    <3> QED
      BY <1>1, <1>2, <2>1, <3>2, <3>3, QuietKeepsVoices
  <2> QED
    BY <2>2, <2>3
<1>4. CASE Decide
  <2>1. /\ pending["audio"] = NoStores /\ mem' = mem /\ crossed' = crossed /\ play' = play
        /\ pending' = pending /\ \E at, chans : Goes("audio", at, chans)
    BY <1>4 DEF Decide, Ready
  <2> QED
    BY <1>1, <1>2, <2>1, NothingStored
<1>5. ASSUME NEW c \in Channels, Relaunch(c) PROVE OneVoiceInv'
  <2>1. /\ pending["audio"] = NoStores /\ mem' = mem /\ play' = play
        /\ \E at, chans : Goes("audio", at, chans)
        /\ \/ /\ Stores("audio", At(c, AndWaiting(Launched(Waiting(c), 0, TRUE), None)))
              /\ Mixes("audio", c)
           \/ Stores("audio", At(c, [waiting |-> None])) /\ crossed' = crossed
           \/ pending' = pending /\ crossed' = crossed
    BY <1>5 DEF Relaunch, Ready
  <2>2. CASE /\ Stores("audio", At(c, AndWaiting(Launched(Waiting(c), 0, TRUE), None)))
             /\ Mixes("audio", c)
    <3> DEFINE stores == At(c, AndWaiting(Launched(Waiting(c), 0, TRUE), None))
    <3>1. /\ \A p \in DOMAIN stores : p[1] = c
          /\ <<c, "sfx">> \in DOMAIN stores /\ <<c, "ofMusic">> \in DOMAIN stores
          /\ stores[<<c, "ofMusic">>] = TRUE
      BY AtIs DEF Launched, AndWaiting
    <3>2. pending' = [pending EXCEPT !["audio"] = stores]
      BY <2>2 DEF Stores
    <3> HIDE DEF stores
    <3> QED
      BY <1>1, <1>2, <2>1, <2>2, <3>1, <3>2, LaunchKeepsVoices
  <2>3. CASE Stores("audio", At(c, [waiting |-> None])) /\ crossed' = crossed
    <3> DEFINE stores == At(c, [waiting |-> None])
    <3>1. OfOnePlace(stores) /\ \A d \in Channels :
            <<d, "ofMusic">> \notin DOMAIN stores /\ <<d, "sfx">> \notin DOMAIN stores
      BY AtIs
    <3>2. pending' = [pending EXCEPT !["audio"] = stores]
      BY <2>3 DEF Stores
    <3> HIDE DEF stores
    <3> QED
      BY <1>1, <1>2, <2>1, <2>3, <3>1, <3>2, QuietKeepsVoices
  <2>4. CASE pending' = pending /\ crossed' = crossed
    BY <1>1, <1>2, <2>1, <2>4, NothingStored
  <2> QED
    BY <2>1, <2>2, <2>3, <2>4
<1>6. ASSUME NEW c \in Channels, Update(c) PROVE OneVoiceInv'
  <2>1. /\ pending["audio"] = NoStores /\ mem' = mem /\ crossed' = crossed /\ play' = play
        /\ \E at, chans : Goes("audio", at, chans)
        /\ \E ends, now : Stores("audio", IF Playing(c) = None \/ still THEN NoStores
                                         ELSE IF ends THEN At(c, [time |-> now, sfx |-> None])
                                         ELSE At(c, [time |-> now]))
    BY <1>6 DEF Update, Ready
  <2>2. PICK ends, now : Stores("audio", IF Playing(c) = None \/ still THEN NoStores
                                         ELSE IF ends THEN At(c, [time |-> now, sfx |-> None])
                                         ELSE At(c, [time |-> now]))
    BY <2>1
  <2> DEFINE stores == IF Playing(c) = None \/ still THEN NoStores
                       ELSE IF ends THEN At(c, [time |-> now, sfx |-> None])
                       ELSE At(c, [time |-> now])
  <2>4. pending' = [pending EXCEPT !["audio"] = stores]
    BY <2>2 DEF Stores
  <2>3. OfOnePlace(stores) /\ \A d \in Channels :
          /\ <<d, "ofMusic">> \notin DOMAIN stores
          /\ <<d, "sfx">> \in DOMAIN stores => stores[<<d, "sfx">>] = None
    BY AtIs, NoStoresAre
  <2> HIDE DEF stores
  <2> QED
    BY <1>1, <1>2, <2>1, <2>3, <2>4, QuietKeepsVoices
<1> QED
  BY <1>3, <1>4, <1>5, <1>6

LEMMA StepKeepsOneVoice == OneVoiceInv /\ [Next]_vars => OneVoiceInv'
<1> SUFFICES ASSUME OneVoiceInv, [Next]_vars PROVE OneVoiceInv'
  OBVIOUS
<1>1. CASE Calls
  <2>1. ASSUME NEW song \in Songs, MusicPlay(song[1], song[2], song[3]) PROVE OneVoiceInv'
    BY <2>1, MusicCallsKeepVoices
  <2>2. ASSUME NEW fades \in BOOLEAN, MusicStop(fades) PROVE OneVoiceInv'
    BY <2>2, MusicCallsKeepVoices
  <2>3. ASSUME NEW at \in {"silence", "release"}, NEW chans, SfxCall(at, chans) PROVE OneVoiceInv'
    BY <2>3, SfxCallsKeepVoices
  <2>4. ASSUME NEW shot \in Shots, SfxPlay(shot[1], shot[2], shot[3]) PROVE OneVoiceInv'
    <3>1. shot[1] \in Effects
      BY SoundConstants
    <3> QED
      BY <2>4, <3>1, SfxCallsKeepVoices
  <2>5. CASE Pause
    <3>1. UNCHANGED <<mem, pending, pc, todo, play, crossed>> /\ pending["cart"] = NoStores /\ "cart" \in Threads
      BY <2>5 DEF Pause, threads, Call, Ready, Threads
    <3>2. OneVoiceInv' <=> OneVoiceInv
      BY <3>1 DEF OneVoiceInv, PendingStores, Launches, StoppedElsewhere, LaunchedOnce,
        OneVoicePerEffect, Voiced, Whole, Launching, Seen, OfMusic, Playing
    <3> QED
      BY <3>2
  <2> QED
    BY <1>1, <2>1, <2>2, <2>3, <2>4, <2>5 DEF Calls
<1>2. CASE GoesOn
  <2>1. "cart" \in Threads
    BY DEF Threads
  <2> QED
    BY <1>2, <2>1, CartLandKeepsVoices, SetMusicKeepsVoices, CartGoesOnKeepsVoices DEF GoesOn
<1>3. CASE Audio
  <2>1. "audio" \in Threads
    BY DEF Threads
  <2> QED
    BY <1>3, <2>1, AudioLandKeepsVoices, SetMusicKeepsVoices, AudioKeepsVoices DEF Audio
<1>4. CASE UNCHANGED vars
  <2>1. UNCHANGED <<mem, pending, pc, todo, play, crossed>>
    BY <1>4 DEF vars, threads
  <2> QED
    BY <2>1 DEF OneVoiceInv, PendingStores, Launches, StoppedElsewhere, LaunchedOnce,
        OneVoicePerEffect, Voiced, Whole, Launching, Seen, OfMusic, Playing
<1> QED
  BY <1>1, <1>2, <1>3, <1>4 DEF Next

LEMMA InitOneVoice == Init => OneVoiceInv
<1> SUFFICES ASSUME Init PROVE OneVoiceInv
  OBVIOUS
<1>1. /\ \A t \in Threads : pending[t] = NoStores
      /\ DOMAIN pending = Threads /\ DOMAIN pc = Threads /\ DOMAIN todo = Threads
      /\ pc["cart"] = "idle"
  BY DEF Init, Threads
<1>2. \A t \in Threads : \A c : ~Launching(t, c)
  BY <1>1, NoStoresAre DEF Launching
<1>3. \A c \in Channels : Playing(c) = None
  <2>1. \A c \in Channels : <<c, "sfx">> \in Places /\ <<c, "sfx">>[1] = c /\ <<c, "sfx">>[2] = "sfx"
    BY PlacesAre DEF ChannelFields
  <2> QED
    BY <2>1, NoneIsNoEffect DEF Init, Playing, Silent
<1>4. PendingStores
  BY <1>1, NoStoresAre DEF PendingStores
<1>5. Launches /\ StoppedElsewhere /\ LaunchedOnce
  BY <1>1, <1>2, NoStoresAre DEF Launches, StoppedElsewhere, LaunchedOnce, Threads
<1> QED
  BY <1>3, <1>4, <1>5 DEF OneVoiceInv, OneVoicePerEffect

\* An effect the cart plays is heard once, whatever the channels, the effects and the
\* song, and whatever the audio thread does between two stores of the cart: no two
\* channels play one effect for the cart, but where both threads launched a sound on
\* one channel at the same time (api_sfx, launch_sfx).
THEOREM OneVoiceAlways == Spec => []OneVoicePerEffect
<1>1. OneVoiceInv => OneVoicePerEffect
  BY DEF OneVoiceInv
<1> QED
  BY <1>1, InitOneVoice, StepKeepsOneVoice, PTL DEF Spec

-----------------------------------------------------------------------------
(* The music.                                                              *)

\* The length of a pattern is a number.
LEMMA LengthIsANumber == ASSUME NEW p \in Patterns PROVE PatternLengths[p] \in Int
<1> DEFINE heard == {c \in Channels : Song[p].sfx[c] # None}
           s(c) == Song[p].sfx[c]
           straight == {c \in heard : ~(Sfx[s(c)].loopEnd > 0 /\ LoopRange(s(c)) > 0)}
           before == {c \in heard : \A d \in straight : c < d}
           ends(c) == (IF Sfx[s(c)].loopEnd = 0 /\ Sfx[s(c)].loopStart > 0
                       THEN AtMost(Notes, Sfx[s(c)].loopStart) ELSE Notes) * Sfx[s(c)].speed
           end == IF straight = {} THEN 0 ELSE ends(Min(straight))
           whole(c) == Notes * Sfx[s(c)].speed
           all == {0} \cup {whole(c) : c \in before}
<1>1. PatternLengths[p] = IF end > 0 THEN end ELSE Max(all)
  BY DEF PatternLengths
<1>2. ASSUME NEW c \in heard PROVE ends(c) \in Int /\ whole(c) \in Int
  <2>1. s(c) \in Effects
    BY SoundConstants DEF Patterns
  <2>2. Sfx[s(c)].speed \in Int /\ Sfx[s(c)].loopStart \in Int /\ Notes \in Int
    <3> DEFINE e == s(c)
    <3>1. e \in Effects
      BY <2>1
    <3> HIDE DEF e
    <3>2. Sfx[e].speed \in Nat /\ Sfx[e].loopStart \in Nat /\ Notes \in Nat
      BY <3>1, SoundConstants
    <3> QED
      BY <3>2 DEF e
  <2> DEFINE n == IF Sfx[s(c)].loopEnd = 0 /\ Sfx[s(c)].loopStart > 0
                  THEN AtMost(Notes, Sfx[s(c)].loopStart) ELSE Notes
             v == Sfx[s(c)].speed
  <2>3. n \in Int /\ v \in Int
    BY <2>2 DEF AtMost
  <2> HIDE DEF n, v
  <2>4. n * v \in Int /\ Notes * v \in Int
    BY <2>2, <2>3
  <2> QED
    BY <2>4 DEF n, v
<1>3. /\ IsFiniteSet(before) /\ IsFiniteSet(straight) /\ straight \subseteq Int
      /\ straight \subseteq heard /\ before \subseteq heard
  <2>1. before \in SUBSET Channels /\ straight \in SUBSET Channels
    OBVIOUS
  <2>2. IsFiniteSet(Channels) /\ Channels \subseteq Int
    BY SoundConstants
  <2> QED
    BY <2>1, <2>2, FS_Subset
<1> HIDE DEF heard, ends, straight, whole, before
<1>4. end \in Int
  <2>1. CASE straight = {}
    BY <2>1
  <2>2. CASE straight # {}
    BY <1>2, <1>3, <2>2, MinIsIn
  <2> QED
    BY <2>1, <2>2
<1>5. Max(all) \in Int
  <2>1. \E x \in all : \A y \in all : x >= y
    <3>1. CASE before = {}
      BY <3>1
    <3>2. CASE before # {}
      <4> DEFINE f == [c \in before |-> whole(c)]
      <4>1. f \in [before -> Int]
        BY <1>2, <1>3
      <4> HIDE DEF f
      <4>2. PICK c \in before : \A d \in before : f[d] <= f[c]
        BY <1>3, <3>2, <4>1, Largest
      <4>3. \A d \in before : whole(d) <= whole(c)
        BY <4>2 DEF f
      <4>4. CASE whole(c) >= 0
        <5>1. \A y \in all : whole(c) >= y
          BY <1>2, <1>3, <4>3, <4>4
        <5> QED
          BY <5>1
      <4>5. CASE ~(whole(c) >= 0)
        <5>1. \A y \in all : 0 >= y
          BY <1>2, <1>3, <4>3, <4>5
        <5> QED
          BY <5>1
      <4> QED
        BY <4>4, <4>5
    <3> QED
      BY <3>1, <3>2
  <2>2. Max(all) \in all
    BY <2>1 DEF Max
  <2>3. all \subseteq Int
    BY <1>2, <1>3
  <2> QED
    BY <2>2, <2>3
<1> QED
  BY <1>1, <1>4, <1>5

Told == {"pattern", "offset", "length", "mask"}

LEMMA ToldAre == \A f \in Told : <<None, f>> \in Places
  BY DEF Places, Told, MusicFields

\* A thread that is not in the music before the step, nor after it, does nothing to it.
LEMMA ApartKeepsMusic ==
  ASSUME MusicInv, NEW t \in Threads, NEW o \in Threads, o # t, ~InMusic(t), ~InMusic(t)',
         mem' = mem, torn' = torn, beat' = beat, DOMAIN pending' = Threads, DOMAIN pc' = Threads,
         pending'[o] = pending[o], pc'[o] = pc[o]
  PROVE  MusicInv'
<1>1. InMusic(o)' <=> InMusic(o)
  BY DEF InMusic
<1>2. \A u \in Threads : u = t \/ u = o
  BY DEF Threads
<1>3. \A p : Seen(o, p)' = Seen(o, p)
  BY DEF Seen
<1>4. LastsFor(o)' <=> LastsFor(o)
  BY <1>3 DEF LastsFor
<1>5. MusicLasts' <=> MusicLasts
  BY DEF MusicLasts, Music
<1>6. pc'["audio"] = "decide" => o = "audio" /\ pc["audio"] = "decide"
  BY <1>2 DEF InMusic, Threads
<1>7. o = "audio" /\ Deciding => Deciding'
  BY <1>3 DEF Deciding
<1>8. ~torn => /\ \A u, v \in Threads : InMusic(u)' /\ InMusic(v)' => u = v
               /\ (\A u \in Threads : ~InMusic(u)') => MusicLasts'
  BY <1>1, <1>2, <1>5 DEF MusicInv
<1>9. ~torn => \A u \in Threads : InMusic(u)' /\ pc'[u] \notin {"decide", "stop"} => LastsFor(u)'
  BY <1>1, <1>2, <1>4 DEF MusicInv
<1>10. ~torn => (pc'["audio"] = "decide" => Deciding')
  BY <1>6, <1>7 DEF MusicInv
<1> QED
  BY <1>8, <1>9, <1>10 DEF MusicInv

LEMMA LandKeepsMusic ==
  ASSUME MusicInv, NEW t \in Threads, Land(t)
  PROVE  MusicInv'
<1> DEFINE o == Other(t)
<1>1. o \in Threads /\ o # t /\ \A u \in Threads : u = t \/ u = o
  BY ThreadsAre
<1>2. /\ pending'[o] = pending[o] /\ DOMAIN pending' = Threads
      /\ DOMAIN pending'[t] \subseteq DOMAIN pending[t]
      /\ \A p \in DOMAIN pending'[t] : pending'[t][p] = pending[t][p]
      /\ \A p \in Places :
            \/ mem'[p] = mem[p] /\ (p \in DOMAIN pending[t] => p \in DOMAIN pending'[t])
            \/ /\ mem'[p] = pending[t][p]
               /\ p \in DOMAIN pending[t] /\ p \notin DOMAIN pending'[t]
      /\ UNCHANGED <<pc, beat, torn>>
  BY LandIs DEF MusicInv
<1>3. (InMusic(t)' => InMusic(t)) /\ (InMusic(o)' <=> InMusic(o))
  BY <1>2 DEF InMusic
<1>4. \A f \in Told : Seen(t, <<None, f>>)' = Seen(t, <<None, f>>)
  BY <1>2, ToldAre DEF Seen
<1>5. ~InMusic(t) => \A f \in Told : mem'[<<None, f>>] = mem[<<None, f>>]
  <2>1. ~InMusic(t) => \A f \in Told : <<None, f>> \notin DOMAIN pending[t]
    BY DEF InMusic, Told
  <2> QED
    BY <1>2, <2>1, ToldAre
<1>6. ~InMusic(t) => \A f \in Told : Seen(o, <<None, f>>)' = Seen(o, <<None, f>>)
  BY <1>2, <1>5 DEF Seen
<1> SUFFICES ASSUME ~torn
             PROVE  /\ (\A u \in Threads : ~InMusic(u)') => MusicLasts'
                    /\ \A u \in Threads : InMusic(u)' /\ pc[u] \notin {"decide", "stop"} => LastsFor(u)'
                    /\ pc["audio"] = "decide" => Deciding'
  <2>1. ~torn => \A u, v \in Threads : InMusic(u)' /\ InMusic(v)' => u = v
    BY <1>1, <1>3 DEF MusicInv
  <2> QED
    BY <1>2, <2>1 DEF MusicInv
<1>7. /\ ~(InMusic(t) /\ InMusic(o))
      /\ (~InMusic(t) /\ ~InMusic(o)) => MusicLasts
      /\ \A u \in Threads : InMusic(u) /\ pc[u] \notin {"decide", "stop"} => LastsFor(u)
      /\ pc["audio"] = "decide" => Deciding
  BY <1>1 DEF MusicInv
<1>8. "pattern" \in Told /\ "offset" \in Told /\ "length" \in Told /\ "mask" \in Told
  BY DEF Told
<1>9. ASSUME \A u \in Threads : ~InMusic(u)' PROVE MusicLasts'
  <2>1. CASE InMusic(t)
    <3>1. LastsFor(t)
      BY <1>1, <1>2, <1>7, <1>9, <2>1 DEF InMusic
    <3>2. \A f \in Told : mem'[<<None, f>>] = Seen(t, <<None, f>>)
      BY <1>2, <1>4, <1>9 DEF InMusic, Told, Seen
    <3> QED
      BY <1>8, <3>1, <3>2 DEF LastsFor, MusicLasts, Music
  <2>2. CASE ~InMusic(t)
    <3>1. MusicLasts
      BY <1>1, <1>3, <1>7, <1>9, <2>2
    <3> QED
      BY <1>5, <1>8, <2>2, <3>1 DEF MusicLasts, Music
  <2> QED
    BY <2>1, <2>2
<1>10. ASSUME NEW u \in Threads, InMusic(u) PROVE \A f \in Told : Seen(u, <<None, f>>)' = Seen(u, <<None, f>>)
  BY <1>1, <1>4, <1>6, <1>7, <1>10
<1>11. ASSUME NEW u \in Threads, InMusic(u)', pc[u] \notin {"decide", "stop"} PROVE LastsFor(u)'
  <2>1. InMusic(u)
    BY <1>1, <1>3, <1>11
  <2>2. LastsFor(u)
    BY <1>7, <1>11, <2>1
  <2> QED
    BY <1>8, <1>10, <2>1, <2>2 DEF LastsFor
<1>12. ASSUME pc["audio"] = "decide" PROVE Deciding'
  <2>1. "audio" \in Threads /\ InMusic("audio")
    BY <1>12 DEF InMusic, Threads
  <2> QED
    BY <1>2, <1>7, <1>8, <1>10, <1>12, <2>1 DEF Deciding
<1> QED
  BY <1>9, <1>11, <1>12

\* Between its first look at the music and its last store to it the thread goes on
\* alone, or the music is torn.
LEMMA StopKeepsMusic ==
  ASSUME MusicInv, NEW t \in Threads, NEW c \in Channels, StopSound(t, c)
  PROVE  MusicInv'
<1> DEFINE o == Other(t)
<1>1. o \in Threads /\ o # t /\ \A u \in Threads : u = t \/ u = o
  BY ThreadsAre
<1>2. /\ pc[t] = "stop" /\ pc'[t] = "stop" /\ pc'[o] = pc[o] /\ pending'[o] = pending[o]
      /\ DOMAIN pending' = Threads /\ DOMAIN pc' = Threads /\ UNCHANGED <<mem, beat, torn>>
  BY <1>1 DEF StopSound, Ready, Goes, Stores, MusicInv
<1>3. InMusic(t) /\ InMusic(t)' /\ (InMusic(o)' <=> InMusic(o))
  BY <1>2 DEF InMusic
<1>4. ~torn => ~InMusic(o)
  BY <1>1, <1>3 DEF MusicInv
<1>5. pc'["audio"] = "decide" => InMusic(o)
  BY <1>1, <1>2 DEF InMusic, Threads
<1> QED
  BY <1>1, <1>2, <1>3, <1>4, <1>5, ThreadsAre DEF MusicInv

LEMMA SetKeepsMusic ==
  ASSUME MusicInv, NEW t \in Threads, SetPattern(t)
  PROVE  MusicInv'
<1> DEFINE o == Other(t)
           plays == goal[t] \in Patterns /\ PatternLengths[goal[t]] > 0
           stores == IF plays
                     THEN At(None, [pattern |-> goal[t], offset |-> 0, length |-> PatternLengths[goal[t]]])
                     ELSE At(None, [pattern |-> None, offset |-> -1, length |-> 0, mask |-> {}])
<1>1. o \in Threads /\ o # t /\ Other(o) = t /\ \A u \in Threads : u = t \/ u = o
  BY ThreadsAre
<1>2. pending' = [pending EXCEPT ![t] = stores] /\ UNCHANGED <<mem, beat>> /\ torn' = InMusic(o)
  BY DEF SetPattern, Stores
<1>3. /\ pc'[o] = pc[o] /\ DOMAIN pc' = Threads
      /\ pc'[t] \in {"start", "idle", "channel"}
  <2>1. \E chans : Starts(t, chans)
    BY DEF SetPattern
  <2> QED
    BY <1>1, <2>1 DEF Starts, Goes, MusicInv
<1>4. pending'[t] = stores /\ pending'[o] = pending[o] /\ DOMAIN pending' = Threads
  BY <1>1, <1>2 DEF MusicInv
<1>5. InMusic(o)' <=> InMusic(o)
  BY <1>3, <1>4 DEF InMusic
<1>6. LastsFor(t)'
  <2>1. CASE plays
    <3>1. /\ \A f \in {"pattern", "offset", "length"} : <<None, f>> \in DOMAIN stores
          /\ stores[<<None, "pattern">>] = goal[t] /\ stores[<<None, "offset">>] = 0
          /\ stores[<<None, "length">>] = PatternLengths[goal[t]]
      BY <2>1, AtIs
    <3>2. goal[t] \in Patterns /\ goal[t] # None /\ PatternLengths[goal[t]] \in Int
          /\ PatternLengths[goal[t]] > 0
      BY <2>1, NoneIsNoEffect, LengthIsANumber
    <3> HIDE DEF stores, plays
    <3>3. /\ Seen(t, <<None, "pattern">>)' = goal[t] /\ Seen(t, <<None, "offset">>)' = 0
          /\ Seen(t, <<None, "length">>)' = PatternLengths[goal[t]]
      BY <1>4, <3>1 DEF Seen
    <3> QED
      BY <3>2, <3>3 DEF LastsFor, Lasts
  <2>2. CASE ~plays
    <3>1. /\ \A f \in Told : <<None, f>> \in DOMAIN stores
          /\ stores[<<None, "pattern">>] = None /\ stores[<<None, "offset">>] = -1
          /\ stores[<<None, "length">>] = 0 /\ stores[<<None, "mask">>] = {}
      BY <2>2, AtIs DEF Told
    <3> HIDE DEF stores, plays
    <3>3. /\ Seen(t, <<None, "pattern">>)' = None /\ Seen(t, <<None, "offset">>)' = -1
          /\ Seen(t, <<None, "length">>)' = 0 /\ Seen(t, <<None, "mask">>)' = {}
      BY <1>4, <3>1 DEF Seen, Told
    <3> QED
      BY <3>3 DEF LastsFor, Lasts
  <2> QED
    BY <2>1, <2>2
<1>7. InMusic(t)'
  <2>1. <<None, "pattern">> \in DOMAIN stores
    BY AtIs
  <2> HIDE DEF stores
  <2> QED
    BY <1>4, <2>1 DEF InMusic
<1>8. pc'["audio"] = "decide" => InMusic(o)
  BY <1>1, <1>3 DEF InMusic, Threads
<1> HIDE DEF stores
<1> QED
  BY <1>1, <1>2, <1>3, <1>4, <1>5, <1>6, <1>7, <1>8 DEF MusicInv


LEMMA CartMusicCalls ==
  ASSUME MusicInv,
         \/ \E p, fades, mask : MusicPlay(p, fades, mask)
         \/ \E fades : MusicStop(fades)
  PROVE  MusicInv'
<1>1. "cart" \in Threads /\ "audio" \in Threads /\ \A u \in Threads : u = "cart" \/ u = "audio"
  BY DEF Threads
<1>2. ASSUME NEW p, NEW fades, NEW mask, MusicPlay(p, fades, mask) PROVE MusicInv'
  <2>1. /\ pc' = [pc EXCEPT !["cart"] = "stop"] /\ UNCHANGED <<mem, beat>>
        /\ torn' = (torn \/ InMusic("audio"))
        /\ \E stores : pending' = [pending EXCEPT !["cart"] = stores]
    BY <1>2 DEF MusicPlay, Goes, Stores
  <2>2. /\ pc'["cart"] = "stop" /\ pc'["audio"] = pc["audio"] /\ pending'["audio"] = pending["audio"]
        /\ DOMAIN pending' = Threads /\ DOMAIN pc' = Threads
    BY <1>1, <2>1 DEF MusicInv
  <2>3. InMusic("cart")' /\ (InMusic("audio")' <=> InMusic("audio"))
    BY <2>2 DEF InMusic
  <2>4. ~torn' => ~InMusic("audio")' /\ pc'["audio"] # "decide"
    BY <2>1, <2>2, <2>3 DEF InMusic
  <2> QED
    BY <1>1, <2>2, <2>3, <2>4 DEF MusicInv
<1>3. ASSUME NEW fades, MusicStop(fades) PROVE MusicInv'
  <2> DEFINE stores == At(None, [step |-> IF fades THEN -((Music("fade") + 1) \div 2) ELSE -Loud])
  <2>1. /\ pending["cart"] = NoStores /\ pending' = [pending EXCEPT !["cart"] = stores]
        /\ UNCHANGED <<mem, pc, beat, torn>> /\ pc["cart"] = "idle"
    BY <1>3 DEF MusicStop, Call, Ready, Stores
  <2>2. \A f \in Told : <<None, f>> \notin DOMAIN stores
    BY AtIs DEF Told
  <2> HIDE DEF stores
  <2>3. ~InMusic("cart") /\ ~InMusic("cart")'
    BY <1>1, <2>1, <2>2, NoStoresAre DEF InMusic, Told, MusicInv
  <2> QED
    BY <1>1, <2>1, <2>3, ApartKeepsMusic DEF MusicInv
<1> QED
  BY <1>2, <1>3

\* The music goes on by one, for as long as the pattern lasts.
LEMMA AdvanceKeepsMusic ==
  ASSUME MusicInv, AdvanceMusic
  PROVE  MusicInv'
<1>1. "cart" \in Threads /\ "audio" \in Threads /\ \A u \in Threads : u = "cart" \/ u = "audio"
  BY DEF Threads
<1>2. pending["audio"] = NoStores /\ pc["audio"] = "channel" /\ mem' = mem
  BY DEF AdvanceMusic, Ready
<1>3. ~InMusic("audio")
  BY <1>2, NoStoresAre DEF InMusic
<1>4. CASE Music("pattern") = None \/ paused
  <2>1. UNCHANGED <<pending, beat, torn>> /\ pc' = [pc EXCEPT !["audio"] = "channel"]
    BY <1>4 DEF AdvanceMusic, Goes
  <2>2. pc'["audio"] = "channel" /\ pc'["cart"] = pc["cart"] /\ DOMAIN pc' = Threads
    BY <1>1, <2>1 DEF MusicInv
  <2>3. ~InMusic("audio")'
    BY <1>2, <2>1, <2>2, NoStoresAre DEF InMusic
  <2> QED
    BY <1>1, <1>2, <1>3, <2>1, <2>2, <2>3, ApartKeepsMusic DEF MusicInv
<1>5. CASE ~(Music("pattern") = None \/ paused)
  <2> DEFINE offset == Music("offset") + 1
             fade == AtLeast(0, AtMost(Loud, Music("fade") + Music("step")))
             stores == At(None, [offset |-> offset, fade |-> fade])
  <2>1. /\ pending' = [pending EXCEPT !["audio"] = stores] /\ beat'.offset = offset
        /\ pc' = [pc EXCEPT !["audio"] = "decide"] /\ torn' = (torn \/ InMusic("cart"))
    BY <1>5 DEF AdvanceMusic, Goes, Stores
  <2>2. /\ pending'["audio"] = stores /\ pending'["cart"] = pending["cart"] /\ DOMAIN pending' = Threads
        /\ pc'["audio"] = "decide" /\ pc'["cart"] = pc["cart"] /\ DOMAIN pc' = Threads
    BY <1>1, <2>1 DEF MusicInv
  <2>3. /\ <<None, "offset">> \in DOMAIN stores /\ stores[<<None, "offset">>] = offset
        /\ <<None, "pattern">> \notin DOMAIN stores /\ <<None, "length">> \notin DOMAIN stores
    BY AtIs
  <2>4. InMusic("audio")' /\ (InMusic("cart")' <=> InMusic("cart"))
    BY <2>2 DEF InMusic
  <2> SUFFICES ASSUME ~torn' PROVE MusicInv'
    BY <2>2 DEF MusicInv
  <2>5. ~InMusic("cart") /\ ~torn
    BY <2>1
  <2>6. MusicLasts
    BY <1>1, <1>3, <2>5 DEF MusicInv
  <2>7. Music("pattern") \in Patterns /\ Music("length") \in Int /\ offset \in Nat
    BY <1>5, <2>6 DEF MusicLasts, Lasts
  <2> HIDE DEF stores, offset, fade
  <2>8. Deciding'
    BY <1>2, <2>1, <2>2, <2>3, <2>7 DEF Deciding, Seen, Music
  <2> QED
    BY <1>1, <2>2, <2>4, <2>5, <2>8 DEF MusicInv
<1> QED
  BY <1>4, <1>5

LEMMA DecideKeepsMusic ==
  ASSUME MusicInv, Decide
  PROVE  MusicInv'
<1>1. "cart" \in Threads /\ "audio" \in Threads /\ \A u \in Threads : u = "cart" \/ u = "audio"
  BY DEF Threads
<1>2. pending["audio"] = NoStores /\ pc["audio"] = "decide" /\ UNCHANGED <<mem, pending, torn>>
  BY DEF Decide, Ready
<1>3. \/ pc' = [pc EXCEPT !["audio"] = "stop"]
      \/ pc' = [pc EXCEPT !["audio"] = "channel"] /\ ~(beat.offset >= Music("length"))
  BY DEF Decide, Goes
<1>4. /\ pc'["cart"] = pc["cart"] /\ DOMAIN pc' = Threads
      /\ \/ pc'["audio"] = "stop"
         \/ pc'["audio"] = "channel" /\ ~(beat.offset >= Music("length"))
  BY <1>1, <1>3 DEF MusicInv
<1>5. InMusic("audio") /\ (InMusic("cart")' <=> InMusic("cart"))
  BY <1>2, <1>4 DEF InMusic
<1> SUFFICES ASSUME ~torn PROVE MusicInv'
  BY <1>2, <1>4 DEF MusicInv
<1>6. ~InMusic("cart") /\ Deciding
  BY <1>1, <1>2, <1>5 DEF MusicInv
<1>7. CASE pc'["audio"] = "stop"
  <2>1. InMusic("audio")' /\ ~InMusic("cart")' /\ pc'["audio"] # "decide"
    BY <1>5, <1>6, <1>7 DEF InMusic
  <2> QED
    BY <1>1, <1>2, <1>4, <1>7, <2>1 DEF MusicInv
<1>8. CASE pc'["audio"] = "channel" /\ ~(beat.offset >= Music("length"))
  <2>1. ~InMusic("audio")'
    BY <1>2, <1>8, NoStoresAre DEF InMusic
  <2>2. /\ Music("pattern") \in Patterns /\ Music("length") \in Int
        /\ Music("offset") = beat.offset /\ beat.offset \in Nat
    BY <1>2, <1>6, NoStoresAre DEF Deciding, Seen, Music
  <2>3. MusicLasts'
    BY <1>2, <1>8, <2>2, NoneIsNoEffect DEF MusicLasts, Lasts, Music
  <2> QED
    BY <1>1, <1>2, <1>4, <1>5, <1>6, <1>8, <2>1, <2>3 DEF MusicInv
<1> QED
  BY <1>4, <1>7, <1>8

\* A thread that stores nothing of the music, before another step or after it, keeps it.
LEMMA ElsewhereKeepsMusic ==
  ASSUME MusicInv, NEW t \in Threads, NEW o \in Threads, o # t,
         pending[t] = NoStores, pc[t] \notin {"decide", "stop"}, pc'[t] \notin {"decide", "stop"},
         DOMAIN pending' = Threads, \A f \in Told : <<None, f>> \notin DOMAIN pending'[t],
         pending'[o] = pending[o], DOMAIN pc' = Threads, pc'[o] = pc[o],
         mem' = mem, torn' = torn, beat' = beat
  PROVE  MusicInv'
<1>1. ~InMusic(t) /\ ~InMusic(t)'
  BY NoStoresAre DEF InMusic, Told
<1> QED
  BY <1>1, ApartKeepsMusic

LEMMA SoundsKeepMusic ==
  ASSUME MusicInv,
         \/ \E t \in Threads, c \in Channels : StartSound(t, c)
         \/ SfxStop \/ SfxRelease \/ \E c \in Channels : Once(c) \/ PlayOn(c) \/ Relaunch(c) \/ Update(c)
         \/ \E at \in {"silence", "release"} : \E chans : SfxCall(at, chans)
         \/ \E s, chan, len : SfxPlay(s, chan, len)
  PROVE  MusicInv'
<1>1. "cart" \in Threads /\ "audio" \in Threads /\ DOMAIN pending = Threads /\ DOMAIN pc = Threads
  BY DEF Threads, MusicInv
<1> DEFINE Untold(stores) == \A f \in Told : <<None, f>> \notin DOMAIN stores
           Kept(t) ==
             /\ pending[t] = NoStores /\ pc[t] \notin {"decide", "stop"}
             /\ UNCHANGED <<mem, torn, beat>>
             /\ \E at, chans : Goes(t, at, chans) /\ at \notin {"decide", "stop"}
             /\ pending' = pending \/ \E stores : Stores(t, stores) /\ Untold(stores)
<1>2. ASSUME NEW t \in Threads, Kept(t) PROVE MusicInv'
  <2>1. PICK at : (\E chans : Goes(t, at, chans)) /\ at \notin {"decide", "stop"}
    BY <1>2
  <2>2. /\ pc'[t] = at /\ DOMAIN pc' = Threads /\ pc'[Other(t)] = pc[Other(t)]
    BY <1>1, <2>1, ThreadsAre DEF Goes
  <2>3. /\ DOMAIN pending' = Threads /\ pending'[Other(t)] = pending[Other(t)]
        /\ \A f \in Told : <<None, f>> \notin DOMAIN pending'[t]
    <3>1. CASE pending' = pending
      BY <1>1, <1>2, <3>1, NoStoresAre
    <3>2. CASE \E stores : Stores(t, stores) /\ Untold(stores)
      BY <1>1, <3>2, ThreadsAre DEF Stores
    <3> QED
      BY <1>2, <3>1, <3>2
  <2> QED
    BY <1>2, <2>1, <2>2, <2>3, ThreadsAre, ElsewhereKeepsMusic
<1>3. Untold(NoStores) /\ \A c \in Channels : \A fields : Untold(At(c, fields))
  BY AtIs, NoStoresAre, NoneIsNoEffect
<1> HIDE DEF Untold
<1>4. ASSUME NEW t \in Threads, NEW c \in Channels, StartSound(t, c) PROVE Kept(t)
  <2>1. \E fields : Stores(t, At(c, fields))
    BY <1>4 DEF StartSound
  <2>2. \E at, chans : Goes(t, at, chans) /\ at \notin {"decide", "stop"}
    BY <1>4 DEF StartSound, Starts
  <2> QED
    BY <1>3, <1>4, <2>1, <2>2 DEF StartSound, Ready
<1>5. ASSUME NEW at, at \in {"silence", "release"}, NEW fields, Leave(at, fields) PROVE Kept("cart")
  <2>1. PICK c \in Channels :
          /\ Stores("cart", IF OfMusic(c) THEN NoStores ELSE At(c, fields))
          /\ Goes("cart", IF todo["cart"] = {c} THEN "idle" ELSE at, todo["cart"] \ {c})
    BY <1>5 DEF Leave
  <2>2. Untold(IF OfMusic(c) THEN NoStores ELSE At(c, fields))
    BY <1>3
  <2>3. (IF todo["cart"] = {c} THEN "idle" ELSE at) \notin {"decide", "stop"}
    BY <1>5
  <2>4. pending["cart"] = NoStores /\ pc["cart"] = at /\ UNCHANGED <<mem, torn, beat>>
    BY <1>5 DEF Leave, Ready
  <2> QED
    BY <1>5, <2>1, <2>2, <2>3, <2>4
<1>6. ASSUME NEW c \in Channels, Once(c) PROVE Kept("cart")
  <2>1. Untold(IF Playing(c) = play.sfx THEN At(c, [sfx |-> None]) ELSE NoStores)
    BY <1>3
  <2>2. Goes("cart", "once", todo["cart"] \ {c})
    BY <1>6 DEF Once
  <2> QED
    BY <1>6, <2>1, <2>2 DEF Once, Ready
<1>7. ASSUME NEW c \in Channels, PlayOn(c) PROVE Kept("cart")
  <2>1. \E fields : Stores("cart", At(c, fields))
    BY <1>7 DEF PlayOn
  <2>2. Goes("cart", "idle", {})
    BY <1>7 DEF PlayOn
  <2> QED
    BY <1>3, <1>7, <2>1, <2>2 DEF PlayOn, Ready
<1>8. ASSUME NEW c \in Channels, Relaunch(c) PROVE Kept("audio")
  <2>1. pending' = pending \/ \E fields : Stores("audio", At(c, fields))
    BY <1>8 DEF Relaunch
  <2>2. Goes("audio", "sound", todo["audio"])
    BY <1>8 DEF Relaunch
  <2> QED
    BY <1>3, <1>8, <2>1, <2>2 DEF Relaunch, Ready
<1>9. ASSUME NEW c \in Channels, Update(c) PROVE Kept("audio")
  <2>1. Stores("audio", NoStores) \/ \E fields : Stores("audio", At(c, fields))
    <3>1. \E ends, now : Stores("audio", IF Playing(c) = None \/ still THEN NoStores
                                         ELSE IF ends THEN At(c, [time |-> now, sfx |-> None])
                                         ELSE At(c, [time |-> now]))
      BY <1>9 DEF Update
    <3> QED
      BY <3>1
  <2>2. Goes("audio", "channel", todo["audio"] \ {c})
    BY <1>9 DEF Update
  <2> QED
    BY <1>3, <1>9, <2>1, <2>2 DEF Update, Ready
<1>10. ASSUME NEW at \in {"silence", "release"}, NEW chans, SfxCall(at, chans) PROVE Kept("cart")
  BY <1>10 DEF SfxCall, Call, Ready
<1>11. ASSUME NEW s, NEW chan, NEW len, SfxPlay(s, chan, len) PROVE Kept("cart")
  <2>1. Goes("cart", "once", Channels)
    BY <1>11 DEF SfxPlay
  <2> QED
    BY <1>11, <2>1 DEF SfxPlay, Call, Ready
<1> HIDE DEF Kept
<1> QED
  BY <1>1, <1>2, <1>4, <1>5, <1>6, <1>7, <1>8, <1>9, <1>10, <1>11 DEF SfxStop, SfxRelease

LEMMA StepKeepsMusic == MusicInv /\ [Next]_vars => MusicInv'
<1> SUFFICES ASSUME MusicInv, [Next]_vars PROVE MusicInv'
  OBVIOUS
<1>1. "cart" \in Threads /\ "audio" \in Threads
  BY DEF Threads
<1>2. ASSUME UNCHANGED <<mem, pending, pc, beat, torn>> PROVE MusicInv'
  BY <1>2 DEF MusicInv, InMusic, MusicLasts, Music, LastsFor, Deciding, Seen
<1>3. CASE Calls
  <2>1. Pause => UNCHANGED <<mem, pending, pc, beat, torn>>
    BY DEF Pause, threads
  <2> QED
    BY <1>2, <1>3, <2>1, CartMusicCalls, SoundsKeepMusic DEF Calls
<1>4. CASE GoesOn
  BY <1>1, <1>4, LandKeepsMusic, StopKeepsMusic, SetKeepsMusic, SoundsKeepMusic
     DEF GoesOn, SetMusicPattern
<1>5. CASE Audio
  BY <1>1, <1>5, LandKeepsMusic, StopKeepsMusic, SetKeepsMusic, SoundsKeepMusic,
     AdvanceKeepsMusic, DecideKeepsMusic DEF Audio, SetMusicPattern
<1>6. CASE UNCHANGED vars
  BY <1>2, <1>6 DEF vars, threads
<1> QED
  BY <1>3, <1>4, <1>5, <1>6 DEF Next

LEMMA InitMusic == Init => MusicInv
<1> SUFFICES ASSUME Init PROVE MusicInv
  OBVIOUS
<1>1. /\ \A t \in Threads : pending[t] = NoStores
      /\ DOMAIN pending = Threads /\ DOMAIN pc = Threads
      /\ pc["cart"] = "idle" /\ pc["audio"] = "channel"
  BY DEF Init, Threads
<1>2. \A t \in Threads : ~InMusic(t) /\ pc[t] # "decide"
  BY <1>1, NoStoresAre DEF InMusic, Threads
<1>3. \A f \in Told : <<None, f>>[1] = None /\ <<None, f>>[2] = f
  OBVIOUS
<1>4. \A f \in Told : Music(f) = NoMusic[f]
  BY <1>3, ToldAre DEF Init, Music
<1>5. MusicLasts
  BY <1>4 DEF MusicLasts, Lasts, NoMusic, Told, None
<1> QED
  BY <1>1, <1>2, <1>5 DEF MusicInv, Threads

\* The music is at a pattern of the song that has something to play, and not past its
\* end, for any song, any speeds and any stores of the two threads in any order, unless
\* both are in the music at the same time, and until one of them has set it alone again
\* (set_music_pattern, get_audio).
THEOREM PatternAlwaysHasTime == Spec => []PatternHasTime
<1>1. MusicInv => PatternHasTime
  BY NoneIsNoEffect DEF MusicInv, PatternHasTime, MusicLasts, Lasts
<1> QED
  BY <1>1, InitMusic, StepKeepsMusic, PTL DEF Spec

-----------------------------------------------------------------------------
(* Planes, bit by bit.                                                     *)

Bits == [0 .. 3 -> {0, 1}]
Number(f) == f[0] + 2 * f[1] + 4 * f[2] + 8 * f[3]
Both(f, g) == [i \in 0 .. 3 |-> IF f[i] = 1 THEN g[i] ELSE 0]
Not(f) == [i \in 0 .. 3 |-> 1 - f[i]]

\* A colour is four bits, and four bits are a colour.
LEMMA ColourHasBits == ASSUME NEW a \in Colours PROVE \E f \in Bits : a = Number(f)
<1> DEFINE f == [i \in 0 .. 3 |-> CASE i = 0 -> a % 2
                                    [] i = 1 -> (a \div 2) % 2
                                    [] i = 2 -> (a \div 4) % 2
                                    [] i = 3 -> (a \div 8) % 2]
<1>1. f[0] = a % 2 /\ f[1] = (a \div 2) % 2 /\ f[2] = (a \div 4) % 2 /\ f[3] = (a \div 8) % 2
  OBVIOUS
<1>2. a = (a % 2) + 2 * ((a \div 2) % 2) + 4 * ((a \div 4) % 2) + 8 * ((a \div 8) % 2)
  BY DEF Colours
<1>3. \A i \in 0 .. 3 : f[i] \in {0, 1}
  <2>1. a % 2 \in {0, 1} /\ (a \div 2) % 2 \in {0, 1} /\ (a \div 4) % 2 \in {0, 1} /\ (a \div 8) % 2 \in {0, 1}
    BY DEF Colours
  <2> HIDE DEF f
  <2>2. \A i \in 0 .. 3 : i = 0 \/ i = 1 \/ i = 2 \/ i = 3
    OBVIOUS
  <2> QED
    BY <1>1, <2>1, <2>2
<1>4. f \in Bits
  BY <1>3 DEF Bits
<1>5. a = Number(f)
  <2> HIDE DEF f
  <2> QED
    BY <1>1, <1>2 DEF Number
<1> QED
  BY <1>4, <1>5

\* The bits of a number are those it was made of.
LEMMA BitsOfNumber ==
  ASSUME NEW f \in Bits
  PROVE  LET a == Number(f)
         IN  /\ a \in Colours
             /\ (a \div 1) % 2 = f[0] /\ (a \div 2) % 2 = f[1]
             /\ (a \div 4) % 2 = f[2] /\ (a \div 8) % 2 = f[3]
<1>1. f[0] \in {0, 1} /\ f[1] \in {0, 1} /\ f[2] \in {0, 1} /\ f[3] \in {0, 1}
  BY DEF Bits
<1> QED
  BY <1>1 DEF Number, Colours

\* Planes is the and of the bits.
LEMMA PlanesOfBits ==
  ASSUME NEW f \in Bits, NEW g \in Bits
  PROVE  Both(f, g) \in Bits /\ Planes(Number(f), Number(g)) = Number(Both(f, g))
<1> DEFINE a == Number(f)
           b == Number(g)
<1>1. (a \div 1) % 2 = f[0] /\ (a \div 2) % 2 = f[1] /\ (a \div 4) % 2 = f[2] /\ (a \div 8) % 2 = f[3]
  BY BitsOfNumber
<1>2. (b \div 1) % 2 = g[0] /\ (b \div 2) % 2 = g[1] /\ (b \div 4) % 2 = g[2] /\ (b \div 8) % 2 = g[3]
  BY BitsOfNumber
<1>3. \A i \in 0 .. 3 : f[i] \in {0, 1} /\ g[i] \in {0, 1}
  BY DEF Bits
<1>4. Both(f, g) \in Bits
  BY <1>3 DEF Both, Bits
<1>5. /\ Plane(a, b, 1) = Both(f, g)[0] /\ Plane(a, b, 2) = 2 * Both(f, g)[1]
      /\ Plane(a, b, 4) = 4 * Both(f, g)[2] /\ Plane(a, b, 8) = 8 * Both(f, g)[3]
  <2> HIDE DEF a, b
  <2>1. f[0] \in {0, 1} /\ g[0] \in {0, 1} /\ f[1] \in {0, 1} /\ g[1] \in {0, 1}
        /\ f[2] \in {0, 1} /\ g[2] \in {0, 1} /\ f[3] \in {0, 1} /\ g[3] \in {0, 1}
    BY <1>3
  <2> QED
    BY <1>1, <1>2, <2>1 DEF Plane, Both
<1>6. Planes(a, b) = Number(Both(f, g))
  <2> HIDE DEF a, b
  <2> QED
    BY <1>5 DEF Planes, Number
<1> QED
  BY <1>4, <1>6

\* Writing some planes of a colour leaves the others as they were.
LEMMA PlanesStand ==
  ASSUME NEW old \in Colours, NEW colour \in Colours, NEW w \in Colours, NEW s \in Colours
  PROVE  LET new == Planes(old, 15 - w) + Planes(Planes(colour, w), s)
         IN  new \in Colours /\ Planes(new, 15 - w) = Planes(old, 15 - w)
<1>1. PICK a \in Bits : old = Number(a)
  BY ColourHasBits
<1>2. PICK c \in Bits : colour = Number(c)
  BY ColourHasBits
<1>3. PICK f \in Bits : w = Number(f)
  BY ColourHasBits
<1>4. PICK g \in Bits : s = Number(g)
  BY ColourHasBits
<1>5. \A i \in 0 .. 3 : /\ a[i] \in {0, 1} /\ c[i] \in {0, 1}
                        /\ f[i] \in {0, 1} /\ g[i] \in {0, 1}
  BY DEF Bits
<1> DEFINE kept == Both(a, Not(f))
           put == Both(Both(c, f), g)
           h == [i \in 0 .. 3 |-> kept[i] + put[i]]
           new == Planes(old, 15 - w) + Planes(Planes(colour, w), s)
<1>6. Not(f) \in Bits /\ 15 - w = Number(Not(f))
  <2>1. \A i \in 0 .. 3 : 1 - f[i] \in {0, 1}
    BY <1>5
  <2>2. 15 - w = Number(Not(f))
    BY <1>3, <1>5 DEF Number, Not
  <2> QED
    BY <2>1, <2>2 DEF Not, Bits
<1>7. kept \in Bits /\ Planes(old, 15 - w) = Number(kept)
  BY <1>1, <1>6, PlanesOfBits
<1>8. put \in Bits /\ Planes(Planes(colour, w), s) = Number(put)
  BY <1>2, <1>3, <1>4, PlanesOfBits
<1>9. \A i \in 0 .. 3 : h[i] \in {0, 1} /\ (f[i] = 0 => h[i] = a[i])
  BY <1>5 DEF Both, Not
<1>10. h \in Bits
  BY <1>9 DEF Bits
<1>11. new = Number(h)
  <2>1. \A i \in 0 .. 3 : kept[i] \in Int /\ put[i] \in Int /\ h[i] = kept[i] + put[i]
    BY <1>7, <1>8 DEF Bits
  <2>2. new = Number(kept) + Number(put)
    BY <1>7, <1>8
  <2> HIDE DEF kept, put, h, new
  <2> QED
    BY <2>1, <2>2 DEF Number
<1>12. Both(h, Not(f)) = kept
  <2> HIDE DEF h
  <2> QED
    BY <1>5, <1>9 DEF Both, Not
<1>13. Planes(new, 15 - w) = Number(kept)
  <2> HIDE DEF h, kept, new
  <2> QED
    BY <1>6, <1>10, <1>11, <1>12, PlanesOfBits
<1>14. new \in Colours
  <2> HIDE DEF h, new
  <2> QED
    BY <1>10, <1>11, BitsOfNumber
<1> QED
  BY <1>7, <1>13, <1>14

\* A row of points, whichever way it is written: two points to the byte, or one by one.
LEMMA RowIsARow ==
  ASSUME NEW d, d.clip.x1 \in Nat, d.clip.x2 \in Nat,
         d.clip.y1 \in Int, d.clip.y2 \in Int,
         NEW xa \in Int, NEW xb \in Int, NEW y \in Int
  PROVE  HLine(d, xa, xb, y) = Dots(d, (Lesser(xa, xb) .. Greater(xa, xb)) \X {y})
<1> DEFINE lo == Lesser(xa, xb)
           hi == Greater(xa, xb)
           x1 == Greater(lo, d.clip.x1)
           x2 == Lesser(hi, d.clip.x2 - 1)
           from == IF x1 % 2 = 1 THEN x1 + 1 ELSE x1
           to == IF x2 % 2 = 0 THEN x2 - 1 ELSE x2
           bytes == Quotient(to - from + 1, 2)
           whole == {x \in {x1} : x1 % 2 = 1} \cup {x \in {x2} : x2 % 2 = 0}
                      \cup (2 * (from \div 2)) .. (2 * (from \div 2 + bytes) - 1)
<1>0. lo \in Int /\ hi \in Int /\ x1 \in Nat /\ x2 \in Int
      /\ d.clip.x1 \in Int /\ d.clip.x2 \in Int
  BY DEF Lesser, Greater
<1>1. ASSUME y >= d.clip.y1, y < d.clip.y2
      PROVE  Dots(d, (lo .. hi) \X {y}) = (x1 .. x2) \X {y}
  <2>1. \A x \in Int : x \in lo .. hi /\ x >= d.clip.x1 /\ x < d.clip.x2 <=> x \in x1 .. x2
    <3> HIDE DEF lo, hi
    <3> QED
      BY <1>0 DEF Lesser, Greater
  <2> HIDE DEF lo, hi, x1, x2
  <2> QED
    BY <1>0, <1>1, <2>1 DEF Dots, Within
<1>2. CASE y < d.clip.y1 \/ y >= d.clip.y2
  <2>1. HLine(d, xa, xb, y) = {}
    BY <1>2 DEF HLine
  <2>2. Dots(d, (lo .. hi) \X {y}) = {}
    BY <1>2 DEF Dots, Within
  <2> QED
    BY <2>1, <2>2
<1>3. CASE y >= d.clip.y1 /\ y < d.clip.y2 /\ x1 > x2
  <2>1. HLine(d, xa, xb, y) = {}
    BY <1>3 DEF HLine
  <2>2. (x1 .. x2) \X {y} = {}
    <3> HIDE DEF x1, x2
    <3> QED
      BY <1>0, <1>3
  <2> QED
    BY <1>1, <1>3, <2>1, <2>2
<1>4. CASE y >= d.clip.y1 /\ y < d.clip.y2 /\ x1 <= x2 /\ ~Fast(d)
  <2>1. HLine(d, xa, xb, y) = Dots(d, (x1 .. x2) \X {y})
    <3>1. ~(y < d.clip.y1 \/ y >= d.clip.y2 \/ x1 > x2)
      <4> HIDE DEF x1, x2
      <4> QED
        BY <1>0, <1>4
    <3> QED
      BY <1>4, <3>1 DEF HLine
  <2>2. \A x \in x1 .. x2 : Within(d, <<x, y>>)
    <3>1. \A x \in x1 .. x2 : x >= d.clip.x1 /\ x < d.clip.x2
      <4> HIDE DEF lo, hi
      <4> QED
        BY <1>0 DEF Lesser, Greater
    <3> HIDE DEF x1, x2
    <3> QED
      BY <1>4, <3>1 DEF Within
  <2>3. Dots(d, (x1 .. x2) \X {y}) = (x1 .. x2) \X {y}
    <3> HIDE DEF x1, x2
    <3> QED
      BY <2>2 DEF Dots
  <2> HIDE DEF x1, x2
  <2> QED
    BY <1>1, <1>4, <2>1, <2>3
<1>5. CASE y >= d.clip.y1 /\ y < d.clip.y2 /\ x1 <= x2 /\ Fast(d)
  <2>1. HLine(d, xa, xb, y) = whole \X {y}
    <3>1. ~(y < d.clip.y1 \/ y >= d.clip.y2 \/ x1 > x2)
      <4> HIDE DEF x1, x2
      <4> QED
        BY <1>0, <1>5
    <3> QED
      BY <1>5, <3>1 DEF HLine
  <2>2. whole = x1 .. x2
    <3> HIDE DEF x1, x2
    <3>1. from \in Nat /\ to \in Int /\ from % 2 = 0 /\ to % 2 = 1 /\ to - from + 1 >= -1
      BY <1>0, <1>5
    <3>2. 2 * (from \div 2) = from /\ 2 * (from \div 2 + bytes) - 1 = to
      <4> HIDE DEF from, to
      <4>1. (to - from + 1) \div 2 = Quotient(to - from + 1, 2)
        BY <3>1 DEF Quotient
      <4> QED
        BY <3>1, <4>1
    <3>3. \A x \in Int : x \in whole <=> x \in x1 .. x2
      <4> DEFINE middle == (2 * (from \div 2)) .. (2 * (from \div 2 + bytes) - 1)
      <4>1. middle = from .. to
        BY <3>2
      <4>2. \A x : x \in whole <=> \/ x = x1 /\ x1 % 2 = 1
                                   \/ x = x2 /\ x2 % 2 = 0
                                   \/ x \in from .. to
        <5> HIDE DEF middle, from, to
        <5> QED
          BY <4>1 DEF middle
      <4> HIDE DEF whole
      <4> QED
        BY <1>0, <1>5, <3>1, <4>2
    <3> HIDE DEF from, to, bytes
    <3> QED
      BY <1>0, <3>3
  <2> HIDE DEF x1, x2, whole
  <2> QED
    BY <1>1, <1>5, <2>1, <2>2
<1> QED
  <2> HIDE DEF x1, x2
  <2> QED
    BY <1>0, <1>2, <1>3, <1>4, <1>5

-----------------------------------------------------------------------------
(* The eighth of a circle.                                                 *)

Place == [dx : Int, dy : Int, err : Int]
Start(r) == [dx |-> r, dy |-> 0, err |-> 0]
IsWalk(g, r, n) == g = [k \in 0 .. n |-> IF k = 0 THEN Start(r) ELSE Round(r, g[k - 1])]

LEMMA RoundIsAPlace == ASSUME NEW r \in Int, NEW w \in Place PROVE Round(r, w) \in Place
  BY DEF Round, Place

\* A walk of n rounds is one of n + 1 with a round more.
LEMMA WalkGoesOn ==
  ASSUME NEW r, NEW n \in Nat, NEW g, IsWalk(g, r, n)
  PROVE  \E h : IsWalk(h, r, n + 1)
<1> DEFINE h == [k \in 0 .. n + 1 |-> IF k = n + 1 THEN Round(r, g[n]) ELSE g[k]]
<1>1. \A k \in 0 .. n : g[k] = IF k = 0 THEN Start(r) ELSE Round(r, g[k - 1])
  BY DEF IsWalk
<1>2. \A k \in 0 .. n + 1 : h[k] = IF k = 0 THEN Start(r) ELSE Round(r, h[k - 1])
  <2> TAKE k \in 0 .. n + 1
  <2>1. CASE k = n + 1
    <3>1. h[k] = Round(r, g[n]) /\ h[k - 1] = g[n] /\ k # 0
      BY <2>1
    <3> QED
      BY <3>1
  <2>2. CASE k # n + 1
    <3>1. k \in 0 .. n /\ h[k] = g[k]
      BY <2>2
    <3>2. k # 0 => h[k - 1] = g[k - 1]
      BY <3>1
    <3> QED
      BY <1>1, <3>1, <3>2
  <2> QED
    BY <2>1, <2>2
<1>3. IsWalk(h, r, n + 1)
  <2>1. h = [k \in 0 .. n + 1 |-> h[k]]
    OBVIOUS
  <2> HIDE DEF h
  <2> QED
    BY <1>2, <2>1 DEF IsWalk
<1> QED
  BY <1>3

\* There is a walk of any number of rounds.
LEMMA WalkExists == ASSUME NEW r, NEW n \in Nat PROVE \E g : IsWalk(g, r, n)
<1> DEFINE S == {m \in Nat : \E g : IsWalk(g, r, m)}
<1>1. 0 \in S
  <2> DEFINE g == [k \in 0 .. 0 |-> Start(r)]
  <2>1. \A k \in 0 .. 0 : k = 0
    OBVIOUS
  <2>2. g = [k \in 0 .. 0 |-> IF k = 0 THEN Start(r) ELSE Round(r, g[k - 1])]
    BY <2>1
  <2> QED
    BY <2>2 DEF IsWalk
<1>2. \A m \in Nat : m \in S => m + 1 \in S
  BY WalkGoesOn
<1>3. Nat \subseteq S
  <2> HIDE DEF S
  <2> QED
    BY <1>1, <1>2, Counting
<1> QED
  BY <1>3

\* Walk is the walk that its definition says.
LEMMA WalkIsAWalk ==
  ASSUME NEW r \in Int
  PROVE  IsWalk(Walk(r), r, Greater(r, 0))
<1>1. Greater(r, 0) \in Nat
  BY DEF Greater
<1>2. \E g : IsWalk(g, r, Greater(r, 0))
  BY <1>1, WalkExists
<1>3. Walk(r) = CHOOSE g : IsWalk(g, r, Greater(r, 0))
  BY Zenon DEF Walk, IsWalk, Start
<1> QED
  BY <1>2, <1>3

\* It stays on whole points.
LEMMA WalkIsWhole ==
  ASSUME NEW r \in Int, NEW k \in 0 .. Greater(r, 0)
  PROVE  Walk(r)[k] \in Place
<1> DEFINE n == Greater(r, 0)
           g == Walk(r)
           S == {m \in Nat : m <= n => g[m] \in Place}
<1>0. n \in Nat
  BY DEF Greater
<1>1. \A m \in 0 .. n : g[m] = IF m = 0 THEN Start(r) ELSE Round(r, g[m - 1])
  <2>1. IsWalk(g, r, n)
    BY WalkIsAWalk
  <2> HIDE DEF g, n
  <2> QED
    BY <2>1 DEF IsWalk
<1> HIDE DEF g, n
<1>2. 0 \in S
  BY <1>0, <1>1 DEF Start, Place
<1>3. ASSUME NEW m \in Nat, m \in S PROVE m + 1 \in S
  <2> SUFFICES ASSUME m + 1 <= n PROVE g[m + 1] \in Place
    OBVIOUS
  <2>1. g[m] \in Place
    BY <1>0, <1>3
  <2>2. g[m + 1] = Round(r, g[m])
    <3>1. m + 1 \in 0 .. n /\ m + 1 # 0 /\ (m + 1) - 1 = m
      BY <1>0
    <3> QED
      BY <1>1, <3>1
  <2> QED
    BY <2>1, <2>2, RoundIsAPlace
<1>4. Nat \subseteq S
  <2> HIDE DEF S
  <2> QED
    BY <1>2, <1>3, Counting
<1> QED
  BY <1>0, <1>4 DEF n, g

\* An eighth of a circle has whole points only.
LEMMA OctantIsWhole == ASSUME NEW r \in Int PROVE Octant(r) \subseteq Int \X Int
<1> SUFFICES ASSUME NEW o \in Octant(r) PROVE o \in Int \X Int
  OBVIOUS
<1>1. PICK k \in 0 .. Greater(r, 0) : o = <<Walk(r)[k].dx, Walk(r)[k].dy>>
  BY DEF Octant
<1>2. Walk(r)[k] \in Place
  BY WalkIsWhole
<1> QED
  BY <1>1, <1>2 DEF Place

-----------------------------------------------------------------------------
(* What is drawn is in the window.                                         *)

\* How far an oval reaches in a row, and a rounded corner is drawn in, are numbers.
LEMMA ExtentIsWhole ==
  ASSUME NEW a \in Nat, NEW b \in Int, NEW k \in Int
  PROVE  Extent(a, b, k) \in 0 .. a
<1> DEFINE S == {n \in 0 .. a :
                  n > 0 => (2 * n - 1) * (2 * n - 1) * b * b <= 4 * a * a * (b * b - k * k)}
<1>1. IsFiniteSet(S)
  <2>1. S \subseteq 0 .. a
    OBVIOUS
  <2>2. IsFiniteSet(0 .. a)
    BY FS_Interval
  <2> HIDE DEF S
  <2> QED
    BY <2>1, <2>2, FS_Subset
<1>2. 0 \in S
  OBVIOUS
<1>3. S \in SUBSET Int
  OBVIOUS
<1>4. Max(S) \in S
  <2> HIDE DEF S
  <2> QED
    BY <1>1, <1>2, <1>3, MaxIsIn
<1>5. Max(S) \in 0 .. a
  BY <1>4
<1>6. Extent(a, b, k) = IF b = 0 THEN a ELSE Max(S)
  BY DEF Extent
<1> QED
  <2> HIDE DEF S
  <2> QED
    BY <1>5, <1>6

LEMMA InsetIsWhole ==
  ASSUME NEW py \in Int, NEW y0 \in Int, NEW y1 \in Int, NEW r \in Int
  PROVE  Inset(py, y0, y1, r) \in Int
<1> DEFINE dy == IF py < y0 + r THEN y0 + r - py
                 ELSE IF py > y1 - r THEN py - (y1 - r) ELSE 0
           S == {run \in 0 .. r : run = 0 \/ run * run <= r * r - dy * dy}
<1>1. Inset(py, y0, y1, r) = IF r <= 0 \/ dy = 0 THEN 0 ELSE r - Max(S)
  BY DEF Inset
<1>2. ASSUME r > 0 PROVE Max(S) \in Int
  <2>1. S \in SUBSET Int /\ 0 \in S /\ S \subseteq 0 .. r
    BY <1>2
  <2> HIDE DEF S
  <2>2. IsFiniteSet(S)
    BY <2>1, FS_Interval, FS_Subset
  <2> QED
    BY <2>1, <2>2, MaxIsIn
<1> HIDE DEF S, dy
<1> QED
  BY <1>1, <1>2

Windowed(d) ==
    /\ d.clip.x1 \in Nat /\ d.clip.x2 \in Nat
    /\ d.clip.y1 \in Nat /\ d.clip.y2 \in Nat

InWindow(d, pts) == \A p \in pts : Within(d, p)

\* Points and lines are cut to the window by Dots.
LEMMA DotsInWindow == ASSUME NEW d, NEW pts PROVE InWindow(d, Dots(d, pts))
  BY DEF InWindow, Dots

LEMMA LineInWindow ==
  ASSUME NEW d, NEW xa, NEW ya, NEW xb, NEW yb
  PROVE  InWindow(d, Line(d, xa, ya, xb, yb))
  BY DEF InWindow, Line, Dots

\* Rows and columns are cut to it by code of their own.
LEMMA HLinesInWindow ==
  ASSUME NEW d, Windowed(d), NEW spans, spans \subseteq Int \X Int \X Int
  PROVE  InWindow(d, HLines(d, spans))
<1> SUFFICES ASSUME NEW s \in spans, NEW p \in HLine(d, s[1], s[2], s[3]) PROVE Within(d, p)
  BY DEF InWindow, HLines
<1> DEFINE xa == s[1]  xb == s[2]  y == s[3]
<1>1. xa \in Int /\ xb \in Int /\ y \in Int
  OBVIOUS
<1>2. p \in HLine(d, xa, xb, y)
  OBVIOUS
<1> HIDE DEF xa, xb, y
<1>3. d.clip.x1 \in Nat /\ d.clip.x2 \in Nat /\ d.clip.y1 \in Int /\ d.clip.y2 \in Int
  BY DEF Windowed
<1>4. HLine(d, xa, xb, y) = Dots(d, (Lesser(xa, xb) .. Greater(xa, xb)) \X {y})
  BY <1>1, <1>3, RowIsARow
<1> QED
  BY <1>2, <1>4 DEF Dots

LEMMA VLineInWindow ==
  ASSUME NEW d, Windowed(d), NEW x \in Int, NEW ya \in Int, NEW yb \in Int
  PROVE  InWindow(d, VLine(d, x, ya, yb))
<1> DEFINE y1 == Greater(Lesser(ya, yb), d.clip.y1)
           y2 == Lesser(Greater(ya, yb), d.clip.y2 - 1)
<1>1. d.clip.y1 \in Int /\ d.clip.y2 \in Int
  BY ShapesConstants DEF Windowed
<1>2. \A y \in y1 .. y2 : y >= d.clip.y1 /\ y < d.clip.y2
  BY <1>1 DEF Lesser, Greater
<1>3. VLine(d, x, ya, yb) = IF x < d.clip.x1 \/ x >= d.clip.x2 \/ y1 > y2 THEN {} ELSE {x} \X (y1 .. y2)
  BY DEF VLine
<1> HIDE DEF y1, y2
<1>4. ASSUME NEW p \in VLine(d, x, ya, yb) PROVE Within(d, p)
  <2>1. ~(x < d.clip.x1 \/ x >= d.clip.x2) /\ p \in {x} \X (y1 .. y2)
    BY <1>3, <1>4
  <2>2. p[1] = x /\ p[2] \in y1 .. y2
    BY <2>1
  <2>3. d.clip.x1 \in Int /\ d.clip.x2 \in Int
    BY ShapesConstants DEF Windowed
  <2> QED
    BY <1>2, <2>1, <2>2, <2>3 DEF Within
<1> QED
  BY <1>4 DEF InWindow

\* Each shape, as spans of whole numbers.
LEMMA CircsInWindow ==
  ASSUME NEW d, Windowed(d), NEW x \in Int, NEW y \in Int, NEW r \in Int
  PROVE  InWindow(d, Circ(d, x, y, r)) /\ InWindow(d, CircFill(d, x, y, r))
<1> DEFINE spans == {<<x - o[e[2]], x + o[e[2]], y + e[1] * o[3 - e[2]]>> :
                       o \in Octant(r), e \in {-1, 1} \X {1, 2}}
<1>1. spans \subseteq Int \X Int \X Int
  <2> SUFFICES ASSUME NEW o \in Octant(r), NEW e \in {-1, 1} \X {1, 2}
               PROVE  <<x - o[e[2]], x + o[e[2]], y + e[1] * o[3 - e[2]]>> \in Int \X Int \X Int
    OBVIOUS
  <2>1. o[1] \in Int /\ o[2] \in Int
    BY OctantIsWhole
  <2>2. (e[1] = -1 \/ e[1] = 1) /\ (e[2] = 1 \/ e[2] = 2)
    OBVIOUS
  <2>3. o[e[2]] \in Int /\ o[3 - e[2]] \in Int
    BY <2>1, <2>2
  <2> QED
    BY <2>2, <2>3
<1>2. InWindow(d, HLines(d, spans))
  <2> HIDE DEF spans
  <2> QED
    BY <1>1, HLinesInWindow
<1>3. InWindow(d, {})
  BY DEF InWindow
<1>4. InWindow(d, CircFill(d, x, y, r))
  BY <1>2, <1>3 DEF CircFill
<1>5. InWindow(d, Circ(d, x, y, r))
  BY <1>3, DotsInWindow DEF Circ
<1> QED
  BY <1>4, <1>5

LEMMA OvalsInWindow ==
  ASSUME NEW d, Windowed(d),
         NEW xa \in Int, NEW ya \in Int, NEW xb \in Int, NEW yb \in Int
  PROVE  InWindow(d, Oval(d, xa, ya, xb, yb)) /\ InWindow(d, OvalFill(d, xa, ya, xb, yb))
<1> DEFINE x0 == Lesser(xa, xb)  x1 == Greater(xa, xb)
           y0 == Lesser(ya, yb)  y1 == Greater(ya, yb)
           aw == SemiAxis(x1 - x0 + 1)
           bh == SemiAxis(y1 - y0 + 1)
           wide(fy) == Max({Extent(aw, bh, fy)}
                             \cup {fx \in 0 .. aw : Extent(bh, aw, fx) >= fy})
           row(fy) == {<<x0 + aw - wide(fy), x1 - aw + wide(fy), y>> :
                         y \in {y0 + bh - fy, y1 - bh + fy}}
           spans == UNION {row(fy) : fy \in 0 .. bh}
<1>1. x0 \in Int /\ x1 \in Int /\ y0 \in Int /\ y1 \in Int /\ aw \in Nat /\ bh \in Nat
  BY DEF Lesser, Greater, SemiAxis
<1>2. ASSUME NEW fy \in 0 .. bh PROVE wide(fy) \in Int
  <2> DEFINE S == {Extent(aw, bh, fy)} \cup {fx \in 0 .. aw : Extent(bh, aw, fx) >= fy}
  <2> HIDE DEF aw, bh
  <2>1. Extent(aw, bh, fy) \in 0 .. aw
    BY <1>1, ExtentIsWhole
  <2>2. S \subseteq 0 .. aw /\ S # {}
    BY <2>1
  <2>3. IsFiniteSet(0 .. aw)
    BY <1>1, FS_Interval
  <2>4. Max(S) \in S
    <3> HIDE DEF S
    <3>1. IsFiniteSet(S)
      BY <2>2, <2>3, FS_Subset
    <3>2. S \in SUBSET Int
      BY <2>2, <1>1
    <3> QED
      BY <2>2, <3>1, <3>2, MaxIsIn
  <2>5. Max(S) \in 0 .. aw
    BY <2>2, <2>4
  <2> HIDE DEF S
  <2>6. Max(S) \in Int
    BY <2>5, <1>1
  <2> QED
    BY <2>6 DEF S
<1>3. spans \subseteq Int \X Int \X Int
  <2> SUFFICES ASSUME NEW fy \in 0 .. bh PROVE row(fy) \subseteq Int \X Int \X Int
    OBVIOUS
  <2> DEFINE v == wide(fy)
  <2>1. v \in Int /\ fy \in Int
    BY <1>1, <1>2
  <2>2. row(fy) = {<<x0 + aw - v, x1 - aw + v, y>> : y \in {y0 + bh - fy, y1 - bh + fy}}
    OBVIOUS
  <2> HIDE DEF v, x0, x1, y0, y1, aw, bh, wide, row
  <2> QED
    BY <1>1, <2>1, <2>2
<1>4. InWindow(d, HLines(d, spans))
  <2> HIDE DEF spans
  <2> QED
    BY <1>3, HLinesInWindow
<1>5. InWindow(d, {})
  BY DEF InWindow
<1>6. OvalFill(d, xa, ya, xb, yb) = IF Off(x0, y0, x1, y1) THEN {} ELSE HLines(d, spans)
  BY DEF OvalFill
<1>7. InWindow(d, Oval(d, xa, ya, xb, yb))
  BY <1>5, DotsInWindow DEF Oval
<1> QED
  <2> HIDE DEF spans
  <2> QED
    BY <1>4, <1>5, <1>6, <1>7

LEMMA RectInWindow ==
  ASSUME NEW d, Windowed(d),
         NEW xa \in Int, NEW ya \in Int, NEW xb \in Int, NEW yb \in Int
  PROVE  InWindow(d, Rect(d, xa, ya, xb, yb))
<1> DEFINE x0 == Lesser(xa, xb)  x1 == Greater(xa, xb)
           y0 == Lesser(ya, yb)  y1 == Greater(ya, yb)
           rows == HLines(d, {<<x0, x1, y0>>, <<x0, x1, y1>>})
           columns == IF y0 + 1 >= y1 THEN {}
                      ELSE VLine(d, x0, y0 + 1, y1 - 1) \cup VLine(d, x1, y0 + 1, y1 - 1)
<1>1. x0 \in Int /\ x1 \in Int /\ y0 \in Int /\ y1 \in Int
  BY DEF Lesser, Greater
<1>2. Rect(d, xa, ya, xb, yb) = IF Off(x0, y0, x1, y1) THEN {} ELSE rows \cup columns
  BY DEF Rect
<1> HIDE DEF x0, x1, y0, y1
<1>3. InWindow(d, rows)
  <2>1. {<<x0, x1, y0>>, <<x0, x1, y1>>} \subseteq Int \X Int \X Int
    BY <1>1
  <2> QED
    BY <2>1, HLinesInWindow
<1>4. InWindow(d, VLine(d, x0, y0 + 1, y1 - 1)) /\ InWindow(d, VLine(d, x1, y0 + 1, y1 - 1))
  <2>1. y0 + 1 \in Int /\ y1 - 1 \in Int
    BY <1>1
  <2> QED
    BY <1>1, <2>1, VLineInWindow
<1> QED
  <2>1. InWindow(d, columns)
    BY <1>4 DEF InWindow
  <2> HIDE DEF rows, columns
  <2> QED
    BY <1>2, <1>3, <2>1 DEF InWindow

LEMMA RRectsInWindow ==
  ASSUME NEW d, Windowed(d),
         NEW x0 \in Int, NEW y0 \in Int, NEW w \in Int, NEW h \in Int, NEW r \in Int
  PROVE  InWindow(d, RRect(d, x0, y0, w, h, r)) /\ InWindow(d, RRectFill(d, x0, y0, w, h, r))
<1> DEFINE x1 == x0 + w - 1
           y1 == y0 + h - 1
           k == Radius(w, h, r)
           ins(py) == Inset(py, y0, y1, k)
           outer(py) == Greater(Greater(ins(py - 1), ins(py + 1)) - 1, ins(py))
           row(py) == IF py \in {y0, y1} THEN {<<x0 + ins(py), x1 - ins(py), py>>}
                      ELSE {<<x0 + ins(py), x0 + outer(py), py>>, <<x1 - outer(py), x1 - ins(py), py>>}
           rows == Greater(y0, 0) .. Lesser(y1, Side - 1)
           filled == {<<x0 + ins(py), x1 - ins(py), py>> : py \in rows}
           outline == UNION {row(py) : py \in rows}
<1>1. x1 \in Int /\ y1 \in Int /\ k \in Int /\ Side \in Int
  <2>1. \A n \in Int : n \div 2 \in Int
    OBVIOUS
  <2> QED
    BY <2>1, ShapesConstants DEF Radius, Clamp, Lesser
<1>2. \A py \in rows : py \in Int
  BY <1>1 DEF Lesser, Greater
<1>3. ASSUME NEW py \in Int PROVE ins(py) \in Int
  <2> HIDE DEF y1, k
  <2> QED
    BY <1>1, InsetIsWhole
<1>4. ASSUME NEW py \in Int PROVE outer(py) \in Int
  <2>1. ins(py - 1) \in Int /\ ins(py + 1) \in Int /\ ins(py) \in Int
    <3>1. py - 1 \in Int /\ py + 1 \in Int
      OBVIOUS
    <3> HIDE DEF ins
    <3> QED
      BY <1>3, <3>1
  <2> HIDE DEF ins
  <2> QED
    BY <2>1 DEF Greater
<1>5. filled \subseteq Int \X Int \X Int /\ outline \subseteq Int \X Int \X Int
  <2> HIDE DEF ins, outer, rows, x1, y1
  <2>1. ASSUME NEW py \in rows
        PROVE  <<x0 + ins(py), x1 - ins(py), py>> \in Int \X Int \X Int /\ row(py) \subseteq Int \X Int \X Int
    <3>1. py \in Int /\ ins(py) \in Int /\ outer(py) \in Int
      BY <1>2, <1>3, <1>4
    <3> QED
      BY <1>1, <3>1
  <2> HIDE DEF row
  <2>2. filled \subseteq Int \X Int \X Int
    BY <2>1
  <2>3. outline \subseteq Int \X Int \X Int
    <3> SUFFICES ASSUME NEW py \in rows, NEW s \in row(py) PROVE s \in Int \X Int \X Int
      OBVIOUS
    <3>1. row(py) \subseteq Int \X Int \X Int
      BY <2>1
    <3> QED
      BY <3>1
  <2> QED
    BY <2>2, <2>3
<1>6. RRectFill(d, x0, y0, w, h, r) = IF w <= 0 \/ h <= 0 \/ Off(x0, y0, x1, y1) THEN {} ELSE HLines(d, filled)
  BY DEF RRectFill
<1>7. RRect(d, x0, y0, w, h, r) = IF w <= 0 \/ h <= 0 \/ Off(x0, y0, x1, y1) THEN {} ELSE HLines(d, outline)
  BY DEF RRect
<1> HIDE DEF filled, outline
<1>8. InWindow(d, HLines(d, filled)) /\ InWindow(d, HLines(d, outline)) /\ InWindow(d, {})
  BY <1>5, HLinesInWindow DEF InWindow
<1> QED
  BY <1>6, <1>7, <1>8

\* A filled rectangle, row after row, is in the window, and every point of its box that is.
LEMMA RectFillInWindow ==
  ASSUME NEW d, Windowed(d),
         NEW xa \in Int, NEW ya \in Int, NEW xb \in Int, NEW yb \in Int
  PROVE  InWindow(d, RectFill(d, xa, ya, xb, yb))
<1> DEFINE y0 == Clamp(Lesser(ya, yb), -1, 32767)
           y1 == Clamp(Greater(ya, yb), -32768, Side)
           off == IF xa > xb THEN xa < 0 \/ xb >= Side ELSE xb < 0 \/ xa >= Side
           spans == {xa} \X {xb} \X (y0 .. y1)
<1>1. RectFill(d, xa, ya, xb, yb) = IF off THEN {} ELSE HLines(d, spans)
  BY DEF RectFill
<1>2. y0 \in Int /\ y1 \in Int
  BY ShapesConstants DEF Clamp, Lesser, Greater
<1> HIDE DEF y0, y1
<1>3. spans \subseteq Int \X Int \X Int
  BY <1>2
<1> HIDE DEF spans, off
<1>4. InWindow(d, HLines(d, spans)) /\ InWindow(d, {})
  BY <1>3, HLinesInWindow DEF InWindow
<1> QED
  BY <1>1, <1>4

LEMMA RectFillIsABox ==
  ASSUME Side <= 255, NEW d, Windowed(d), OnScreen(d),
         NEW xa \in Int, NEW ya \in Int, NEW xb \in Int, NEW yb \in Int
  PROVE  RectFill(d, xa, ya, xb, yb) = Dots(d, Box(<<xa, ya, xb, yb>>))
<1> DEFINE lx == Lesser(xa, xb)  hx == Greater(xa, xb)
           ly == Lesser(ya, yb)  hy == Greater(ya, yb)
           y0 == Clamp(ly, -1, 32767)
           y1 == Clamp(hy, -32768, Side)
           off == IF xa > xb THEN xa < 0 \/ xb >= Side ELSE xb < 0 \/ xa >= Side
           box == Dots(d, (lx .. hx) \X (ly .. hy))
<1>1. RectFill(d, xa, ya, xb, yb) = IF off THEN {} ELSE HLines(d, {xa} \X {xb} \X (y0 .. y1))
  BY DEF RectFill
<1>2. Dots(d, Box(<<xa, ya, xb, yb>>)) = box
  BY DEF Box
<1>3. /\ lx \in Int /\ hx \in Int /\ ly \in Int /\ hy \in Int
      /\ off <=> hx < 0 \/ lx >= Side
  BY ShapesConstants DEF Lesser, Greater
<1>4. /\ d.clip.x1 \in Nat /\ d.clip.x2 \in Nat /\ d.clip.y1 \in Int /\ d.clip.y2 \in Int
      /\ d.clip.y1 >= 0 /\ d.clip.x2 <= Side /\ d.clip.y2 <= Side /\ Side \in Nat
  BY ShapesConstants DEF Windowed, OnScreen
<1>5. ASSUME off PROVE box = {}
  <2> SUFFICES ASSUME NEW p \in box PROVE FALSE
    OBVIOUS
  <2>1. p[1] \in lx .. hx /\ p[1] >= d.clip.x1 /\ p[1] < d.clip.x2
    <3> HIDE DEF lx, hx, ly, hy
    <3> QED
      BY DEF Dots, Within
  <2> HIDE DEF lx, hx, ly, hy, off, box
  <2> QED
    BY <1>3, <1>4, <1>5, <2>1
<1>6. \A y \in Int : y \in y0 .. y1 /\ y >= d.clip.y1 /\ y < d.clip.y2
                   <=> y \in ly .. hy /\ y >= d.clip.y1 /\ y < d.clip.y2
  <2> HIDE DEF ly, hy
  <2> QED
    BY <1>3, <1>4 DEF Clamp
<1>7. y0 \in Int /\ y1 \in Int
  <2> HIDE DEF ly, hy
  <2> QED
    BY <1>3, <1>4 DEF Clamp
<1> DEFINE rows == y0 .. y1
<1>8. \A y \in rows : y \in Int
  <2> HIDE DEF y0, y1
  <2> QED
    BY <1>7
<1>9. HLines(d, {xa} \X {xb} \X rows) = UNION {Dots(d, (lx .. hx) \X {y}) : y \in rows}
  <2>1. \A y \in rows : HLine(d, xa, xb, y) = Dots(d, (lx .. hx) \X {y})
    <3> HIDE DEF rows
    <3> TAKE y \in rows
    <3>1. y \in Int
      BY <1>8
    <3>2. d.clip.x1 \in Nat /\ d.clip.x2 \in Nat /\ d.clip.y1 \in Int /\ d.clip.y2 \in Int
      BY <1>4
    <3> QED
      BY <3>1, <3>2, RowIsARow
  <2> HIDE DEF rows, lx, hx
  <2>2. HLines(d, {xa} \X {xb} \X rows) = UNION {HLine(d, xa, xb, y) : y \in rows}
    <3> DEFINE spans == {xa} \X {xb} \X rows
    <3>1. \A s \in spans : s[1] = xa /\ s[2] = xb /\ s[3] \in rows
      OBVIOUS
    <3>2. \A y \in rows : <<xa, xb, y>> \in spans
      OBVIOUS
    <3>3. HLines(d, spans) = UNION {HLine(d, s[1], s[2], s[3]) : s \in spans}
      BY DEF HLines
    <3> HIDE DEF spans
    <3>4. \A p : (\E s \in spans : p \in HLine(d, s[1], s[2], s[3])) <=> \E y \in rows : p \in HLine(d, xa, xb, y)
      BY <3>1, <3>2
    <3>5. HLines(d, spans) = UNION {HLine(d, xa, xb, y) : y \in rows}
      BY <3>3, <3>4
    <3> QED
      BY <3>5 DEF spans
  <2> QED
    BY <2>1, <2>2
<1>10. UNION {Dots(d, (lx .. hx) \X {y}) : y \in rows} = box
  <2> DEFINE columns == lx .. hx
             all == ly .. hy
  <2>0. \A y \in all : y \in Int
    BY <1>3
  <2>1. \A p : p[2] \in Int /\ Within(d, p) => (p[2] \in rows <=> p[2] \in all)
    <3> HIDE DEF y0, y1, ly, hy
    <3> QED
      BY <1>6 DEF Within
  <2> HIDE DEF columns, rows, all
  <2>2. ASSUME NEW p \in Dots(d, columns \X all) PROVE p \in UNION {Dots(d, columns \X {y}) : y \in rows}
    <3>1. p \in columns \X all /\ Within(d, p) /\ p[2] \in rows
      BY <2>0, <2>1, <2>2 DEF Dots
    <3>2. p \in Dots(d, columns \X {p[2]})
      BY <3>1 DEF Dots
    <3> QED
      BY <3>1, <3>2
  <2>3. ASSUME NEW y \in rows, NEW p \in Dots(d, columns \X {y}) PROVE p \in Dots(d, columns \X all)
    <3>1. p \in columns \X {y} /\ Within(d, p) /\ p[2] = y /\ y \in Int
      BY <1>8, <2>3 DEF Dots
    <3>2. y \in all
      BY <2>1, <3>1
    <3>3. p \in columns \X all
      BY <3>1, <3>2
    <3> QED
      BY <3>1, <3>3 DEF Dots
  <2> DEFINE byRow == UNION {Dots(d, columns \X {y}) : y \in rows}
             atOnce == Dots(d, columns \X all)
  <2>4. byRow = atOnce
    <3>1. \A p \in atOnce : p \in byRow
      BY <2>2
    <3>2. \A p \in byRow : \E y \in rows : p \in Dots(d, columns \X {y})
      OBVIOUS
    <3>3. \A p \in byRow : p \in atOnce
      <4> HIDE DEF byRow
      <4> QED
        BY <2>3, <3>2
    <3> HIDE DEF byRow, atOnce
    <3> QED
      BY <3>1, <3>3
  <2> HIDE DEF lx, hx, ly, hy
  <2> QED
    BY <2>4 DEF columns, all
<1> QED
  <2> HIDE DEF rows, box, off
  <2>1. RectFill(d, xa, ya, xb, yb) = IF off THEN {} ELSE HLines(d, {xa} \X {xb} \X rows)
    BY <1>1 DEF rows
  <2> HIDE DEF lx, hx
  <2> QED
    BY <1>2, <1>5, <1>9, <1>10, <2>1

-----------------------------------------------------------------------------
(* Images.                                                                 *)

InImage(d, image) == \A p \in DOMAIN image : Within(d, p) /\ image[p] \in Colours

\* The sheet has colours, and 0 all around.
LEMMA TexelIsAColour ==
  ASSUME NEW s \in [Points -> Colours], NEW x, NEW y
  PROVE  Texel(s, x, y) \in Colours
  BY DEF Texel, Colours

\* An image has a colour of the palette at points of the window.
LEMMA ImageInWindow ==
  ASSUME NEW d, d.pal \in [Colours -> Colours], NEW source,
         \A p \in DOMAIN source : source[p] \in Colours
  PROVE  InImage(d, Image(d, source))
<1>1. ASSUME NEW p \in DOMAIN Image(d, source)
      PROVE  Within(d, p) /\ Image(d, source)[p] \in Colours
  <2>1. p \in Dots(d, DOMAIN source) /\ Image(d, source)[p] = d.pal[source[p]]
    BY <1>1 DEF Image
  <2>2. p \in DOMAIN source /\ Within(d, p)
    BY <2>1 DEF Dots
  <2> QED
    BY <2>1, <2>2
<1> QED
  BY <1>1 DEF InImage

\* So have a sprite, a stretched one and a map.
LEMMA SpritesInWindow ==
  ASSUME NEW d, d.pal \in [Colours -> Colours], NEW s \in [Points -> Colours]
  PROVE  /\ \A n, x, y, w, h, flipX, flipY : InImage(d, Spr(d, s, n, x, y, w, h, flipX, flipY))
         /\ \A sx, sy, sw, sh, xa, ya, wa, ha, flipX, flipY :
               InImage(d, Sspr(d, s, sx, sy, sw, sh, xa, ya, wa, ha, flipX, flipY))
         /\ \A cl, fl, cx, cy, xa, ya, cw, ch, layer : InImage(d, Map(d, s, cl, fl, cx, cy, xa, ya, cw, ch, layer))
<1>1. InImage(d, << >>)
  BY DEF InImage
<1>2. ASSUME NEW n, NEW x, NEW y, NEW w, NEW h, NEW flipX, NEW flipY
      PROVE  InImage(d, Spr(d, s, n, x, y, w, h, flipX, flipY))
  BY <1>1, ImageInWindow, TexelIsAColour DEF Spr
<1>3. ASSUME NEW sx, NEW sy, NEW sw, NEW sh, NEW xa, NEW ya, NEW wa, NEW ha, NEW flipX, NEW flipY
      PROVE  InImage(d, Sspr(d, s, sx, sy, sw, sh, xa, ya, wa, ha, flipX, flipY))
  BY <1>1, ImageInWindow, TexelIsAColour DEF Sspr
<1>4. ASSUME NEW cl, NEW fl, NEW cx, NEW cy, NEW xa, NEW ya, NEW cw, NEW ch, NEW layer
      PROVE  InImage(d, Map(d, s, cl, fl, cx, cy, xa, ya, cw, ch, layer))
  <2> DEFINE mx == Greater(-xa, 0)
             my == Greater(-ya, 0)
             x == xa + mx
             y == ya + my
             sx == cx * Tile + mx
             sy == cy * Tile + my
             w == cw * Tile - mx - Greater(cw * Tile + xa - Side, 0)
             h == ch * Tile - my - Greater(ch * Tile + ya - Side, 0)
             atX(p) == sx + p[1] - x
             atY(p) == sy + p[2] - y
             cell(p) == <<Quotient(atX(p), Tile), Quotient(atY(p), Tile)>>
             seen(p) ==
                 /\ atX(p) >= 0 /\ atX(p) < MapSide * Tile
                 /\ atY(p) >= 0 /\ atY(p) < MapSide * Tile
                 /\ layer = {} \/ fl[cl[cell(p)]] \cap layer # {}
                 /\ cl[cell(p)] # 0 \/ d.spriteZero
             texel(p) == Texel(s, (cl[cell(p)] % PerRow) * Tile + (atX(p) % Tile),
                                  (cl[cell(p)] \div PerRow) * Tile + (atY(p) % Tile))
             source == [p \in {q \in (x .. x + w - 1) \X (y .. y + h - 1) : seen(q)} |-> texel(p)]
  <2>1. Map(d, s, cl, fl, cx, cy, xa, ya, cw, ch, layer) = IF h <= 0 \/ w <= 0 THEN << >> ELSE Image(d, source)
    BY DEF Map
  <2>2. \A p \in DOMAIN source : source[p] \in Colours
    BY TexelIsAColour
  <2> HIDE DEF source, w, h
  <2>3. InImage(d, Image(d, source))
    BY <2>2, ImageInWindow
  <2> QED
    BY <1>1, <2>1, <2>3
<1> QED
  BY <1>2, <1>3, <1>4

-----------------------------------------------------------------------------
(* The draw state.                                                         *)

Windows4 == [x1 : 0 .. 255, y1 : 0 .. 255, x2 : 0 .. 255, y2 : 0 .. 255]
Shorts == {n \in Int : n + 32768 >= 0 /\ n < 32768}
DrawState ==
    [pen : 0 .. 255, pal : [Colours -> Colours], clear : [Colours -> BOOLEAN],
     fill : FillPattern, trans : BOOLEAN, clip : Windows4,
     camera : [x : Int, y : Int], poly : [x : Int, y : Int], bootstrap : BOOLEAN,
     fillpFlag : BOOLEAN, spriteZero : BOOLEAN, writes : Colours, shows : Colours]

\* Two states that draw in the same places and planes.
Alike(d, e) == d.clip = e.clip /\ d.writes = e.writes /\ d.shows = e.shows

LEMMA WindowedState == ASSUME NEW d \in DrawState PROVE Windowed(d)
<1>1. d.clip \in Windows4
  BY DEF DrawState
<1> QED
  BY <1>1 DEF Windows4, Windowed

\* One field of the state at a time.
LEMMA WithPen == ASSUME NEW d \in DrawState, NEW v \in 0 .. 255
                 PROVE  [d EXCEPT !.pen = v] \in DrawState /\ Alike([d EXCEPT !.pen = v], d)
  BY DEF DrawState, Alike

LEMMA WithFill == ASSUME NEW d \in DrawState, NEW v \in FillPattern
                  PROVE  [d EXCEPT !.fill = v] \in DrawState /\ Alike([d EXCEPT !.fill = v], d)
  BY DEF DrawState, Alike

LEMMA WithTrans == ASSUME NEW d \in DrawState, NEW v \in BOOLEAN
                   PROVE  [d EXCEPT !.trans = v] \in DrawState /\ Alike([d EXCEPT !.trans = v], d)
  BY DEF DrawState, Alike

LEMMA WithPal == ASSUME NEW d \in DrawState, NEW v \in [Colours -> Colours]
                 PROVE  [d EXCEPT !.pal = v] \in DrawState
  BY DEF DrawState

LEMMA WithClear == ASSUME NEW d \in DrawState, NEW v \in [Colours -> BOOLEAN]
                   PROVE  [d EXCEPT !.clear = v] \in DrawState
  BY DEF DrawState

LEMMA WithClip == ASSUME NEW d \in DrawState, NEW v \in Windows4
                  PROVE  [d EXCEPT !.clip = v] \in DrawState
  BY DEF DrawState

LEMMA WithCamera == ASSUME NEW d \in DrawState, NEW v \in [x : Int, y : Int]
                    PROVE  [d EXCEPT !.camera = v] \in DrawState
  BY DEF DrawState

LEMMA WithPoly == ASSUME NEW d \in DrawState, NEW v \in [x : Int, y : Int]
                  PROVE  [d EXCEPT !.poly = v] \in DrawState
  BY DEF DrawState

LEMMA WithBootstrap == ASSUME NEW d \in DrawState, NEW v \in BOOLEAN
                       PROVE  [d EXCEPT !.bootstrap = v] \in DrawState
  BY DEF DrawState

\* The fill pattern a colour brings, and the pen.
LEMMA WithFillPattern ==
  ASSUME NEW d \in DrawState, NEW f \in FillPattern, NEW t \in BOOLEAN
  PROVE  LET e == [d EXCEPT !.fill = f, !.trans = t] IN e \in DrawState /\ Alike(e, d)
<1> DEFINE a == [d EXCEPT !.fill = f]
           e == [a EXCEPT !.trans = t]
<1>1. a \in DrawState /\ Alike(a, d)
  BY WithFill
<1>2. e \in DrawState /\ Alike(e, a)
  <2> HIDE DEF a
  <2> QED
    BY <1>1, WithTrans
<1>3. [d EXCEPT !.fill = f, !.trans = t] = e
  OBVIOUS
<1> HIDE DEF a, e
<1> QED
  BY <1>1, <1>2, <1>3 DEF Alike

\* A call with a colour leaves a draw state that draws in the same places.
LEMMA PenKeeps ==
  ASSUME NEW d \in DrawState, NEW c \in Inks
  PROVE  Pen(d, c) \in DrawState /\ Alike(Pen(d, c), d)
<1>1. CASE c = NoArg
  BY <1>1 DEF Pen, Alike
<1>2. CASE c # NoArg
  <2>1. c.pen \in 0 .. 255 /\ c.fill \in FillPattern /\ c.trans \in BOOLEAN
    BY <1>2, DrawingConstants
  <2> DEFINE a == [d EXCEPT !.pen = c.pen]
             b == [a EXCEPT !.fill = c.fill, !.trans = c.trans]
  <2>2. a \in DrawState /\ Alike(a, d)
    BY <2>1, WithPen
  <2>3. b \in DrawState /\ Alike(b, a)
    <3> HIDE DEF a
    <3> QED
      BY <2>1, <2>2, WithFillPattern
  <2>4. [d EXCEPT !.pen = c.pen, !.fill = c.fill, !.trans = c.trans] = b
    OBVIOUS
  <2>5. Pen(d, c) = a \/ Pen(d, c) = b
    BY <1>2, <2>4 DEF Pen
  <2> HIDE DEF a, b
  <2> QED
    BY <2>2, <2>3, <2>5 DEF Alike
<1> QED
  BY <1>1, <1>2

\* What a call may do to the screen.
Kept(d, old, new) ==
    /\ new \in [Points -> Colours]
    /\ \A p \in Points : new[p] # old[p] =>
          /\ Reached(d, p)
          /\ \/ d.writes = 0 /\ d.shows = 0
             \/ Planes(new[p], 15 - d.writes) = Planes(old[p], 15 - d.writes)

\* A point that is drawn keeps the planes that are not written.
LEMMA ShadeKeeps ==
  ASSUME NEW d \in DrawState, NEW bits, bits.on \in Colours, bits.off \in Colours,
         NEW old \in Colours, NEW p
  PROVE  /\ Shade(d, bits, old, p) \in Colours
         /\ \/ d.writes = 0 /\ d.shows = 0
            \/ Planes(Shade(d, bits, old, p), 15 - d.writes) = Planes(old, 15 - d.writes)
<1> DEFINE hit == <<p[1] % 4, p[2] % 4>> \in bits.fill
           colour == IF hit THEN bits.off ELSE bits.on
           mixed == Planes(old, 15 - d.writes) + Planes(Planes(colour, d.writes), d.shows)
<1>1. colour \in Colours /\ d.writes \in Colours /\ d.shows \in Colours
  BY DEF DrawState
<1>2. Shade(d, bits, old, p) = IF hit /\ bits.trans THEN old
                               ELSE IF d.writes = 0 /\ d.shows = 0 THEN colour ELSE mixed
  BY DEF Shade
<1> HIDE DEF hit, colour
<1>3. mixed \in Colours /\ Planes(mixed, 15 - d.writes) = Planes(old, 15 - d.writes)
  <2> DEFINE w == d.writes  s == d.shows
  <2>1. w \in Colours /\ s \in Colours
    BY <1>1
  <2> HIDE DEF w, s
  <2>2. LET new == Planes(old, 15 - w) + Planes(Planes(colour, w), s)
        IN  new \in Colours /\ Planes(new, 15 - w) = Planes(old, 15 - w)
    BY <1>1, <2>1, PlanesStand
  <2> QED
    BY <2>2 DEF w, s
<1> HIDE DEF mixed
<1> QED
  BY <1>1, <1>2, <1>3

\* The point that a point of the screen is drawn as.
LEMMA DrawnIs ==
  ASSUME NEW d \in DrawState, NEW pts, InWindow(d, pts), NEW q \in Points, Drawn(d, pts, q) # {}
  PROVE  Name(q, Min(Drawn(d, pts, q))) \in pts /\ Reached(d, q)
<1> DEFINE ks == Drawn(d, pts, q)
           most == Lesser(q[2], (d.clip.x2 - 1) \div Side)
<1>1. /\ q[1] \in Int /\ q[2] \in Int /\ q[1] >= 0 /\ Side \in Nat \ {0}
      /\ d.clip.x2 \in Int /\ d.clip.y2 \in Int
  BY ShapesConstants, WindowedState DEF Points, Windowed
<1>2. (d.clip.x2 - 1) \div Side \in Int
  BY <1>1
<1>3. most \in Int /\ most <= q[2]
  BY <1>1, <1>2 DEF Lesser
<1>4. \A k \in ks : k \in 0 .. most /\ Name(q, k) \in pts
  BY DEF Drawn
<1>5. Min(ks) \in ks
  <2> HIDE DEF ks, most
  <2>1. ks \subseteq 0 .. most
    BY <1>4
  <2>2. IsFiniteSet(ks)
    <3>1. IsFiniteSet(0 .. most)
      BY <1>3, FS_Interval
    <3> QED
      BY <2>1, <3>1, FS_Subset
  <2>3. ks \in SUBSET Int /\ ks # {}
    BY <1>3, <2>1 DEF ks
  <2> QED
    BY <2>2, <2>3, MinIsIn
<1> HIDE DEF ks, most
<1>6. PICK k \in 0 .. most : k = Min(ks) /\ Name(q, k) \in pts
  BY <1>4, <1>5
<1>7. Within(d, Name(q, k)) /\ k \in Nat /\ k <= q[2]
  <2>1. Within(d, Name(q, k))
    BY <1>6 DEF InWindow
  <2> QED
    BY <1>1, <1>3, <2>1
<1>8. CASE k = 0
  <2>1. Name(q, 0)[1] = q[1] /\ Name(q, 0)[2] = q[2]
    BY <1>1 DEF Name
  <2>2. Within(d, q)
    BY <1>7, <1>8, <2>1 DEF Within
  <2> QED
    BY <1>6, <2>2 DEF Reached, ks
<1>9. CASE k # 0
  <2>1. q[1] + k * Side < d.clip.x2
    BY <1>7 DEF Within, Name
  <2>2. k * Side >= Side
    BY <1>1, <1>7, <1>9
  <2>3. ~OnScreen(d)
    <3> DEFINE far == k * Side
    <3>1. far \in Int
      BY <1>1, <1>7
    <3> HIDE DEF far
    <3> QED
      BY <1>1, <2>1, <2>2, <3>1 DEF OnScreen, far
  <2>4. k \in 1 .. q[2]
    BY <1>1, <1>7, <1>9
  <2> QED
    BY <1>6, <1>7, <2>3, <2>4 DEF Reached, ks
<1> QED
  BY <1>8, <1>9

\* A shape changes points of the window, and those its rows run over into, only.
LEMMA PaintKeeps ==
  ASSUME NEW d \in DrawState, NEW old \in [Points -> Colours], NEW pts, InWindow(d, pts)
  PROVE  Kept(d, old, Paint(old, d, pts, RawToBits(d, d.pen)))
<1> DEFINE bits == RawToBits(d, d.pen)
           new == Paint(old, d, pts, bits)
<1>1. bits.on \in Colours /\ bits.off \in Colours
  <2>1. d.pen \in 0 .. 255 /\ d.pal \in [Colours -> Colours]
    BY DEF DrawState
  <2>2. d.pen % 16 \in Colours /\ d.pen \div 16 \in Colours
    BY <2>1 DEF Colours
  <2> QED
    BY <2>1, <2>2 DEF RawToBits
<1> HIDE DEF bits
<1>2. new = [p \in Points |->
                LET ks == Drawn(d, pts, p)
                IN  IF ks = {} THEN old[p] ELSE Shade(d, bits, old[p], Name(p, Min(ks)))]
  BY DEF Paint
<1>3. ASSUME NEW p \in Points
      PROVE  /\ new[p] \in Colours
             /\ new[p] # old[p] => /\ Reached(d, p)
                                   /\ \/ d.writes = 0 /\ d.shows = 0
                                      \/ Planes(new[p], 15 - d.writes) = Planes(old[p], 15 - d.writes)
  <2>1. old[p] \in Colours
    OBVIOUS
  <2>2. CASE Drawn(d, pts, p) # {}
    <3> DEFINE q == Name(p, Min(Drawn(d, pts, p)))
    <3>1. new[p] = Shade(d, bits, old[p], q) /\ Reached(d, p)
      BY <1>2, <2>2, DrawnIs
    <3> HIDE DEF new, q
    <3> QED
      BY <1>1, <2>1, <3>1, ShadeKeeps
  <2>3. CASE Drawn(d, pts, p) = {}
    <3>1. new[p] = old[p]
      BY <1>2, <2>3
    <3> QED
      BY <2>1, <3>1
  <2> QED
    BY <2>2, <2>3
<1>4. new \in [Points -> Colours]
  <2>1. new = [p \in Points |-> new[p]]
    BY <1>2
  <2> HIDE DEF new
  <2> QED
    BY <1>3, <2>1
<1> QED
  <2> HIDE DEF new
  <2>1. Kept(d, old, new)
    BY <1>3, <1>4 DEF Kept
  <2> QED
    BY <2>1 DEF new, bits

\* So does an image.
LEMMA BlitKeeps ==
  ASSUME NEW d \in DrawState, NEW old \in [Points -> Colours], NEW image, InImage(d, image)
  PROVE  Kept(d, old, Blit(old, d, image))
<1> DEFINE new == Blit(old, d, image)
<1>1. new = [p \in Points |->
                LET ks == Drawn(d, DOMAIN image, p)
                IN  IF ks = {} THEN old[p]
                    ELSE Shade(d, Plain(image[Name(p, Min(ks))]), old[p], Name(p, Min(ks)))]
  BY DEF Blit
<1>2. ASSUME NEW p \in Points
      PROVE  /\ new[p] \in Colours
             /\ new[p] # old[p] => /\ Reached(d, p)
                                   /\ \/ d.writes = 0 /\ d.shows = 0
                                      \/ Planes(new[p], 15 - d.writes) = Planes(old[p], 15 - d.writes)
  <2>1. old[p] \in Colours
    OBVIOUS
  <2>2. CASE Drawn(d, DOMAIN image, p) # {}
    <3> DEFINE q == Name(p, Min(Drawn(d, DOMAIN image, p)))
               bits == Plain(image[q])
    <3>1. q \in DOMAIN image /\ Reached(d, p)
      BY <2>2, DrawnIs DEF InImage, InWindow
    <3>2. image[q] \in Colours
      BY <3>1 DEF InImage
    <3>3. bits.on \in Colours /\ bits.off \in Colours
      BY <3>2 DEF Plain, Colours
    <3>4. new[p] = Shade(d, bits, old[p], q)
      BY <1>1, <2>2
    <3> HIDE DEF new, bits, q
    <3> QED
      BY <2>1, <3>1, <3>3, <3>4, ShadeKeeps
  <2>3. CASE Drawn(d, DOMAIN image, p) = {}
    <3>1. new[p] = old[p]
      BY <1>1, <2>3
    <3> QED
      BY <2>1, <3>1
  <2> QED
    BY <2>2, <2>3
<1>3. new \in [Points -> Colours]
  <2>1. new = [p \in Points |-> new[p]]
    BY <1>1
  <2> HIDE DEF new
  <2> QED
    BY <1>2, <2>1
<1> QED
  <2> HIDE DEF new
  <2>1. Kept(d, old, new)
    BY <1>2, <1>3 DEF Kept
  <2> QED
    BY <2>1 DEF new

-----------------------------------------------------------------------------
(* The calls.                                                              *)

Pictures ==
    /\ screen \in [Points -> Colours] /\ sheet \in [Points -> Colours]
    /\ ds \in DrawState

LastCall ==
    /\ last.call \in {"rect", "rectfill", "line"} => last.args \in Shorts \X Shorts \X Shorts \X Shorts
    /\ last.call = "spr" => last.args \in SpriteCalls

DrawingInv == Pictures /\ LastCall

\* Coordinates are 16-bit numbers once the camera is taken off.
LEMMA ShortsAreShort == ASSUME NEW n \in Int PROVE Short(n) \in Shorts
<1> DEFINE m == (n + 32768) % 65536
<1>1. m \in Int /\ m >= 0 /\ m < 65536
  OBVIOUS
<1>2. Short(n) = m - 32768
  BY DEF Short
<1> HIDE DEF m
<1> QED
  BY <1>1, <1>2 DEF Shorts

LEMMA CamerasAreShort ==
  ASSUME Pictures, NEW n \in Int
  PROVE  CamX(n) \in Shorts /\ CamY(n) \in Shorts /\ CamX(n) \in Int /\ CamY(n) \in Int
<1>1. ds.camera.x \in Int /\ ds.camera.y \in Int
  BY DEF Pictures, DrawState
<1>2. n - ds.camera.x \in Int /\ n - ds.camera.y \in Int
  BY <1>1
<1>3. CamX(n) \in Shorts /\ CamY(n) \in Shorts
  BY <1>2, ShortsAreShort DEF CamX, CamY
<1>4. \A k \in Shorts : k \in Int
  BY DEF Shorts
<1> QED
  BY <1>3, <1>4

\* Calls that set something.
LEMMA ClipsAreWindows ==
  ASSUME Pictures, NEW w \in Windows, NEW i \in BOOLEAN, Clip(w, i)
  PROVE  ds' \in DrawState
<1> DEFINE old == IF i THEN ds.clip ELSE WholeScreen
           n == Short(w[1] + Greater(w[3], 0))
           m == Short(w[2] + Greater(w[4], 0))
           new == [x1 |-> Byte(Greater(old.x1, w[1])), y1 |-> Byte(Greater(old.y1, w[2])),
                   x2 |-> Byte(Lesser(old.x2, n)), y2 |-> Byte(Lesser(old.y2, m))]
<1>1. old.x1 \in Int /\ old.y1 \in Int /\ old.x2 \in Int /\ old.y2 \in Int
  <2>1. WholeScreen.x1 \in Int /\ WholeScreen.y1 \in Int /\ WholeScreen.x2 \in Int /\ WholeScreen.y2 \in Int
    BY ShapesConstants DEF WholeScreen
  <2>2. ds.clip.x1 \in Int /\ ds.clip.y1 \in Int /\ ds.clip.x2 \in Int /\ ds.clip.y2 \in Int
    BY WindowedState DEF Windowed, Pictures
  <2> QED
    BY <2>1, <2>2
<1>2. w[1] \in Int /\ w[2] \in Int /\ w[3] \in Int /\ w[4] \in Int
  BY DrawingConstants
<1>3. n \in Int /\ m \in Int
  <2>1. w[1] + Greater(w[3], 0) \in Int /\ w[2] + Greater(w[4], 0) \in Int
    BY <1>2 DEF Greater
  <2> QED
    BY <2>1, ShortsAreShort DEF Shorts
<1> HIDE DEF old, n, m
<1>4. \A k \in Int : Byte(k) \in 0 .. 255
  BY DEF Byte
<1>5. /\ Greater(old.x1, w[1]) \in Int /\ Greater(old.y1, w[2]) \in Int
      /\ Lesser(old.x2, n) \in Int /\ Lesser(old.y2, m) \in Int
  BY <1>1, <1>2, <1>3 DEF Greater, Lesser
<1>6. new \in Windows4
  BY <1>4, <1>5 DEF Windows4
<1>7. ds' = [ds EXCEPT !.clip = new]
  BY DEF Clip, old, n, m
<1> HIDE DEF new
<1> QED
  BY <1>6, <1>7, WithClip DEF Pictures

SettingKeeps == Pictures' /\ last'.call = "setting"

LEMMA WholeScreenIsAWindow == WholeScreen \in Windows4
  BY ShapesConstants, DrawingConstants DEF WholeScreen, Windows4

\* Calls that set: the window and the camera, the colours, the sheet, map and flags.
LEMMA ClipSettings ==
  ASSUME Pictures,
         ClipReset \/ (\E w \in Windows, i \in BOOLEAN : Clip(w, i)) \/ Cls(3)
  PROVE  SettingKeeps
<1>1. CASE ClipReset
  BY <1>1, WholeScreenIsAWindow, WithClip DEF ClipReset, Setting, SettingKeeps, Pictures
<1>2. CASE \E w \in Windows, i \in BOOLEAN : Clip(w, i)
  <2>1. PICK w \in Windows, i \in BOOLEAN : Clip(w, i)
    BY <1>2
  <2>2. ds' \in DrawState
    BY <2>1, ClipsAreWindows
  <2>3. last' = [call |-> "setting"] /\ UNCHANGED <<screen, sheet>>
    BY <2>1 DEF Clip, Setting
  <2> QED
    BY <2>2, <2>3 DEF SettingKeeps, Pictures
<1>3. CASE Cls(3)
  <2>1. ds' \in DrawState
    BY <1>3, WholeScreenIsAWindow, WithClip DEF Cls, Pictures
  <2>2. screen' \in [Points -> Colours]
    <3>1. 3 % 16 \in Colours
      BY DEF Colours
    <3> QED
      BY <1>3, <3>1 DEF Cls
  <2> QED
    BY <1>3, <2>1, <2>2 DEF Cls, Setting, SettingKeeps, Pictures
<1> QED
  BY <1>1, <1>2, <1>3

LEMMA ColourSettings ==
  ASSUME Pictures,
         \/ PalReset
         \/ \E c \in {0, 1} : Pal(c, 1) \/ PaltSet({c}) \/ \E on \in BOOLEAN : Palt(c, on)
         \/ \E c \in Inks : Color(c) \/ LineReset(c)
         \/ \E f \in FillPatterns : Fillp(f)
         \/ \E c \in Cameras : Camera(c)
  PROVE  SettingKeeps
<1> DEFINE plain == [c \in Colours |-> c]
           black == [c \in Colours |-> c = 0]
<1>0. plain \in [Colours -> Colours] /\ black \in [Colours -> BOOLEAN]
  OBVIOUS
<1> DEFINE Still == last' = [call |-> "setting"] /\ screen' = screen /\ sheet' = sheet
<1>s. Still
  <2>1. CASE PalReset
    BY <2>1 DEF PalReset, Setting
  <2>2. CASE \E c \in {0, 1} : Pal(c, 1) \/ PaltSet({c}) \/ \E on \in BOOLEAN : Palt(c, on)
    BY <2>2 DEF Pal, PaltSet, Palt, Setting
  <2>3. CASE \E c \in Inks : Color(c) \/ LineReset(c)
    BY <2>3 DEF Color, LineReset, Setting
  <2>4. CASE \E f \in FillPatterns : Fillp(f)
    BY <2>4 DEF Fillp, Setting
  <2>5. CASE \E c \in Cameras : Camera(c)
    BY <2>5 DEF Camera, Setting
  <2> QED
    BY <2>1, <2>2, <2>3, <2>4, <2>5
<1> SUFFICES ds' \in DrawState
  BY <1>s DEF SettingKeeps, Pictures
<1>1. CASE PalReset
  <2> DEFINE a == [ds EXCEPT !.pal = plain]
             b == [a EXCEPT !.clear = black]
             e == [b EXCEPT !.fill = {}, !.trans = FALSE]
  <2>1. ds' = e
    BY <1>1 DEF PalReset
  <2>2. a \in DrawState
    BY <1>0, WithPal DEF Pictures
  <2>3. b \in DrawState
    <3> HIDE DEF a
    <3> QED
      BY <1>0, <2>2, WithClear
  <2>4. e \in DrawState
    <3>1. {} \in FillPattern
      BY DEF FillPattern
    <3> HIDE DEF b
    <3> QED
      BY <2>3, <3>1, WithFillPattern
  <2> QED
    BY <2>1, <2>4
<1>2. ASSUME NEW c \in {0, 1}, Pal(c, 1) PROVE ds' \in DrawState
  <2> DEFINE v == [ds.pal EXCEPT ![c % 16] = 1 % 16]
  <2>1. ds' = [ds EXCEPT !.pal = v]
    BY <1>2 DEF Pal
  <2>2. ds.pal \in [Colours -> Colours]
    BY DEF Pictures, DrawState
  <2>3. v \in [Colours -> Colours]
    <3>1. 1 % 16 \in Colours
      BY DEF Colours
    <3> QED
      BY <2>2, <3>1
  <2> HIDE DEF v
  <2> QED
    BY <2>1, <2>3, WithPal DEF Pictures
<1>3. ASSUME NEW c \in {0, 1}, PaltSet({c}) PROVE ds' \in DrawState
  <2> DEFINE v == [e \in Colours |-> e \in {c}]
  <2>1. ds' = [ds EXCEPT !.clear = v]
    BY <1>3 DEF PaltSet
  <2>2. v \in [Colours -> BOOLEAN]
    OBVIOUS
  <2> HIDE DEF v
  <2> QED
    BY <2>1, <2>2, WithClear DEF Pictures
<1>4. ASSUME NEW c \in {0, 1}, NEW on \in BOOLEAN, Palt(c, on) PROVE ds' \in DrawState
  <2> DEFINE v == [ds.clear EXCEPT ![c % 16] = on]
  <2>1. ds' = [ds EXCEPT !.clear = v]
    BY <1>4 DEF Palt
  <2>2. ds.clear \in [Colours -> BOOLEAN]
    BY DEF Pictures, DrawState
  <2>3. v \in [Colours -> BOOLEAN]
    BY <2>2
  <2> HIDE DEF v
  <2> QED
    BY <2>1, <2>3, WithClear DEF Pictures
<1>5. ASSUME NEW c \in Inks, Color(c) PROVE ds' \in DrawState
  <2>1. ds' = IF c = NoArg THEN [ds EXCEPT !.pen = 6] ELSE Pen(ds, c)
    BY <1>5 DEF Color
  <2>2. [ds EXCEPT !.pen = 6] \in DrawState
    <3>1. 6 \in 0 .. 255
      OBVIOUS
    <3> QED
      BY <3>1, WithPen DEF Pictures
  <2>3. Pen(ds, c) \in DrawState
    BY PenKeeps DEF Pictures
  <2> QED
    BY <2>1, <2>2, <2>3
<1>6. ASSUME NEW c \in Inks, LineReset(c) PROVE ds' \in DrawState
  <2>1. Pen(ds, c) \in DrawState
    BY PenKeeps DEF Pictures
  <2> QED
    BY <1>6, <2>1, WithBootstrap DEF LineReset
<1>7. ASSUME NEW f \in FillPatterns, Fillp(f) PROVE ds' \in DrawState
  <2>1. f.fill \in FillPattern /\ f.trans \in BOOLEAN
    BY DrawingConstants
  <2>2. ds' = [ds EXCEPT !.fill = f.fill, !.trans = f.trans]
    BY <1>7 DEF Fillp
  <2> QED
    BY <2>1, <2>2, WithFillPattern DEF Pictures
<1>8. ASSUME NEW c \in Cameras, Camera(c) PROVE ds' \in DrawState
  <2>1. c \in [x : Int, y : Int]
    BY DrawingConstants
  <2> QED
    BY <1>8, <2>1, WithCamera DEF Camera, Pictures
<1> QED
  BY <1>1, <1>2, <1>3, <1>4, <1>5, <1>6, <1>7, <1>8

LEMMA SheetSettings ==
  ASSUME Pictures,
         \/ \E f \in Layers : FsetAll(1, {f}) \/ \E on \in BOOLEAN : Fset(1, f, on)
         \/ \E x \in {0, MapSide} : Mset(x, 0, 1)
         \/ \E x \in {0, Side}, c \in {2, NoArg} : Sset(x, 0, c)
  PROVE  SettingKeeps
<1>1. ASSUME NEW f, FsetAll(1, {f}) PROVE SettingKeeps
  BY <1>1 DEF FsetAll, Setting, SettingKeeps, Pictures
<1>2. ASSUME NEW f, NEW on, Fset(1, f, on) PROVE SettingKeeps
  BY <1>2 DEF Fset, Setting, SettingKeeps, Pictures
<1>3. ASSUME NEW x, Mset(x, 0, 1) PROVE SettingKeeps
  BY <1>3 DEF Mset, Setting, SettingKeeps, Pictures
<1>4. ASSUME NEW x, NEW c \in {2, NoArg}, Sset(x, 0, c) PROVE SettingKeeps
  <2> DEFINE pen == IF c = NoArg THEN ds.pen ELSE c
             v == ds.pal[pen % 16]
  <2>1. ds.pen \in 0 .. 255 /\ ds.pal \in [Colours -> Colours]
    BY DEF Pictures, DrawState
  <2>2. pen \in Nat
    BY <2>1
  <2>3. pen % 16 \in Colours
    <3> HIDE DEF pen
    <3> QED
      BY <2>2 DEF Colours
  <2>4. v \in Colours
    BY <2>1, <2>3
  <2>5. sheet' = IF <<x, 0>> \in Points THEN [sheet EXCEPT ![<<x, 0>>] = v] ELSE sheet
    BY <1>4 DEF Sset
  <2> HIDE DEF v
  <2>6. sheet' \in [Points -> Colours]
    BY <2>4, <2>5 DEF Pictures
  <2> QED
    BY <1>4, <2>6 DEF Sset, Setting, SettingKeeps, Pictures
<1> QED
  BY <1>1, <1>2, <1>3, <1>4

\* Calls that draw.
DrawKeeps == ds' \in DrawState /\ sheet' = sheet /\ Kept(ds, screen, screen')

\* What is kept in one state is kept in one that draws in the same places.
LEMMA KeptAlike ==
  ASSUME NEW d, NEW e, Alike(d, e), NEW old, NEW new, Kept(d, old, new)
  PROVE  Kept(e, old, new)
  BY DEF Alike, Kept, Reached, OnScreen, Within

LEMMA NothingKeeps == ASSUME Pictures PROVE Kept(ds, screen, screen)
  BY DEF Pictures, Kept

\* Calls that draw, each in turn.
LEMMA FillKeeps ==
  ASSUME Pictures, NEW d \in DrawState, Alike(d, ds), NEW pts, InWindow(d, pts), sheet' = sheet,
         \/ ds' = ds /\ screen' = screen
         \/ ds' = d /\ screen' = Paint(screen, d, pts, RawToBits(d, d.pen))
  PROVE  DrawKeeps
<1>1. CASE ds' = ds /\ screen' = screen
  BY <1>1, NothingKeeps DEF DrawKeeps, Pictures
<1>2. CASE ds' = d /\ screen' = Paint(screen, d, pts, RawToBits(d, d.pen))
  <2>1. Kept(d, screen, screen')
    BY <1>2, PaintKeeps DEF Pictures
  <2> QED
    BY <1>2, <2>1, KeptAlike DEF DrawKeeps
<1> QED
  BY <1>1, <1>2

LEMMA PsetKeeps ==
  ASSUME Pictures, NEW p, NEW c \in Inks, CallPset(p, c)
  PROVE  DrawKeeps /\ last'.call = "pset"
<1> DEFINE q == <<CamX(p[1]), CamY(p[2])>>
           d == Pen(ds, c)
           pts == Dots(d, {q})
<1>1. Draw("pset", q) /\ Fill(FALSE, d, pts)
  BY DEF CallPset
<1>2. d \in DrawState /\ Alike(d, ds)
  BY PenKeeps DEF Pictures
<1>3. InWindow(d, pts)
  BY DotsInWindow
<1>4. ds' = d /\ screen' = Paint(screen, d, pts, RawToBits(d, d.pen)) /\ sheet' = sheet /\ last'.call = "pset"
  BY <1>1 DEF Fill, Ink, Draw
<1> HIDE DEF d, pts
<1> QED
  BY <1>2, <1>3, <1>4, FillKeeps

LEMMA LineFromKeeps ==
  ASSUME Pictures, NEW x0 \in Int, NEW y0 \in Int, NEW x1 \in Int, NEW y1 \in Int,
         NEW c \in Inks, LineFrom(x0, y0, x1, y1, c)
  PROVE  /\ DrawKeeps
         /\ last'.call \in {"none", "line"}
         /\ last'.args \in Shorts \X Shorts \X Shorts \X Shorts
<1> DEFINE d == Pen(ds, c)
           a == <<CamX(x0), CamY(y0), CamX(x1), CamY(y1)>>
           end == [x |-> x1, y |-> y1]
           pts == Line(d, a[1], a[2], a[3], a[4])
           e == [d EXCEPT !.poly = end]
           f == [e EXCEPT !.bootstrap = FALSE]
<1>1. /\ last' = [call |-> IF ds.bootstrap THEN "none" ELSE "line", args |-> a] /\ sheet' = sheet
      /\ ds' = f
      /\ screen' = screen \/ screen' = Paint(screen, d, pts, RawToBits(d, d.pen))
  BY DEF LineFrom, Ink, Draw
<1>2. d \in DrawState /\ Alike(d, ds)
  BY PenKeeps DEF Pictures
<1>3. InWindow(d, pts)
  BY LineInWindow
<1>4. f \in DrawState
  <2> HIDE DEF d
  <2>1. e \in DrawState
    BY <1>2, WithPoly
  <2> HIDE DEF e
  <2> QED
    BY <2>1, WithBootstrap
<1>5. a \in Shorts \X Shorts \X Shorts \X Shorts
  BY CamerasAreShort
<1>6. Kept(ds, screen, screen')
  <2> HIDE DEF d, pts
  <2>1. Kept(d, screen, Paint(screen, d, pts, RawToBits(d, d.pen)))
    BY <1>2, <1>3, PaintKeeps DEF Pictures
  <2> QED
    BY <1>1, <1>2, <2>1, KeptAlike, NothingKeeps
<1> HIDE DEF f, a
<1> QED
  BY <1>1, <1>4, <1>5, <1>6 DEF DrawKeeps

LEMMA CircKeeps ==
  ASSUME Pictures,
         NEW p \in Spots, NEW r \in Radii, NEW c \in Inks, NEW f \in BOOLEAN, CallCirc(p, r, c, f)
  PROVE  DrawKeeps /\ last'.call = "circ"
<1> DEFINE x == CamX(p[1])
           y == CamY(p[2])
           d == Pen(ds, c)
           pts == IF f THEN CircFill(d, x, y, r) ELSE Circ(d, x, y, r)
<1>1. Draw("circ", <<x, y, r>>) /\ Fill(Off(x - r, y - r, x + r, y + r), d, pts)
  BY DEF CallCirc
<1>2. d \in DrawState /\ Alike(d, ds) /\ Windowed(d)
  BY PenKeeps, WindowedState DEF Pictures
<1>3. x \in Int /\ y \in Int /\ r \in Int
  <2>1. p[1] \in Int /\ p[2] \in Int /\ r \in Int
    BY DrawingConstants
  <2> QED
    BY <2>1, CamerasAreShort
<1> HIDE DEF d, x, y
<1>4. InWindow(d, pts)
  BY <1>2, <1>3, CircsInWindow
<1> HIDE DEF pts
<1>5. /\ sheet' = sheet /\ last'.call = "circ"
      /\ \/ ds' = ds /\ screen' = screen
         \/ ds' = d /\ screen' = Paint(screen, d, pts, RawToBits(d, d.pen))
  BY <1>1 DEF Fill, Ink, Draw
<1> QED
  BY <1>2, <1>4, <1>5, FillKeeps

LEMMA BoxKeeps ==
  ASSUME Pictures,
         NEW name \in BoxShapes, NEW b \in Corners, NEW c \in Inks, CallBox(name, b, c)
  PROVE  /\ DrawKeeps
         /\ last'.call = name
         /\ last'.args \in Shorts \X Shorts \X Shorts \X Shorts
<1> DEFINE a == <<CamX(b[1]), CamY(b[2]), CamX(b[3]), CamY(b[4])>>
           d == Pen(ds, c)
           pts == Shape(name, d, a)
<1>1. Draw(name, a) /\ Fill(OffBox(name, a), d, pts)
  BY DEF CallBox
<1>2. d \in DrawState /\ Alike(d, ds) /\ Windowed(d)
  BY PenKeeps, WindowedState DEF Pictures
<1>3. a \in Shorts \X Shorts \X Shorts \X Shorts
  <2>1. b[1] \in Int /\ b[2] \in Int /\ b[3] \in Int /\ b[4] \in Int
    BY DrawingConstants
  <2> QED
    BY <2>1, CamerasAreShort
<1> HIDE DEF a, d
<1>4. InWindow(d, pts)
  <2>1. a[1] \in Int /\ a[2] \in Int /\ a[3] \in Int /\ a[4] \in Int
    BY <1>3 DEF Shorts
  <2>2. InWindow(d, Rect(d, a[1], a[2], a[3], a[4]))
    BY <1>2, <2>1, RectInWindow
  <2>3. InWindow(d, RectFill(d, a[1], a[2], a[3], a[4]))
    BY <1>2, <2>1, RectFillInWindow
  <2>4. InWindow(d, Oval(d, a[1], a[2], a[3], a[4])) /\ InWindow(d, OvalFill(d, a[1], a[2], a[3], a[4]))
    BY <1>2, <2>1, OvalsInWindow
  <2> QED
    BY <2>2, <2>3, <2>4 DEF Shape, BoxShapes
<1> HIDE DEF pts
<1>5. /\ sheet' = sheet /\ last'.call = name /\ last'.args = a
      /\ \/ ds' = ds /\ screen' = screen
         \/ ds' = d /\ screen' = Paint(screen, d, pts, RawToBits(d, d.pen))
  BY <1>1 DEF Fill, Ink, Draw
<1> QED
  BY <1>2, <1>3, <1>4, <1>5, FillKeeps

LEMMA RRectKeeps ==
  ASSUME Pictures,
         NEW b \in Corners, NEW r \in Radii, NEW c \in Inks, NEW f \in BOOLEAN, CallRRect(b, r, c, f)
  PROVE  DrawKeeps /\ last'.call = "rrect"
<1> DEFINE x == CamX(b[1])  w == b[3] - b[1] + 1
           y == CamY(b[2])  h == b[4] - b[2] + 1
           d == Pen(ds, c)
           pts == IF f THEN RRectFill(d, x, y, w, h, r) ELSE RRect(d, x, y, w, h, r)
<1>1. /\ Draw("rrect", <<x, y, w, h, r>>)
      /\ Fill(w <= 0 \/ h <= 0 \/ Off(x, y, x + w - 1, y + h - 1), d, pts)
  BY DEF CallRRect
<1>2. d \in DrawState /\ Alike(d, ds) /\ Windowed(d)
  BY PenKeeps, WindowedState DEF Pictures
<1>3. x \in Int /\ y \in Int /\ w \in Int /\ h \in Int /\ r \in Int
  <2>1. b[1] \in Int /\ b[2] \in Int /\ b[3] \in Int /\ b[4] \in Int /\ r \in Int
    BY DrawingConstants
  <2> QED
    BY <2>1, CamerasAreShort
<1> HIDE DEF d, x, y, w, h
<1>4. InWindow(d, pts)
  BY <1>2, <1>3, RRectsInWindow
<1> HIDE DEF pts
<1>5. /\ sheet' = sheet /\ last'.call = "rrect"
      /\ \/ ds' = ds /\ screen' = screen
         \/ ds' = d /\ screen' = Paint(screen, d, pts, RawToBits(d, d.pen))
  BY <1>1 DEF Fill, Ink, Draw
<1> QED
  BY <1>2, <1>4, <1>5, FillKeeps

LEMMA SpritesKeep ==
  ASSUME Pictures,
         \/ \E s \in SpriteCalls : CallSpr(s)
         \/ \E s \in StretchCalls : CallSspr(s)
         \/ \E m \in MapCalls : CallMap(m)
  PROVE  /\ DrawKeeps
         /\ last'.call \in {"spr", "sspr", "map"}
         /\ last'.call = "spr" => last'.args \in SpriteCalls
<1>1. ds.pal \in [Colours -> Colours] /\ sheet \in [Points -> Colours] /\ ds \in DrawState
  BY DEF Pictures, DrawState
<1>2. ASSUME NEW image, InImage(ds, image), Show(image), sheet' = sheet PROVE DrawKeeps
  BY <1>1, <1>2, BlitKeeps DEF Show, DrawKeeps, Pictures
<1>3. ASSUME NEW s \in SpriteCalls, CallSpr(s)
      PROVE  DrawKeeps /\ last' = [call |-> "spr", args |-> s]
  <2> DEFINE image == Spr(ds, sheet, s.n, CamX(s.x), CamY(s.y), s.w, s.h, s.flipX, s.flipY)
  <2>1. InImage(ds, image)
    BY <1>1, SpritesInWindow
  <2>2. Show(image) /\ sheet' = sheet /\ last' = [call |-> "spr", args |-> s]
    BY <1>3 DEF CallSpr, Draw
  <2> HIDE DEF image
  <2> QED
    BY <1>2, <2>1, <2>2
<1>4. ASSUME NEW s \in StretchCalls, CallSspr(s) PROVE DrawKeeps /\ last'.call = "sspr"
  <2> DEFINE image == Sspr(ds, sheet, s.sx, s.sy, s.sw, s.sh, CamX(s.x), CamY(s.y), s.w, s.h, s.flipX, s.flipY)
  <2>1. InImage(ds, image)
    BY <1>1, SpritesInWindow
  <2>2. Show(image) /\ sheet' = sheet /\ last'.call = "sspr"
    BY <1>4 DEF CallSspr, Draw
  <2> HIDE DEF image
  <2> QED
    BY <1>2, <2>1, <2>2
<1>5. ASSUME NEW m \in MapCalls, CallMap(m) PROVE DrawKeeps /\ last'.call = "map"
  <2> DEFINE w == IF m.w = NoArg THEN MapSide ELSE m.w
             h == IF m.h = NoArg THEN MapSide ELSE m.h
             image == Map(ds, sheet, cels, flags, m.cx, m.cy, CamX(m.x), CamY(m.y), w, h, m.layer)
  <2>1. InImage(ds, image)
    BY <1>1, SpritesInWindow
  <2>2. Show(image) /\ sheet' = sheet /\ last'.call = "map"
    BY <1>5 DEF CallMap, Draw
  <2> HIDE DEF image
  <2> QED
    BY <1>2, <2>1, <2>2
<1> QED
  BY <1>3, <1>4, <1>5

-----------------------------------------------------------------------------
(* Every step.                                                             *)

DrawStep == DrawKeeps /\ LastCall'
SettingStep == SettingKeeps /\ draws' = draws

\* Every step draws or sets.
LEMMA StepDraws ==
  ASSUME DrawingInv, DrawNext
  PROVE  DrawStep \/ SettingStep
<1>0. Pictures
  BY DEF DrawingInv
<1>1. CASE ClipReset \/ (\E w \in Windows, i \in BOOLEAN : Clip(w, i)) \/ Cls(3)
  <2>1. draws' = draws
    BY <1>1 DEF ClipReset, Clip, Cls, Setting
  <2> QED
    BY <1>0, <1>1, <2>1, ClipSettings DEF SettingStep
<1>2. CASE \/ PalReset
           \/ \E c \in {0, 1} : Pal(c, 1) \/ PaltSet({c}) \/ \E on \in BOOLEAN : Palt(c, on)
           \/ \E c \in Inks : Color(c) \/ LineReset(c)
           \/ \E f \in FillPatterns : Fillp(f)
           \/ \E c \in Cameras : Camera(c)
  <2>1. draws' = draws
    <3>1. CASE PalReset
      BY <3>1 DEF PalReset, Setting
    <3>2. CASE \E c \in {0, 1} : Pal(c, 1) \/ PaltSet({c}) \/ \E on \in BOOLEAN : Palt(c, on)
      BY <3>2 DEF Pal, PaltSet, Palt, Setting
    <3>3. CASE \E c \in Inks : Color(c) \/ LineReset(c)
      BY <3>3 DEF Color, LineReset, Setting
    <3>4. CASE (\E f \in FillPatterns : Fillp(f)) \/ \E c \in Cameras : Camera(c)
      BY <3>4 DEF Fillp, Camera, Setting
    <3> QED
      BY <1>2, <3>1, <3>2, <3>3, <3>4
  <2> QED
    BY <1>0, <1>2, <2>1, ColourSettings DEF SettingStep
<1>3. CASE \/ \E f \in Layers : FsetAll(1, {f}) \/ \E on \in BOOLEAN : Fset(1, f, on)
           \/ \E x \in {0, MapSide} : Mset(x, 0, 1)
           \/ \E x \in {0, Side}, c \in {2, NoArg} : Sset(x, 0, c)
  <2>1. draws' = draws
    BY <1>3 DEF FsetAll, Fset, Mset, Sset, Setting
  <2> QED
    BY <1>0, <1>3, <2>1, SheetSettings DEF SettingStep
<1>4. ASSUME NEW c \in Inks, NEW p \in Spots, CallPset(p, c) PROVE DrawStep
  BY <1>0, <1>4, PsetKeeps DEF DrawStep, LastCall
<1>5. ASSUME NEW c \in Inks, NEW p \in Spots, CallLineTo(p, c) PROVE DrawStep
  <2>1. p[1] \in Int /\ p[2] \in Int /\ ds.poly.x \in Int /\ ds.poly.y \in Int
    BY <1>0, DrawingConstants DEF Pictures, DrawState
  <2> QED
    BY <1>0, <1>5, <2>1, LineFromKeeps DEF CallLineTo, DrawStep, LastCall
<1>6. ASSUME NEW c \in Inks, NEW s \in Segments, CallLine(s, c) PROVE DrawStep
  <2>1. s[1] \in Int /\ s[2] \in Int /\ s[3] \in Int /\ s[4] \in Int
    BY DrawingConstants
  <2> QED
    BY <1>0, <1>6, <2>1, LineFromKeeps DEF CallLine, DrawStep, LastCall
<1>7. ASSUME NEW c \in Inks, NEW p \in Spots, NEW r \in Radii, NEW f \in BOOLEAN, CallCirc(p, r, c, f)
      PROVE  DrawStep
  BY <1>0, <1>7, CircKeeps DEF DrawStep, LastCall
<1>8. ASSUME NEW c \in Inks, NEW b \in Corners, NEW name \in BoxShapes, CallBox(name, b, c)
      PROVE  DrawStep
  <2>1. last'.call # "spr"
    BY <1>0, <1>8, BoxKeeps DEF BoxShapes
  <2> QED
    BY <1>0, <1>8, <2>1, BoxKeeps DEF DrawStep, LastCall
<1>9. ASSUME NEW c \in Inks, NEW b \in Corners, NEW r \in Radii, NEW f \in BOOLEAN, CallRRect(b, r, c, f)
      PROVE  DrawStep
  BY <1>0, <1>9, RRectKeeps DEF DrawStep, LastCall
<1>10. CASE \/ \E s \in SpriteCalls : CallSpr(s)
            \/ \E s \in StretchCalls : CallSspr(s)
            \/ \E m \in MapCalls : CallMap(m)
  BY <1>0, <1>10, SpritesKeep DEF DrawStep, LastCall
<1> QED
  BY <1>1, <1>2, <1>3, <1>4, <1>5, <1>6, <1>7, <1>8, <1>9, <1>10 DEF DrawNext

\* The pictures are there before the first call.
LEMMA DrawingStart == DrawInit => DrawingInv
<1> SUFFICES ASSUME DrawInit PROVE DrawingInv
  OBVIOUS
<1>1. screen \in [Points -> Colours] /\ sheet \in [Points -> Colours]
  BY DrawingConstants DEF DrawInit, Colours
<1>2. PICK k \in Poked :
          ds = [pen |-> 6, pal |-> [c \in Colours |-> c], clear |-> [c \in Colours |-> c = 0],
                fill |-> {}, trans |-> FALSE, clip |-> WholeScreen, camera |-> Origin,
                poly |-> Origin, bootstrap |-> FALSE, fillpFlag |-> k.fillpFlag,
                spriteZero |-> k.spriteZero, writes |-> k.writes, shows |-> k.shows]
  BY DEF DrawInit
<1>3. k.writes \in Colours /\ k.shows \in Colours /\ k.fillpFlag \in BOOLEAN /\ k.spriteZero \in BOOLEAN
  BY DrawingConstants
<1>4. {} \in FillPattern /\ WholeScreen \in Windows4 /\ Origin \in [x : Int, y : Int]
  BY WholeScreenIsAWindow DEF FillPattern, Origin
<1>5. [c \in Colours |-> c] \in [Colours -> Colours] /\ [c \in Colours |-> c = 0] \in [Colours -> BOOLEAN]
  OBVIOUS
<1>6. 6 \in 0 .. 255
  OBVIOUS
<1>7. ds \in DrawState
  BY <1>2, <1>3, <1>4, <1>5, <1>6, Zenon DEF DrawState
<1> QED
  BY <1>1, <1>7 DEF DrawInit, DrawingInv, Pictures, LastCall

\* A step keeps the invariant.
LEMMA DrawingStays ==
  ASSUME DrawingInv, [DrawNext]_drawVars
  PROVE  DrawingInv'
<1>1. CASE DrawNext
  <2>1. CASE DrawStep
    BY <2>1 DEF DrawStep, DrawKeeps, Kept, DrawingInv, Pictures
  <2>2. CASE SettingStep
    BY <2>2 DEF SettingStep, SettingKeeps, DrawingInv, LastCall
  <2> QED
    BY <1>1, <2>1, <2>2, StepDraws
<1>2. CASE UNCHANGED drawVars
  BY <1>2 DEF drawVars, DrawingInv, Pictures, LastCall
<1> QED
  BY <1>1, <1>2

\* The draw state is one that gfx.cpp can have - the sides of its window a byte each,
\* its colours four bits - and the coordinates of the last call are 16 bits wide.
THEOREM DrawingTyped == DrawSpec => []DrawingInv
  BY DrawingStart, DrawingStays, PTL DEF DrawSpec

\* Windows whose far sides are on the screen or past it, and are numbers of the cart.
FarEnd(from, size) == from + Greater(size, 0)
Numbers == 0 .. 32767
Tame == \A w \in Windows : FarEnd(w[1], w[3]) \in Numbers /\ FarEnd(w[2], w[4]) \in Numbers

\* A window that is set is tame, that of the screen, or the one there was.
LEMMA FarSide ==
  ASSUME NEW side \in 0 .. Side, Side <= 255, NEW n \in Numbers
  PROVE  Byte(Lesser(side, Short(n))) <= Side
<1>0. n \in Int /\ n >= 0 /\ n < 32768
  BY DEF Numbers
<1>1. Short(n) = n
  BY <1>0 DEF Short
<1>2. Lesser(side, n) \in 0 .. Side
  BY <1>0, ShapesConstants DEF Lesser
<1>3. \A k \in 0 .. Side : Byte(k) = k
  BY ShapesConstants DEF Byte
<1> QED
  BY <1>1, <1>2, <1>3, ShapesConstants

LEMMA TameClip ==
  ASSUME Tame, Pictures, OnScreen(ds), NEW w \in Windows, NEW i \in BOOLEAN, Clip(w, i)
  PROVE  OnScreen(ds)'
<1> DEFINE old == IF i THEN ds.clip ELSE WholeScreen
           n == FarEnd(w[1], w[3])
           m == FarEnd(w[2], w[4])
           a == old.x2
           b == old.y2
<1>1. a \in 0 .. Side /\ b \in 0 .. Side
  BY WindowedState, ShapesConstants DEF Pictures, Windowed, OnScreen, WholeScreen
<1>2. n \in Numbers /\ m \in Numbers
  BY DEF Tame
<1>3. ds'.clip.x2 = Byte(Lesser(a, Short(n))) /\ ds'.clip.y2 = Byte(Lesser(b, Short(m)))
  BY DEF Clip, Pictures, DrawState, FarEnd
<1> HIDE DEF old, n, m, a, b
<1>4. Byte(Lesser(a, Short(n))) <= Side /\ Byte(Lesser(b, Short(m))) <= Side
  <2>1. Side <= 255
    BY DrawingConstants
  <2> QED
    BY <1>1, <1>2, <2>1, FarSide
<1> QED
  BY <1>3, <1>4 DEF OnScreen

\* No other call sets the window but to the screen.
LEMMA OthersKeepTheWindow ==
  ASSUME Pictures, DrawNext, \A w \in Windows, i \in BOOLEAN : ~Clip(w, i)
  PROVE  ds'.clip \in {ds.clip, WholeScreen}
<1>0. ds \in DrawState
  BY DEF Pictures
<1>1. CASE ClipReset \/ Cls(3)
  BY <1>0, <1>1 DEF ClipReset, Cls, DrawState
<1>2. CASE \/ PalReset
           \/ \E c \in {0, 1} : Pal(c, 1) \/ PaltSet({c}) \/ \E on \in BOOLEAN : Palt(c, on)
           \/ \E f \in FillPatterns : Fillp(f)
           \/ \E c \in Cameras : Camera(c)
  BY <1>0, <1>2 DEF PalReset, Pal, PaltSet, Palt, Fillp, Camera, DrawState
<1>3. CASE \/ \E f \in Layers : FsetAll(1, {f}) \/ \E on \in BOOLEAN : Fset(1, f, on)
           \/ \E x \in {0, MapSide} : Mset(x, 0, 1)
           \/ \E x \in {0, Side}, c \in {2, NoArg} : Sset(x, 0, c)
  BY <1>3 DEF FsetAll, Fset, Mset, Sset
<1>4. ASSUME NEW c \in Inks PROVE Pen(ds, c).clip = ds.clip /\ Pen(ds, c) \in DrawState
  BY <1>0, PenKeeps DEF Alike
<1>5. CASE \E c \in Inks : Color(c) \/ LineReset(c)
  <2>1. PICK c \in Inks : Color(c) \/ LineReset(c)
    BY <1>5
  <2>2. ds' \in {[ds EXCEPT !.pen = 6], Pen(ds, c), [Pen(ds, c) EXCEPT !.bootstrap = TRUE]}
    BY <2>1 DEF Color, LineReset
  <2> QED
    BY <1>0, <1>4, <2>2 DEF DrawState
<1>6. ASSUME NEW x0, NEW y0, NEW x1, NEW y1, NEW c \in Inks, LineFrom(x0, y0, x1, y1, c)
      PROVE  ds'.clip = ds.clip
  <2>1. ds' = [Pen(ds, c) EXCEPT !.poly = [x |-> x1, y |-> y1], !.bootstrap = FALSE]
    BY <1>6 DEF LineFrom
  <2> QED
    BY <1>4, <2>1 DEF DrawState
<1>7. ASSUME NEW c \in Inks, NEW off, NEW pts, Fill(off, Pen(ds, c), pts) PROVE ds'.clip = ds.clip
  BY <1>4, <1>7 DEF Fill
<1>8. ASSUME NEW c \in Inks, NEW p \in Spots, CallPset(p, c) PROVE ds'.clip = ds.clip
  BY <1>7, <1>8 DEF CallPset
<1>9. ASSUME NEW c \in Inks, NEW p \in Spots, NEW r, NEW f, CallCirc(p, r, c, f) PROVE ds'.clip = ds.clip
  BY <1>7, <1>9 DEF CallCirc
<1>10. ASSUME NEW c \in Inks, NEW b \in Corners, NEW name, CallBox(name, b, c) PROVE ds'.clip = ds.clip
  BY <1>7, <1>10 DEF CallBox
<1>11. ASSUME NEW c \in Inks, NEW b \in Corners, NEW r, NEW f, CallRRect(b, r, c, f) PROVE ds'.clip = ds.clip
  BY <1>7, <1>11 DEF CallRRect
<1>12. ASSUME NEW c \in Inks, NEW p \in Spots, CallLineTo(p, c) PROVE ds'.clip = ds.clip
  BY <1>6, <1>12 DEF CallLineTo
<1>13. ASSUME NEW c \in Inks, NEW s \in Segments, CallLine(s, c) PROVE ds'.clip = ds.clip
  BY <1>6, <1>13 DEF CallLine
<1>14. CASE \/ \E s \in SpriteCalls : CallSpr(s)
            \/ \E s \in StretchCalls : CallSspr(s)
            \/ \E m \in MapCalls : CallMap(m)
  BY <1>14 DEF CallSpr, CallSspr, CallMap, Show
<1> QED
  BY <1>1, <1>2, <1>3, <1>5, <1>8, <1>9, <1>10, <1>11, <1>12, <1>13, <1>14 DEF DrawNext

\* The windows of clip end on the screen - what the theorems below ask for - but where a
\* far side is negative or more than the cart's numbers hold.
THEOREM WindowsEndOnScreen ==
  ASSUME Tame
  PROVE  DrawSpec => []OnScreen(ds)
<1>1. DrawInit => OnScreen(ds)
  <2>1. OnScreen([clip |-> WholeScreen])
    BY ShapesConstants DEF OnScreen, WholeScreen
  <2> QED
    BY <2>1 DEF DrawInit, OnScreen
<1>2. DrawingInv /\ OnScreen(ds) /\ [DrawNext]_drawVars => OnScreen(ds)'
  <2> SUFFICES ASSUME DrawingInv, OnScreen(ds), [DrawNext]_drawVars PROVE OnScreen(ds)'
    OBVIOUS
  <2>1. Pictures
    BY DEF DrawingInv
  <2>2. CASE \E w \in Windows, i \in BOOLEAN : Clip(w, i)
    BY <2>1, <2>2, TameClip
  <2>3. CASE DrawNext /\ \A w \in Windows, i \in BOOLEAN : ~Clip(w, i)
    <3>1. ds'.clip \in {ds.clip, WholeScreen}
      BY <2>1, <2>3, OthersKeepTheWindow
    <3>2. WholeScreen.x2 <= Side /\ WholeScreen.y2 <= Side
      BY ShapesConstants DEF WholeScreen
    <3> QED
      BY <3>1, <3>2 DEF OnScreen
  <2>4. CASE UNCHANGED drawVars
    BY <2>4 DEF drawVars, OnScreen
  <2> QED
    BY <2>2, <2>3, <2>4
<1> QED
  BY <1>1, <1>2, DrawingTyped, PTL DEF DrawSpec

\* DrawsInsideWindow: no drawing call touches a point outside the clip window - but, if
\* that ends past the screen, those its rows run over into - or a plane that is not
\* written, whether it goes through hline, vline, set_pixel or the images of spr, sspr
\* and map.
THEOREM NothingDrawnOutside == DrawSpec => DrawsInsideWindow
<1>1. ASSUME DrawingInv, DrawNext, draws' # draws, NEW p \in Points, screen'[p] # screen[p]
      PROVE  /\ Reached(ds, p)
             /\ \/ Fast([ds EXCEPT !.fill = {}])
                \/ Planes(screen'[p], 15 - ds.writes) = Planes(screen[p], 15 - ds.writes)
  <2>1. Kept(ds, screen, screen')
    BY <1>1, StepDraws DEF DrawStep, DrawKeeps, SettingStep
  <2>2. ds.writes = 0 /\ ds.shows = 0 => Fast([ds EXCEPT !.fill = {}])
    BY <1>1 DEF Fast, DrawingInv, Pictures, DrawState
  <2> QED
    BY <1>1, <2>1, <2>2 DEF Kept
<1> DEFINE Inside == draws' # draws =>
                \A p \in Points : screen'[p] # screen[p] =>
                   /\ Reached(ds, p)
                   /\ Fast([ds EXCEPT !.fill = {}])
                      \/ Planes(screen'[p], 15 - ds.writes) = Planes(screen[p], 15 - ds.writes)
<1>2. DrawingInv /\ [DrawNext]_drawVars => [Inside]_drawVars
  <2>1. ASSUME DrawingInv, DrawNext PROVE Inside
    BY <1>1, <2>1
  <2> HIDE DEF Inside
  <2> QED
    BY <2>1
<1> QED
  BY <1>2, DrawingTyped, PTL DEF DrawSpec, DrawsInsideWindow

\* FillsExactly: a filled rectangle is the points between its corners that are in the
\* window, if that ends on the screen, whatever the parity of its sides: hline draws
\* bytes of two points.
THEOREM RectanglesAreFull == DrawSpec => []FillsExactly
<1>1. DrawingInv => FillsExactly
  <2> SUFFICES ASSUME DrawingInv, last.call \in {"rect", "rectfill"}, OnScreen(ds)
               PROVE  LET a == last.args IN RectFill(ds, a[1], a[2], a[3], a[4]) = Dots(ds, Box(a))
    BY DEF FillsExactly
  <2> DEFINE a == last.args
  <2>1. a \in Shorts \X Shorts \X Shorts \X Shorts
    BY DEF DrawingInv, LastCall
  <2>2. Windowed(ds) /\ Side <= 255
    BY WindowedState, DrawingConstants DEF DrawingInv, Pictures
  <2> HIDE DEF a
  <2>3. /\ a[1] \in Int /\ a[2] \in Int /\ a[3] \in Int /\ a[4] \in Int
        /\ a = <<a[1], a[2], a[3], a[4]>>
    BY <2>1 DEF Shorts
  <2>4. RectFill(ds, a[1], a[2], a[3], a[4]) = Dots(ds, Box(a))
    BY <2>2, <2>3, RectFillIsABox
  <2> QED
    BY <2>4 DEF a
<1> QED
  BY <1>1, DrawingTyped, PTL

-----------------------------------------------------------------------------
(* Lines.                                                                  *)

\* Division and the minor coordinate of a line are whole.
LEMMA QuotientIsWhole == ASSUME NEW n \in Int, NEW m \in Nat \ {0} PROVE Quotient(n, m) \in Int
<1>1. \A k \in Int : k \div m \in Int
  OBVIOUS
<1>2. -n \in Int
  OBVIOUS
<1> QED
  BY <1>1, <1>2 DEF Quotient

\* A line starts where it is told to.
LEMMA MinorAtTheStart == ASSUME NEW m \in Shorts, NEW slope \in Int PROVE Minor(m, slope, 0) = m
<1>1. m \in Int /\ m + 32768 >= 0 /\ m < 32768
  BY DEF Shorts
<1>2. slope * 0 = 0
  OBVIOUS
<1>3. (slope * 0 + 32768) \div 65536 = 0
  BY <1>2
<1>4. Minor(m, slope, 0) = Short(m)
  BY <1>1, <1>3 DEF Minor
<1> QED
  BY <1>1, <1>4 DEF Short

\* On the screen, a walk that begins and ends just outside it passes where the whole
\* walk does.
LEMMA WalkCut ==
  ASSUME NEW n0 \in Int, NEW n1 \in Int, n0 <= n1, NEW m \in Shorts, NEW slope \in Int,
         NEW k \in Int, k >= 0, k < Side, NEW v \in Int, v >= 0, v < Side
  PROVE  (/\ k \in Clamp(n0, -1, Side) .. Clamp(n1, -1, Side)
          /\ v = IF k = Clamp(n0, -1, Side) THEN Clamp(m, -1, Side) ELSE Minor(m, slope, k - n0))
         <=> k \in n0 .. n1 /\ v = Minor(m, slope, k - n0)
<1>0. Side \in Nat /\ m \in Int
  BY ShapesConstants DEF Shorts
<1>1. k \in Clamp(n0, -1, Side) .. Clamp(n1, -1, Side) <=> k \in n0 .. n1
  BY <1>0 DEF Clamp
<1>2. k = Clamp(n0, -1, Side) <=> k = n0
  BY <1>0 DEF Clamp
<1>3. v = Clamp(m, -1, Side) <=> v = m
  BY <1>0 DEF Clamp
<1>4. k = n0 => Minor(m, slope, k - n0) = m
  <2>1. k = n0 => k - n0 = 0
    OBVIOUS
  <2> QED
    BY <2>1, MinorAtTheStart
<1> QED
  BY <1>1, <1>2, <1>3, <1>4

Across(d, x0, y0, x1, y1, slope) ==
    Dots(d, {<<x, IF x = Clamp(x0, -1, Side) THEN Clamp(y0, -1, Side) ELSE Minor(y0, slope, x - x0)>> :
               x \in Clamp(x0, -1, Side) .. Clamp(x1, -1, Side)})
Down(d, x0, y0, x1, y1, slope) ==
    Dots(d, {<<IF y = Clamp(y0, -1, Side) THEN Clamp(x0, -1, Side) ELSE Minor(x0, slope, y - y0), y>> :
               y \in Clamp(y0, -1, Side) .. Clamp(y1, -1, Side)})

LEMMA SeenOnScreen ==
  ASSUME NEW d, Windowed(d), OnScreen(d), NEW x \in Int, NEW y \in Int, Within(d, <<x, y>>)
  PROVE  x >= 0 /\ x < Side /\ y >= 0 /\ y < Side
<1>1. d.clip.x1 \in Nat /\ d.clip.x2 \in Int /\ d.clip.x2 <= Side /\ d.clip.y1 \in Nat
      /\ d.clip.y2 \in Int /\ d.clip.y2 <= Side /\ Side \in Nat
  BY ShapesConstants DEF Windowed, OnScreen
<1>2. x >= d.clip.x1 /\ x < d.clip.x2 /\ y >= d.clip.y1 /\ y < d.clip.y2
  BY DEF Within
<1> QED
  BY <1>1, <1>2

LEMMA MinorIsWhole == ASSUME NEW m \in Int, NEW slope \in Int, NEW k \in Int PROVE Minor(m, slope, k) \in Int
<1>1. slope * k \in Int
  OBVIOUS
<1>2. (slope * k + 32768) \div 65536 \in Int
  BY <1>1
<1> QED
  BY <1>2, ShortsAreShort DEF Minor, Shorts

\* The walk that is cut at the screen draws what the whole walk does.
LEMMA AcrossIsWhole ==
  ASSUME NEW d, Windowed(d), OnScreen(d), NEW x0 \in Shorts, NEW y0 \in Shorts, NEW x1 \in Shorts, x0 <= x1,
         NEW y1, NEW slope \in Int
  PROVE  Across(d, x0, y0, x1, y1, slope) = Dots(d, {<<k, Minor(y0, slope, k - x0)>> : k \in x0 .. x1})
<1> DEFINE from == Clamp(x0, -1, Side)
           to == Clamp(x1, -1, Side)
           spot(k) == IF k = from THEN Clamp(y0, -1, Side) ELSE Minor(y0, slope, k - x0)
           whole(k) == Minor(y0, slope, k - x0)
<1>1. x0 \in Int /\ y0 \in Int /\ x1 \in Int /\ from \in Int /\ to \in Int /\ Clamp(y0, -1, Side) \in Int
  BY ShapesConstants DEF Shorts, Clamp
<1>2. \A k \in Int : whole(k) \in Int /\ spot(k) \in Int
  <2> TAKE k \in Int
  <2>1. whole(k) \in Int
    BY <1>1, MinorIsWhole
  <2> QED
    BY <1>1, <2>1
<1>3. ASSUME NEW k \in Int, NEW v \in Int, Within(d, <<k, v>>)
      PROVE  k \in from .. to /\ v = spot(k) <=> k \in x0 .. x1 /\ v = whole(k)
  <2>1. k >= 0 /\ k < Side /\ v >= 0 /\ v < Side
    BY <1>3, SeenOnScreen
  <2> QED
    BY <1>1, <2>1, WalkCut
<1> HIDE DEF from, to, spot, whole
<1>4. \A k \in Int : Within(d, <<k, spot(k)>>) /\ k \in from .. to => k \in x0 .. x1 /\ spot(k) = whole(k)
  BY <1>2, <1>3
<1>5. \A k \in Int : Within(d, <<k, whole(k)>>) /\ k \in x0 .. x1 => k \in from .. to /\ spot(k) = whole(k)
  BY <1>2, <1>3
<1>6. Dots(d, {<<k, spot(k)>> : k \in from .. to}) = Dots(d, {<<k, whole(k)>> : k \in x0 .. x1})
  BY <1>1, <1>4, <1>5 DEF Dots
<1>7. Across(d, x0, y0, x1, y1, slope) = Dots(d, {<<k, spot(k)>> : k \in from .. to})
  BY DEF Across, spot, from, to
<1> QED
  BY <1>6, <1>7 DEF whole

LEMMA DownIsWhole ==
  ASSUME NEW d, Windowed(d), OnScreen(d), NEW x0 \in Shorts, NEW y0 \in Shorts, NEW y1 \in Shorts, y0 <= y1,
         NEW x1, NEW slope \in Int
  PROVE  Down(d, x0, y0, x1, y1, slope) = Dots(d, {<<Minor(x0, slope, k - y0), k>> : k \in y0 .. y1})
<1> DEFINE from == Clamp(y0, -1, Side)
           to == Clamp(y1, -1, Side)
           spot(k) == IF k = from THEN Clamp(x0, -1, Side) ELSE Minor(x0, slope, k - y0)
           whole(k) == Minor(x0, slope, k - y0)
<1>1. x0 \in Int /\ y0 \in Int /\ y1 \in Int /\ from \in Int /\ to \in Int /\ Clamp(x0, -1, Side) \in Int
  BY ShapesConstants DEF Shorts, Clamp
<1>2. \A k \in Int : whole(k) \in Int /\ spot(k) \in Int
  <2> TAKE k \in Int
  <2>1. whole(k) \in Int
    BY <1>1, MinorIsWhole
  <2> QED
    BY <1>1, <2>1
<1>3. ASSUME NEW k \in Int, NEW v \in Int, Within(d, <<v, k>>)
      PROVE  k \in from .. to /\ v = spot(k) <=> k \in y0 .. y1 /\ v = whole(k)
  <2>1. k >= 0 /\ k < Side /\ v >= 0 /\ v < Side
    BY <1>3, SeenOnScreen
  <2> QED
    BY <1>1, <2>1, WalkCut
<1> HIDE DEF from, to, spot, whole
<1>4. \A k \in Int : Within(d, <<spot(k), k>>) /\ k \in from .. to => k \in y0 .. y1 /\ spot(k) = whole(k)
  BY <1>2, <1>3
<1>5. \A k \in Int : Within(d, <<whole(k), k>>) /\ k \in y0 .. y1 => k \in from .. to /\ spot(k) = whole(k)
  BY <1>2, <1>3
<1>6. Dots(d, {<<spot(k), k>> : k \in from .. to}) = Dots(d, {<<whole(k), k>> : k \in y0 .. y1})
  BY <1>1, <1>4, <1>5 DEF Dots
<1>7. Down(d, x0, y0, x1, y1, slope) = Dots(d, {<<spot(k), k>> : k \in from .. to})
  BY DEF Down, spot, from, to
<1> QED
  BY <1>6, <1>7 DEF whole

Slope(from, to, m0, m1) == IF to = from THEN 0 ELSE Quotient((m1 - m0) * 65536, to - from)

LEMMA SlopeIsWhole ==
  ASSUME NEW from \in Int, NEW to \in Int, from <= to, NEW m0 \in Int, NEW m1 \in Int
  PROVE  Slope(from, to, m0, m1) \in Int
<1>1. CASE to = from
  BY <1>1 DEF Slope
<1>2. CASE to # from
  <2>1. (m1 - m0) * 65536 \in Int /\ to - from \in Nat \ {0}
    BY <1>2
  <2> QED
    BY <1>2, <2>1, QuotientIsWhole DEF Slope
<1> QED
  BY <1>1, <1>2

\* The walk of a line, when its ends are in order.
LEMMA LineWalks ==
  ASSUME NEW d, NEW xa, NEW ya, NEW xb, NEW yb
  PROVE  LET horiz == Abs(xb - xa) >= Abs(yb - ya)
             swapped == IF horiz THEN xa > xb ELSE ya > yb
             x0 == IF swapped THEN xb ELSE xa
             y0 == IF swapped THEN yb ELSE ya
             x1 == IF swapped THEN xa ELSE xb
             y1 == IF swapped THEN ya ELSE yb
         IN  Line(d, xa, ya, xb, yb)
               = IF horiz THEN Across(d, x0, y0, x1, y1, Slope(x0, x1, y0, y1))
                 ELSE Down(d, x0, y0, x1, y1, Quotient((x1 - x0) * 65536, y1 - y0))
  BY DEF Line, Across, Down, Slope

\* A line that is wider than high, and one that is not, from either end.
LEMMA LineAcross ==
  ASSUME NEW d, NEW xa \in Int, NEW ya \in Int, NEW xb \in Int, NEW yb \in Int,
         Abs(xb - xa) >= Abs(yb - ya), xa <= xb
  PROVE  /\ Line(d, xa, ya, xb, yb) = Across(d, xa, ya, xb, yb, Slope(xa, xb, ya, yb))
         /\ Line(d, xb, yb, xa, ya) = Across(d, xa, ya, xb, yb, Slope(xa, xb, ya, yb))
<1>1. ~(xa > xb)
  OBVIOUS
<1>2. Line(d, xa, ya, xb, yb) = Across(d, xa, ya, xb, yb, Slope(xa, xb, ya, yb))
  BY <1>1, LineWalks
<1>3. CASE xa = xb
  <2>1. ya = yb
    BY <1>3 DEF Abs
  <2> QED
    BY <1>2, <1>3, <2>1
<1>4. CASE xa # xb
  <2>1. xb > xa /\ Abs(xa - xb) >= Abs(ya - yb)
    BY <1>4 DEF Abs
  <2>2. Line(d, xb, yb, xa, ya) = Across(d, xa, ya, xb, yb, Slope(xa, xb, ya, yb))
    BY <2>1, LineWalks
  <2> QED
    BY <1>2, <2>2
<1> QED
  BY <1>3, <1>4

LEMMA LineDown ==
  ASSUME NEW d, NEW xa \in Int, NEW ya \in Int, NEW xb \in Int, NEW yb \in Int,
         ~(Abs(xb - xa) >= Abs(yb - ya)), ya <= yb
  PROVE  /\ Line(d, xa, ya, xb, yb) = Down(d, xa, ya, xb, yb, Slope(ya, yb, xa, xb))
         /\ Line(d, xb, yb, xa, ya) = Down(d, xa, ya, xb, yb, Slope(ya, yb, xa, xb))
<1>1. ya # yb /\ ~(ya > yb) /\ yb > ya /\ ~(Abs(xa - xb) >= Abs(ya - yb))
  BY DEF Abs
<1>2. Slope(ya, yb, xa, xb) = Quotient((xb - xa) * 65536, yb - ya)
  BY <1>1 DEF Slope
<1>3. Line(d, xa, ya, xb, yb) = Down(d, xa, ya, xb, yb, Slope(ya, yb, xa, xb))
  BY <1>1, <1>2, LineWalks
<1>4. Line(d, xb, yb, xa, ya) = Down(d, xa, ya, xb, yb, Slope(ya, yb, xa, xb))
  BY <1>1, <1>2, LineWalks
<1> QED
  BY <1>3, <1>4

\* LineAnyWay: a line is the same from either end, as the comment at api_line says, and
\* cutting it at the screen before it is walked loses no point of it in a window that
\* ends there.
THEOREM LinesGoAnyWay == DrawSpec => []LineAnyWay
<1>1. DrawingInv => LineAnyWay
  <2> DEFINE a == last.args
             major == IF Abs(a[3] - a[1]) >= Abs(a[4] - a[2]) THEN 1 ELSE 2
             one == IF a[major] <= a[major + 2] THEN <<a[1], a[2]>> ELSE <<a[3], a[4]>>
             two == IF a[major] <= a[major + 2] THEN <<a[3], a[4]>> ELSE <<a[1], a[2]>>
             slope == IF one = two THEN 0
                      ELSE Quotient((two[3 - major] - one[3 - major]) * 65536, two[major] - one[major])
             minor(k) == Minor(one[3 - major], slope, k - one[major])
             whole == {IF major = 1 THEN <<k, minor(k)>> ELSE <<minor(k), k>> : k \in one[major] .. two[major]}
             line == Line(ds, a[1], a[2], a[3], a[4])
             back == Line(ds, a[3], a[4], a[1], a[2])
  <2>0. Walked(a) = whole
    BY DEF Walked
  <2> SUFFICES ASSUME DrawingInv, last.call = "line"
               PROVE  line = back /\ (OnScreen(ds) => line = Dots(ds, whole))
    <3> HIDE DEF whole
    <3> QED
      BY <2>0 DEF LineAnyWay
  <2> DEFINE x0 == one[1]  y0 == one[2]  x1 == two[1]  y1 == two[2]
  <2>1. /\ a[1] \in Shorts /\ a[2] \in Shorts /\ a[3] \in Shorts /\ a[4] \in Shorts
        /\ \A n \in Shorts : n \in Int
    BY DEF DrawingInv, LastCall, Shorts
  <2>2. Windowed(ds)
    BY WindowedState DEF DrawingInv, Pictures
  <2>3. /\ x0 \in Shorts /\ y0 \in Shorts /\ x1 \in Shorts /\ y1 \in Shorts
        /\ one = <<x0, y0>> /\ two = <<x1, y1>>
        /\ \/ line = Line(ds, x0, y0, x1, y1) /\ back = Line(ds, x1, y1, x0, y0)
           \/ back = Line(ds, x0, y0, x1, y1) /\ line = Line(ds, x1, y1, x0, y0)
    <3> HIDE DEF major, a
    <3> QED
      BY <2>1
  <2>4. CASE major = 1
    <3>1. one[major] = x0 /\ two[major] = x1 /\ one[3 - major] = y0 /\ two[3 - major] = y1
      BY <2>4
    <3>2. x0 <= x1 /\ Abs(x1 - x0) >= Abs(y1 - y0)
      <4> HIDE DEF a
      <4> QED
        BY <2>1, <2>4 DEF Abs
    <3>3. slope = Slope(x0, x1, y0, y1)
      <4>1. one = two <=> x0 = x1
        <5> HIDE DEF one, two
        <5> QED
          BY <2>1, <2>3, <3>2 DEF Abs
      <4> HIDE DEF one, two, major
      <4> QED
        BY <3>1, <4>1 DEF Slope
    <3>4. whole = {<<k, Minor(y0, slope, k - x0)>> : k \in x0 .. x1}
      <4> HIDE DEF one, two, slope
      <4> QED
        BY <2>4, <3>1
    <3> HIDE DEF one, two, slope, line, back, whole, x0, y0, x1, y1
    <3>5. x0 \in Int /\ y0 \in Int /\ x1 \in Int /\ y1 \in Int
      BY <2>1, <2>3
    <3>6. slope \in Int
      BY <3>2, <3>3, <3>5, SlopeIsWhole
    <3>7. line = Across(ds, x0, y0, x1, y1, slope) /\ back = Across(ds, x0, y0, x1, y1, slope)
      BY <2>3, <3>2, <3>3, <3>5, LineAcross
    <3> QED
      BY <2>2, <2>3, <3>2, <3>4, <3>6, <3>7, AcrossIsWhole
  <2>5. CASE major = 2
    <3>1. one[major] = y0 /\ two[major] = y1 /\ one[3 - major] = x0 /\ two[3 - major] = x1
      BY <2>5
    <3>2. y0 <= y1 /\ ~(Abs(x1 - x0) >= Abs(y1 - y0))
      <4> HIDE DEF a
      <4> QED
        BY <2>1, <2>5 DEF Abs
    <3>3. slope = Slope(y0, y1, x0, x1)
      <4>1. one # two /\ y0 # y1
        <5> HIDE DEF one, two
        <5> QED
          BY <2>1, <2>3, <3>2 DEF Abs
      <4> HIDE DEF one, two, major
      <4> QED
        BY <3>1, <4>1 DEF Slope
    <3>4. whole = {<<Minor(x0, slope, k - y0), k>> : k \in y0 .. y1}
      <4> HIDE DEF one, two, slope
      <4> QED
        BY <2>5, <3>1
    <3> HIDE DEF one, two, slope, line, back, whole, x0, y0, x1, y1
    <3>5. x0 \in Int /\ y0 \in Int /\ x1 \in Int /\ y1 \in Int
      BY <2>1, <2>3
    <3>6. slope \in Int
      BY <3>2, <3>3, <3>5, SlopeIsWhole
    <3>7. line = Down(ds, x0, y0, x1, y1, slope) /\ back = Down(ds, x0, y0, x1, y1, slope)
      BY <2>3, <3>2, <3>3, <3>5, LineDown
    <3> QED
      BY <2>2, <2>3, <3>2, <3>4, <3>6, <3>7, DownIsWhole
  <2>6. major = 1 \/ major = 2
    OBVIOUS
  <2> HIDE DEF major, line, back, whole
  <2> QED
    BY <2>4, <2>5, <2>6
<1> QED
  BY <1>1, DrawingTyped, PTL

-----------------------------------------------------------------------------
(* Sprites.                                                                *)

\* A point of a cell is in no other.
LEMMA InCell ==
  ASSUME NEW t \in Nat \ {0}, NEW c \in Nat, NEW i \in 0 .. t - 1, NEW m \in Nat, c < m
  PROVE  /\ (c * t + i) \div t = c /\ (c * t + i) % t = i
         /\ c * t + i \in Int /\ c * t + i >= 0 /\ c * t + i < m * t
<1>1. (c * t + i) \div t = c
  OBVIOUS
<1>2. (c * t + i) % t = i
  OBVIOUS
<1>3. c * t + i \in Int /\ c * t + i >= 0
  OBVIOUS
<1>4. c * t + i < m * t
  OBVIOUS
<1> QED
  BY <1>1, <1>2, <1>3, <1>4

LEMMA TileFits == Tile <= Side
<1>1. Side % Tile = Side \/ Tile <= Side
  BY ShapesConstants
<1> QED
  BY <1>1, ShapesConstants

\* Two sources that agree in the window make the same image.
LEMMA SameImage ==
  ASSUME NEW d, NEW f, NEW g,
         \A p : Within(d, p) => (p \in DOMAIN f <=> p \in DOMAIN g),
         \A p \in DOMAIN f : Within(d, p) => f[p] = g[p]
  PROVE  Image(d, f) = Image(d, g)
<1>1. \A p : p \in Dots(d, DOMAIN f) <=> p \in Dots(d, DOMAIN g)
  BY DEF Dots
<1>2. Dots(d, DOMAIN f) = Dots(d, DOMAIN g) /\ \A p \in Dots(d, DOMAIN f) : f[p] = g[p]
  BY <1>1 DEF Dots
<1> DEFINE seen == {p \in Dots(d, DOMAIN f) : ~d.clear[f[p]]}
<1>3. {p \in Dots(d, DOMAIN g) : ~d.clear[g[p]]} = seen
  BY <1>2
<1>4. [p \in seen |-> d.pal[f[p]]] = [p \in seen |-> d.pal[g[p]]]
  BY <1>2
<1> HIDE DEF seen
<1>5. Image(d, g) = [p \in seen |-> d.pal[g[p]]]
  BY <1>3 DEF Image
<1>6. Image(d, f) = [p \in seen |-> d.pal[f[p]]]
  BY DEF Image, seen
<1> QED
  BY <1>4, <1>5, <1>6

LEMMA NothingIsNoImage ==
  ASSUME NEW d, NEW f, DOMAIN f = {} PROVE Image(d, f) = << >>
<1>1. {p \in Dots(d, DOMAIN f) : ~d.clear[f[p]]} = {}
  BY DEF Dots
<1> HIDE <1>1
<1>2. Image(d, f) = [p \in {} |-> d.pal[f[p]]]
  BY <1>1 DEF Image
<1>3. [p \in {} |-> d.pal[f[p]]] = << >>
  OBVIOUS
<1> QED
  BY <1>2, <1>3

\* At the size of the source, sspr takes texel i to point i.
LEMMA SampleOfWhole == ASSUME NEW i \in Int, NEW from PROVE Sample(from, 65536, i) = from + i
  BY DEF Sample

LEMMA WholeRatio == ASSUME NEW n \in Nat \ {0} PROVE Quotient(n * 65536, n) = 65536
  BY DEF Quotient

\* spr is sspr of the same size.
LEMMA SprIsSspr ==
  ASSUME NEW d, NEW s, NEW n \in Nat, NEW x \in Int, NEW y \in Int, NEW w \in Nat, NEW h \in Nat,
         NEW flipX \in BOOLEAN, NEW flipY \in BOOLEAN
  PROVE  Spr(d, s, n, x, y, w, h, flipX, flipY)
           = Sspr(d, s, (n % PerRow) * Tile, (n \div PerRow) * Tile, w, h, x, y, w, h, flipX, flipY)
<1> DEFINE sx == (n % PerRow) * Tile
           sy == (n \div PerRow) * Tile
           area == (x .. x + w - 1) \X (y .. y + h - 1)
           a(p) == IF flipX THEN w - 1 - (p[1] - x) ELSE p[1] - x
           b(p) == IF flipY THEN h - 1 - (p[2] - y) ELSE p[2] - y
           f == [p \in area |-> Texel(s, sx + a(p), sy + b(p))]
           rx == Quotient(w * 65536, w)
           ry == Quotient(h * 65536, h)
           g == [p \in area |-> Texel(s, Sample(sx, rx, a(p)), Sample(sy, ry, b(p)))]
           off == x + w <= 0 \/ x >= Side \/ y + h <= 0 \/ y >= Side
<1>1. Spr(d, s, n, x, y, w, h, flipX, flipY) = IF off THEN << >> ELSE Image(d, f)
  BY DEF Spr
<1>2. Sspr(d, s, sx, sy, w, h, x, y, w, h, flipX, flipY)
        = IF w = 0 \/ h = 0 \/ off THEN << >> ELSE Image(d, g)
  <2> DEFINE w1 == Abs(w)  x1 == IF w < 0 THEN x - w1 ELSE x
             h1 == Abs(h)  y1 == IF h < 0 THEN y - h1 ELSE y
             fx == flipX # (w < 0)
             fy == flipY # (h < 0)
             g1 == [p \in (x1 .. x1 + w1 - 1) \X (y1 .. y1 + h1 - 1) |->
                      Texel(s,
                        Sample(sx, Quotient(w * 65536, w1), IF fx THEN w1 - 1 - (p[1] - x1) ELSE p[1] - x1),
                        Sample(sy, Quotient(h * 65536, h1), IF fy THEN h1 - 1 - (p[2] - y1) ELSE p[2] - y1))]
  <2>1. Sspr(d, s, sx, sy, w, h, x, y, w, h, flipX, flipY)
          = IF w1 = 0 \/ h1 = 0 \/ x1 + w1 <= 0 \/ x1 >= Side \/ y1 + h1 <= 0 \/ y1 >= Side
            THEN << >> ELSE Image(d, g1)
    <3> HIDE DEF sx, sy
    <3> QED
      BY DEF Sspr
  <2>2. w1 = w /\ x1 = x /\ h1 = h /\ y1 = y
    BY DEF Abs
  <2>3. (fx <=> flipX) /\ (fy <=> flipY)
    OBVIOUS
  <2>4. g1 = g
    <3> HIDE DEF sx, sy, w1, x1, h1, y1, fx, fy
    <3> QED
      BY <2>2, <2>3
  <2> HIDE DEF g, g1, w1, x1, h1, y1, sx, sy
  <2> QED
    BY <2>1, <2>2, <2>4
<1>3. CASE w = 0 \/ h = 0
  <2>1. area = {}
    BY <1>3
  <2>2. DOMAIN f = {}
    BY <2>1
  <2> HIDE DEF f, g, off
  <2>3. Image(d, f) = << >>
    BY <2>2, NothingIsNoImage
  <2> QED
    BY <1>1, <1>2, <1>3, <2>3
<1>4. CASE w # 0 /\ h # 0
  <2>1. rx = 65536 /\ ry = 65536
    BY <1>4, WholeRatio
  <2>2. \A p \in area : a(p) \in Int /\ b(p) \in Int
    OBVIOUS
  <2> HIDE DEF a, b, rx, ry, area, sx, sy, off
  <2>3. \A p \in area : Sample(sx, rx, a(p)) = sx + a(p) /\ Sample(sy, ry, b(p)) = sy + b(p)
    BY <2>1, <2>2, SampleOfWhole
  <2>4. f = g
    BY <2>3
  <2> HIDE DEF f, g
  <2> QED
    BY <1>1, <1>2, <1>4, <2>4 DEF sx, sy
<1> QED
  BY <1>3, <1>4

\* A cell of the map is the sprite it has.
CellIsSprite(d, s, cl, fl, n, x, y, cx, cy) ==
    Spr(d, s, n, x, y, Tile, Tile, FALSE, FALSE) = Map(d, s, cl, fl, cx, cy, x, y, 1, 1, {})

\* A sprite is a map of one cell.
LEMMA SprIsMap ==
  ASSUME NEW d, Windowed(d), OnScreen(d), NEW s, NEW cl, NEW fl, NEW n \in Nat, n # 0,
         NEW x \in Int, NEW y \in Int,
         NEW cx \in 0 .. MapSide - 1, NEW cy \in 0 .. MapSide - 1, cl[<<cx, cy>>] = n
  PROVE  CellIsSprite(d, s, cl, fl, n, x, y, cx, cy)
<1> DEFINE mx == Greater(-x, 0)
           my == Greater(-y, 0)
           left == x + mx
           top == y + my
           sx == cx * Tile + mx
           sy == cy * Tile + my
           w == 1 * Tile - mx - Greater(1 * Tile + x - Side, 0)
           h == 1 * Tile - my - Greater(1 * Tile + y - Side, 0)
           atX(p) == sx + p[1] - left
           atY(p) == sy + p[2] - top
           spot(p) == <<Quotient(atX(p), Tile), Quotient(atY(p), Tile)>>
           seen(p) ==
               /\ atX(p) >= 0 /\ atX(p) < MapSide * Tile
               /\ atY(p) >= 0 /\ atY(p) < MapSide * Tile
               /\ {} = {} \/ fl[cl[spot(p)]] \cap {} # {}
               /\ cl[spot(p)] # 0 \/ d.spriteZero
           onMap(p) == Texel(s, (cl[spot(p)] % PerRow) * Tile + (atX(p) % Tile),
                                (cl[spot(p)] \div PerRow) * Tile + (atY(p) % Tile))
           onSprite(p) == Texel(s, (n % PerRow) * Tile + (p[1] - x), (n \div PerRow) * Tile + (p[2] - y))
           area == (x .. x + Tile - 1) \X (y .. y + Tile - 1)
           cut == (left .. left + w - 1) \X (top .. top + h - 1)
           shown == {q \in cut : seen(q)}
           f == [p \in area |-> onSprite(p)]
           g == [p \in shown |-> onMap(p)]
           off == x + Tile <= 0 \/ x >= Side \/ y + Tile <= 0 \/ y >= Side
<1>1. Spr(d, s, n, x, y, Tile, Tile, FALSE, FALSE) = IF off THEN << >> ELSE Image(d, f)
  BY DEF Spr
<1>2. Map(d, s, cl, fl, cx, cy, x, y, 1, 1, {}) = IF h <= 0 \/ w <= 0 THEN << >> ELSE Image(d, g)
  BY DEF Map
<1>3. /\ Tile \in Nat \ {0} /\ Side \in Nat /\ Tile <= Side /\ MapSide \in Nat
      /\ cx \in Nat /\ cy \in Nat /\ cx < MapSide /\ cy < MapSide
  BY ShapesConstants, TileFits
<1>4. off <=> h <= 0 \/ w <= 0
  BY <1>3 DEF Greater
<1>5. ASSUME NEW p \in area
      PROVE  /\ atX(p) = cx * Tile + (p[1] - x) /\ atY(p) = cy * Tile + (p[2] - y)
             /\ p[1] - x \in 0 .. Tile - 1 /\ p[2] - y \in 0 .. Tile - 1
  <2>1. cx * Tile \in Int /\ cy * Tile \in Int /\ p[1] \in Int /\ p[2] \in Int
    BY <1>3
  <2>2. p[1] - x \in 0 .. Tile - 1 /\ p[2] - y \in 0 .. Tile - 1
    BY <1>3
  <2>3. mx \in Int /\ my \in Int
    BY DEF Greater
  <2> DEFINE k == cx * Tile  l == cy * Tile
  <2> HIDE DEF k, l, mx, my
  <2>4. /\ (k + mx) + p[1] - (x + mx) = k + (p[1] - x)
        /\ (l + my) + p[2] - (y + my) = l + (p[2] - y)
    BY <2>1, <2>3 DEF k, l
  <2> QED
    BY <2>2, <2>4 DEF k, l
<1>6. ASSUME NEW p \in area
      PROVE  seen(p) /\ onMap(p) = onSprite(p)
  <2> DEFINE i == p[1] - x
             j == p[2] - y
             ax == atX(p)
             ay == atY(p)
  <2>1. i \in 0 .. Tile - 1 /\ j \in 0 .. Tile - 1 /\ ax = cx * Tile + i /\ ay = cy * Tile + j
    BY <1>5
  <2> HIDE DEF i, j, ax, ay
  <2>2. ax \div Tile = cx /\ ax % Tile = i /\ ax \in Int /\ ax >= 0 /\ ax < MapSide * Tile
    BY <1>3, <2>1, InCell
  <2>3. ay \div Tile = cy /\ ay % Tile = j /\ ay \in Int /\ ay >= 0 /\ ay < MapSide * Tile
    BY <1>3, <2>1, InCell
  <2>4. Quotient(ax, Tile) = cx /\ Quotient(ay, Tile) = cy
    BY <2>2, <2>3 DEF Quotient
  <2>6. cl[<<Quotient(ax, Tile), Quotient(ay, Tile)>>] = n
    BY <2>4
  <2>7. cl[spot(p)] = n
    BY <2>6 DEF ax, ay
  <2>8. seen(p)
    <3> HIDE DEF atX, atY, spot
    <3> QED
      BY <2>2, <2>3, <2>7 DEF ax, ay
  <2>9. onMap(p) = onSprite(p)
    <3>1. atX(p) % Tile = p[1] - x /\ atY(p) % Tile = p[2] - y
      BY <2>2, <2>3 DEF ax, ay, i, j
    <3> HIDE DEF atX, atY, spot
    <3> QED
      BY <2>7, <3>1
  <2> QED
    BY <2>8, <2>9
<1>7. ASSUME NEW p, Within(d, p)
      PROVE  p \in area <=> p \in shown
  <2>1. /\ d.clip.x1 \in Nat /\ d.clip.x2 \in Int /\ d.clip.x2 <= Side
        /\ d.clip.y1 \in Nat /\ d.clip.y2 \in Int /\ d.clip.y2 <= Side
    BY <1>3 DEF Windowed, OnScreen
  <2>2. /\ p[1] >= d.clip.x1 /\ p[1] < d.clip.x2 /\ p[2] >= d.clip.y1 /\ p[2] < d.clip.y2
    BY <1>7 DEF Within
  <2>3. p[1] \in Int => (p[1] \in x .. x + Tile - 1 <=> p[1] \in left .. left + w - 1)
    BY <1>3, <2>1, <2>2 DEF Greater
  <2>4. p[2] \in Int => (p[2] \in y .. y + Tile - 1 <=> p[2] \in top .. top + h - 1)
    BY <1>3, <2>1, <2>2 DEF Greater
  <2>5. /\ \A k \in left .. left + w - 1 : k \in Int
        /\ \A k \in top .. top + h - 1 : k \in Int
        /\ \A k \in x .. x + Tile - 1 : k \in Int
        /\ \A k \in y .. y + Tile - 1 : k \in Int
    BY <1>3 DEF Greater
  <2>6. p \in area <=> p \in cut
    <3> DEFINE c1 == left .. left + w - 1  c2 == top .. top + h - 1
               a1 == x .. x + Tile - 1  a2 == y .. y + Tile - 1
    <3>1. (p[1] \in a1 <=> p[1] \in c1) /\ (p[2] \in a2 <=> p[2] \in c2)
      BY <2>3, <2>4, <2>5
    <3> HIDE DEF c1, c2, a1, a2
    <3>2. p \in a1 \X a2 <=> p \in c1 \X c2
      BY <3>1
    <3> QED
      BY <3>2 DEF c1, c2, a1, a2
  <2> HIDE DEF area, cut, seen
  <2> QED
    BY <1>6, <2>6
<1>8. Image(d, f) = Image(d, g)
  <2> HIDE DEF area, shown, onMap, onSprite
  <2>1. DOMAIN f = area /\ DOMAIN g = shown
    OBVIOUS
  <2>2. \A p \in area : Within(d, p) => f[p] = g[p]
    BY <1>6, <1>7
  <2> HIDE DEF f, g
  <2> QED
    BY <1>7, <2>1, <2>2, SameImage
<1> QED
  <2> HIDE DEF f, g, off, h, w
  <2> QED
    BY <1>1, <1>2, <1>4, <1>8 DEF CellIsSprite

\* SpritesAgree: spr and sspr draw the same sprite, flipped or cut by the screen as it may
\* be, and so does map in a window that ends there; each has a loop of its own over the
\* texels.
THEOREM SpritesAreTheSame == DrawSpec => []SpritesAgree
<1>1. DrawingInv => SpritesAgree
  <2> SUFFICES ASSUME DrawingInv, last.call = "spr"
               PROVE  LET s == last.args
                          x == CamX(s.x)
                          y == CamY(s.y)
                      IN  /\ Spr(ds, sheet, s.n, x, y, s.w, s.h, s.flipX, s.flipY)
                                = Sspr(ds, sheet, (s.n % PerRow) * Tile, (s.n \div PerRow) * Tile, s.w, s.h,
                                       x, y, s.w, s.h, s.flipX, s.flipY)
                          /\ OnScreen(ds) /\ s.w = Tile /\ s.h = Tile /\ ~s.flipX /\ ~s.flipY /\ s.n # 0 =>
                                \A cell \in Cells : cels[cell] = s.n =>
                                    Spr(ds, sheet, s.n, x, y, s.w, s.h, FALSE, FALSE)
                                      = Map(ds, sheet, cels, flags, cell[1], cell[2], x, y, 1, 1, {})
    BY DEF SpritesAgree
  <2> DEFINE s == last.args
             x == CamX(s.x)
             y == CamY(s.y)
  <2>1. s \in SpriteCalls
    BY DEF DrawingInv, LastCall
  <2>2. /\ s.n \in Nat /\ s.w \in Nat /\ s.h \in Nat /\ s.flipX \in BOOLEAN /\ s.flipY \in BOOLEAN
        /\ s.x \in Int /\ s.y \in Int
    <3> HIDE DEF s
    <3> QED
      BY <2>1, DrawingConstants
  <2>3. x \in Int /\ y \in Int
    <3> HIDE DEF s
    <3> QED
      BY <2>2, CamerasAreShort DEF DrawingInv
  <2>4. Windowed(ds)
    BY WindowedState DEF DrawingInv, Pictures
  <2> HIDE DEF s, x, y
  <2>5. Spr(ds, sheet, s.n, x, y, s.w, s.h, s.flipX, s.flipY)
          = Sspr(ds, sheet, (s.n % PerRow) * Tile, (s.n \div PerRow) * Tile, s.w, s.h,
                 x, y, s.w, s.h, s.flipX, s.flipY)
    BY <2>2, <2>3, SprIsSspr
  <2>6. ASSUME OnScreen(ds), s.n # 0, NEW cell \in Cells, cels[cell] = s.n
        PROVE  Spr(ds, sheet, s.n, x, y, Tile, Tile, FALSE, FALSE)
                 = Map(ds, sheet, cels, flags, cell[1], cell[2], x, y, 1, 1, {})
    <3> DEFINE n == s.n  cx == cell[1]  cy == cell[2]
    <3>1. n \in Nat /\ n # 0
      BY <2>2, <2>6
    <3>2. cx \in 0 .. MapSide - 1 /\ cy \in 0 .. MapSide - 1 /\ cels[<<cx, cy>>] = n
      BY <2>6 DEF Cells
    <3> HIDE DEF n, cx, cy
    <3>3. CellIsSprite(ds, sheet, cels, flags, n, x, y, cx, cy)
      BY <2>3, <2>4, <2>6, <3>1, <3>2, SprIsMap
    <3> QED
      BY <3>3 DEF CellIsSprite, n, cx, cy
  <2>7. /\ Spr(ds, sheet, s.n, x, y, s.w, s.h, s.flipX, s.flipY)
              = Sspr(ds, sheet, (s.n % PerRow) * Tile, (s.n \div PerRow) * Tile, s.w, s.h,
                     x, y, s.w, s.h, s.flipX, s.flipY)
        /\ OnScreen(ds) /\ s.w = Tile /\ s.h = Tile /\ ~s.flipX /\ ~s.flipY /\ s.n # 0 =>
              \A cell \in Cells : cels[cell] = s.n =>
                  Spr(ds, sheet, s.n, x, y, s.w, s.h, FALSE, FALSE)
                    = Map(ds, sheet, cels, flags, cell[1], cell[2], x, y, 1, 1, {})
    BY <2>5, <2>6
  <2> QED
    BY <2>7 DEF s, x, y
<1> QED
  BY <1>1, DrawingTyped, PTL

-----------------------------------------------------------------------------
(* The bits of a number.                                                   *)

\* 1 << k.
LEMMA Shifts ==
  ASSUME NEW k \in 0 .. 23
  PROVE  Shift(k) \in Nat \ {0} /\ Shift(k + 1) = 2 * Shift(k)
<1>1. \A j \in 0 .. 23 : j \in {0, 1, 2, 3, 4, 5, 6, 7, 8, 9, 10, 11, 12, 13, 14, 15, 16, 17, 18, 19, 20, 21, 22, 23}
  OBVIOUS
<1> QED
  BY <1>1 DEF Shift

LEMMA ShiftIsPositive == ASSUME NEW k \in 0 .. 24 PROVE Shift(k) \in Nat \ {0}
<1>1. Shift(24) = 2 * Shift(23) /\ Shift(23) \in Nat \ {0}
  BY Shifts
<1>2. CASE k \in 0 .. 23
  BY <1>2, Shifts
<1>3. CASE k = 24
  BY <1>1, <1>3
<1> QED
  BY <1>2, <1>3

\* Half of a quotient is the quotient by the double.
LEMMA HalfOfQuotient ==
  ASSUME NEW n \in Nat, NEW m \in Nat \ {0}
  PROVE  n \div (2 * m) = (n \div m) \div 2
  OBVIOUS

\* GetBits as it goes.
IsNumber(g, bits, pos, count, n) ==
    g = [k \in 0 .. n |-> IF k = 0 THEN 0 ELSE 2 * g[k - 1] + BitAt(bits, pos + count - k)]

\* A loop of the code is a function that CHOOSE picks: it exists, and is the one meant.
LEMMA NumberExists == ASSUME NEW bits, NEW pos, NEW count, NEW n \in Nat
  PROVE \E g : IsNumber(g, bits, pos, count, n)
<1> DEFINE S == {m \in Nat : \E g : IsNumber(g, bits, pos, count, m)}
<1>1. 0 \in S
  <2> DEFINE g == [k \in 0 .. 0 |-> 0]
  <2>1. \A k \in 0 .. 0 : k = 0
    OBVIOUS
  <2>2. g = [k \in 0 .. 0 |-> IF k = 0 THEN 0 ELSE 2 * g[k - 1] + BitAt(bits, pos + count - k)]
    BY <2>1
  <2> QED
    BY <2>2 DEF IsNumber
<1>2. ASSUME NEW m \in Nat, m \in S PROVE m + 1 \in S
  <2>1. PICK g : IsNumber(g, bits, pos, count, m)
    BY <1>2
  <2> DEFINE h == [k \in 0 .. m + 1 |-> IF k = m + 1 THEN 2 * g[m] + BitAt(bits, pos + count - (m + 1))
         ELSE g[k]]
  <2>2. \A k \in 0 .. m : g[k] = IF k = 0 THEN 0 ELSE 2 * g[k - 1] + BitAt(bits, pos + count - k)
    BY <2>1 DEF IsNumber
  <2>3. \A k \in 0 .. m + 1 : h[k] = IF k = 0 THEN 0 ELSE 2 * h[k - 1] + BitAt(bits, pos + count - k)
    <3> TAKE k \in 0 .. m + 1
    <3>1. CASE k = m + 1
      <4>1. k - 1 = m /\ k # 0 /\ h[m] = g[m]
        BY <3>1
      <4> QED
        BY <3>1, <4>1
    <3>2. CASE k # m + 1
      <4>1. k \in 0 .. m /\ h[k] = g[k] /\ (k # 0 => h[k - 1] = g[k - 1])
        BY <3>2
      <4> QED
        BY <2>2, <4>1
    <3> QED
      BY <3>1, <3>2
  <2>4. h = [k \in 0 .. m + 1 |-> h[k]]
    OBVIOUS
  <2> HIDE DEF h
  <2>5. IsNumber(h, bits, pos, count, m + 1)
    BY <2>3, <2>4 DEF IsNumber
  <2> QED
    BY <2>5
<1>3. Nat \subseteq S
  <2> HIDE DEF S
  <2> QED
    BY <1>1, <1>2, Counting
<1> QED
  BY <1>3

Bit == 0 .. 1

LEMMA NumberIs ==
  ASSUME NEW bits, NEW pos, NEW count \in Nat
  PROVE  \E g : IsNumber(g, bits, pos, count, count) /\ GetBits(bits, pos, count) = g[count]
<1>1. \E g : IsNumber(g, bits, pos, count, count)
  BY NumberExists
<1> DEFINE number == CHOOSE f : f = [k \in 0 .. count |->
                         IF k = 0 THEN 0 ELSE 2 * f[k - 1] + BitAt(bits, pos + count - k)]
<1>2. GetBits(bits, pos, count) = number[count]
  BY DEF GetBits
<1>3. number = CHOOSE g : IsNumber(g, bits, pos, count, count)
  BY Zenon DEF IsNumber
<1> HIDE DEF number
<1> QED
  BY <1>1, <1>2, <1>3

\* A piece of a stream stands at a position of it.
Stands(bits, pos, piece) ==
    /\ pos + Len(piece) <= Len(bits) + 1
    /\ \A k \in 1 .. Len(piece) : BitAt(bits, pos + k - 1) = piece[k]

\* As many bits are put as were asked for.
LEMMA PutBitsAreBits ==
  ASSUME NEW count \in 0 .. 25, NEW n \in Int
  PROVE  PutBits(count, n) \in Seq(Bit) /\ Len(PutBits(count, n)) = count
<1>1. \A k \in 1 .. count : Shift(k - 1) \in Nat \ {0}
  BY ShiftIsPositive
<1>2. \A m \in Nat \ {0} : (n \div m) % 2 \in Bit
  BY DEF Bit
<1>3. \A k \in 1 .. count : (n \div Shift(k - 1)) % 2 \in Bit
  BY <1>1, <1>2
<1> QED
  BY <1>3 DEF PutBits

\* A single bit that is got is that bit.
LEMMA OneBit ==
  ASSUME NEW bits \in Seq(Bit), NEW pos \in Nat \ {0}
  PROVE  GetBits(bits, pos, 1) = BitAt(bits, pos) /\ BitAt(bits, pos) \in Bit
<1>1. PICK g : IsNumber(g, bits, pos, 1, 1) /\ GetBits(bits, pos, 1) = g[1]
  BY NumberIs
<1>2. BitAt(bits, pos) \in Bit
  BY DEF BitAt, Bit
<1>3. g[0] = 0 /\ g[1] = 2 * g[0] + BitAt(bits, pos + 1 - 1)
  BY <1>1 DEF IsNumber
<1> QED
  BY <1>1, <1>2, <1>3 DEF Bit

\* The bits of a number that stands in the stream.
LEMMA StandingBit ==
  ASSUME NEW bits, NEW pos \in Nat, NEW count \in 0 .. 24, NEW n \in Nat,
         Stands(bits, pos, PutBits(count, n)), NEW j \in 0 .. count - 1
  PROVE  BitAt(bits, pos + j) = (n \div Shift(j)) % 2
<1>1. j + 1 \in 1 .. Len(PutBits(count, n)) /\ pos + (j + 1) - 1 = pos + j
  <2>1. count \in 0 .. 25 /\ n \in Int
    OBVIOUS
  <2>2. Len(PutBits(count, n)) = count
    BY <2>1, PutBitsAreBits
  <2> QED
    BY <2>2
<1>2. PutBits(count, n)[j + 1] = (n \div Shift((j + 1) - 1)) % 2
  BY DEF PutBits
<1>3. (j + 1) - 1 = j
  OBVIOUS
<1> QED
  BY <1>1, <1>2, <1>3 DEF Stands

\* The bits that were put are the number again.
LEMMA GetsWhatWasPut ==
  ASSUME NEW bits, NEW pos \in Nat, NEW count \in 0 .. 24, NEW n \in Nat, n < Shift(count),
         Stands(bits, pos, PutBits(count, n))
  PROVE  GetBits(bits, pos, count) = n
<1>1. PICK g : IsNumber(g, bits, pos, count, count) /\ GetBits(bits, pos, count) = g[count]
  BY NumberIs
<1>2. \A k \in 0 .. count : g[k] = IF k = 0 THEN 0 ELSE 2 * g[k - 1] + BitAt(bits, pos + count - k)
  BY <1>1 DEF IsNumber
<1>3. \A j \in 0 .. count - 1 : BitAt(bits, pos + j) = (n \div Shift(j)) % 2
  BY StandingBit
<1> DEFINE S == {k \in Nat : k <= count => g[k] = n \div Shift(count - k)}
<1>4. 0 \in S
  <2>1. n \div Shift(count) = 0
    <3>1. Shift(count) \in Nat \ {0}
      BY ShiftIsPositive
    <3> QED
      BY <3>1
  <2> QED
    BY <1>2, <2>1
<1>5. ASSUME NEW k \in Nat, k \in S PROVE k + 1 \in S
  <2> SUFFICES ASSUME k + 1 <= count PROVE g[k + 1] = n \div Shift(count - (k + 1))
    OBVIOUS
  <2> DEFINE j == count - (k + 1)
             m == Shift(j)
  <2>1. j \in 0 .. 23 /\ j \in 0 .. count - 1 /\ count - k = j + 1 /\ pos + count - (k + 1) = pos + j
    OBVIOUS
  <2>2. m \in Nat \ {0} /\ Shift(count - k) = 2 * m
    BY <2>1, Shifts
  <2>3. g[k] = n \div (2 * m)
    BY <1>5, <2>2
  <2>4. g[k + 1] = 2 * g[k] + BitAt(bits, pos + j)
    BY <1>2, <2>1
  <2>5. BitAt(bits, pos + j) = (n \div m) % 2
    BY <1>3, <2>1
  <2> HIDE DEF m
  <2>6. n \div (2 * m) = (n \div m) \div 2
    BY <2>2, HalfOfQuotient
  <2>8. n \div m \in Nat
    BY <2>2
  <2>7. g[k + 1] = n \div m
    BY <2>3, <2>4, <2>5, <2>6, <2>8
  <2> QED
    BY <2>7 DEF m
<1>6. Nat \subseteq S
  <2> HIDE DEF S
  <2> QED
    BY <1>4, <1>5, Counting
<1>7. g[count] = n \div Shift(0)
  BY <1>6
<1> QED
  BY <1>1, <1>7 DEF Shift

\* The lowest bit, and the others.
LEMMA LowestBit ==
  ASSUME NEW bits \in Seq(Bit), NEW pos \in Nat, NEW count \in 1 .. 24, NEW n \in Nat,
         Stands(bits, pos, PutBits(count, n))
  PROVE  BitAt(bits, pos) = n % 2 /\ Stands(bits, pos + 1, PutBits(count - 1, n \div 2))
<1>0. Len(PutBits(count, n)) = count /\ Len(PutBits(count - 1, n \div 2)) = count - 1
  <2>1. count \in 0 .. 25 /\ count - 1 \in 0 .. 25 /\ n \in Int /\ n \div 2 \in Int
    OBVIOUS
  <2> QED
    BY <2>1, PutBitsAreBits
<1>1. \A j \in 0 .. count - 1 : BitAt(bits, pos + j) = (n \div Shift(j)) % 2
  <2>1. count \in 0 .. 24
    OBVIOUS
  <2> QED
    BY <2>1, StandingBit
<1>2. BitAt(bits, pos) = n % 2
  <2>1. Shift(0) = 1
    BY DEF Shift
  <2>2. BitAt(bits, pos + 0) = (n \div Shift(0)) % 2
    BY <1>1
  <2> QED
    BY <2>1, <2>2
<1>3. ASSUME NEW k \in 1 .. count - 1
      PROVE  BitAt(bits, (pos + 1) + k - 1) = PutBits(count - 1, n \div 2)[k]
  <2> DEFINE m == Shift(k - 1)
  <2>1. m \in Nat \ {0} /\ Shift(k) = 2 * m
    <3>1. k - 1 \in 0 .. 23 /\ (k - 1) + 1 = k
      OBVIOUS
    <3> HIDE DEF m
    <3> QED
      BY <3>1, Shifts DEF m
  <2>2. BitAt(bits, pos + k) = (n \div (2 * m)) % 2
    BY <1>1, <2>1
  <2>3. PutBits(count - 1, n \div 2)[k] = ((n \div 2) \div m) % 2
    BY DEF PutBits
  <2>4. (pos + 1) + k - 1 = pos + k
    OBVIOUS
  <2> HIDE DEF m
  <2>5. n \div (2 * m) = (n \div 2) \div m
    BY <2>1
  <2> QED
    BY <2>2, <2>3, <2>4, <2>5
<1>4. (pos + 1) + (count - 1) <= Len(bits) + 1
  BY <1>0 DEF Stands
<1> QED
  BY <1>0, <1>2, <1>3, <1>4 DEF Stands

-----------------------------------------------------------------------------
(* Pieces of a stream, and the fields of one width in it.                  *)

LEMMA Joined ==
  ASSUME NEW one \in Seq(Bit), NEW two \in Seq(Bit)
  PROVE  one \o two \in Seq(Bit) /\ Len(one \o two) = Len(one) + Len(two)
  OBVIOUS

\* What stands in a stream stands there part by part.
LEMMA StandsInParts ==
  ASSUME NEW bits \in Seq(Bit), NEW pos \in Nat, NEW one \in Seq(Bit), NEW two \in Seq(Bit),
         Stands(bits, pos, one \o two)
  PROVE  Stands(bits, pos, one) /\ Stands(bits, pos + Len(one), two)
<1>1. Len(one \o two) = Len(one) + Len(two) /\ Len(one) \in Nat /\ Len(two) \in Nat
  OBVIOUS
<1>2. ASSUME NEW k \in 1 .. Len(one) PROVE BitAt(bits, pos + k - 1) = one[k]
  <2>1. k \in 1 .. Len(one \o two) /\ (one \o two)[k] = one[k]
    BY <1>1
  <2> QED
    BY <2>1 DEF Stands
<1>3. ASSUME NEW k \in 1 .. Len(two) PROVE BitAt(bits, (pos + Len(one)) + k - 1) = two[k]
  <2>1. Len(one) + k \in 1 .. Len(one \o two) /\ (one \o two)[Len(one) + k] = two[k]
    BY <1>1
  <2>2. BitAt(bits, pos + (Len(one) + k) - 1) = two[k]
    BY <2>1 DEF Stands
  <2>3. pos + (Len(one) + k) - 1 = (pos + Len(one)) + k - 1
    BY <1>1
  <2> QED
    BY <2>2, <2>3
<1>4. pos + Len(one) <= Len(bits) + 1 /\ (pos + Len(one)) + Len(two) <= Len(bits) + 1
  <2>1. pos + (Len(one) + Len(two)) <= Len(bits) + 1
    BY <1>1 DEF Stands
  <2> QED
    BY <2>1
<1> QED
  BY <1>2, <1>3, <1>4 DEF Stands

\* A number of Fields is put like any other.
LEMMA FieldsAreBits ==
  ASSUME NEW width \in {3, 8}, NEW values \in Seq(0 .. 255)
  PROVE  Fields(width, values) \in Seq(Bit) /\ Len(Fields(width, values)) = width * Len(values)
<1>1. \A n \in 0 .. 255, m \in Nat \ {0} : (n \div m) % 2 \in Bit
  BY DEF Bit
<1>2. ASSUME NEW k \in 1 .. width * Len(values)
      PROVE  (values[(k - 1) \div width + 1] \div Shift((k - 1) % width)) % 2 \in Bit
  <2>1. (k - 1) \div width + 1 \in 1 .. Len(values) /\ (k - 1) % width \in 0 .. 24
    OBVIOUS
  <2>2. values[(k - 1) \div width + 1] \in 0 .. 255
    BY <2>1, ElementOfSeq
  <2>3. Shift((k - 1) % width) \in Nat \ {0}
    BY <2>1, ShiftIsPositive
  <2> QED
    BY <1>1, <2>2, <2>3
<1>3. width * Len(values) \in Nat
  OBVIOUS
<1> QED
  BY <1>2, <1>3 DEF Fields

\* Bit k of field h, among fields of one width.
LEMMA Slots ==
  ASSUME NEW width \in {3, 8}, NEW n \in Nat, NEW h \in 1 .. n, NEW k \in 1 .. width
  PROVE  \E j \in 1 .. width * n :
            j = width * (h - 1) + k /\ (j - 1) \div width = h - 1 /\ (j - 1) % width = k - 1
<1>1. CASE width = 3
  BY <1>1
<1>2. CASE width = 8
  BY <1>2
<1> QED
  BY <1>1, <1>2

\* A field stands where those before it end.
LEMMA FieldStands ==
  ASSUME NEW bits \in Seq(Bit), NEW pos \in Nat, NEW width \in {3, 8}, NEW values \in Seq(0 .. 255),
         Stands(bits, pos, Fields(width, values)), NEW h \in 1 .. Len(values)
  PROVE  Stands(bits, pos + width * (h - 1), PutBits(width, values[h]))
<1>0. values[h] \in Int /\ width \in 0 .. 25
  <2>1. values[h] \in 0 .. 255
    BY ElementOfSeq
  <2>2. \A x \in 0 .. 255 : x \in Int
    OBVIOUS
  <2>3. width \in 0 .. 25
    OBVIOUS
  <2> QED
    BY <2>1, <2>2, <2>3, Zenon
<1>1. Len(PutBits(width, values[h])) = width
  BY <1>0, PutBitsAreBits
<1>2. ASSUME NEW k \in 1 .. width
      PROVE  BitAt(bits, pos + width * (h - 1) + k - 1) = PutBits(width, values[h])[k]
  <2>1. PICK j \in 1 .. width * Len(values) :
            j = width * (h - 1) + k /\ (j - 1) \div width = h - 1 /\ (j - 1) % width = k - 1
    <3>1. Len(values) \in Nat
      OBVIOUS
    <3> QED
      BY <3>1, Slots, Zenon
  <2>2. Fields(width, values)[j] = (values[h] \div Shift(k - 1)) % 2
    BY <2>1 DEF Fields
  <2>3. PutBits(width, values[h])[k] = (values[h] \div Shift(k - 1)) % 2
    BY DEF PutBits
  <2>4. BitAt(bits, pos + j - 1) = Fields(width, values)[j]
    BY <2>1, FieldsAreBits DEF Stands
  <2>5. pos + j - 1 = pos + width * (h - 1) + k - 1
    <3>1. width * (h - 1) \in Int /\ k \in Int
      OBVIOUS
    <3> QED
      BY <2>1, <3>1
  <2> QED
    BY <2>2, <2>3, <2>4, <2>5
<1>3. pos + width * (h - 1) + width <= Len(bits) + 1
  <2>1. pos + width * Len(values) <= Len(bits) + 1
    BY FieldsAreBits DEF Stands
  <2>2. width * (h - 1) + width <= width * Len(values)
    <3>1. Len(values) \in Nat
      OBVIOUS
    <3>2. CASE width = 3
      BY <3>1, <3>2
    <3>3. CASE width = 8
      BY <3>1, <3>3
    <3> QED
      BY <3>2, <3>3
  <2> QED
    BY <2>1, <2>2
<1> QED
  BY <1>1, <1>2, <1>3 DEF Stands

\* The width of a byte's code fits its place in the list.
LEMMA WidthOfByte ==
  ASSUME NEW n \in 0 .. 255
  PROVE  LET w == CompressBits(n)
         IN  w \in {4, 5, 6, 7, 8} /\ n - Shift(w) + 16 \in Nat /\ n - Shift(w) + 16 < Shift(w)
<1>1. Shift(4) = 16 /\ Shift(5) = 32 /\ Shift(6) = 64 /\ Shift(7) = 128 /\ Shift(8) = 256
  BY DEF Shift
<1>2. CASE n < 16
  BY <1>1, <1>2 DEF CompressBits
<1>3. CASE n >= 16 /\ n < 48
  BY <1>1, <1>3 DEF CompressBits
<1>4. CASE n >= 48 /\ n < 112
  BY <1>1, <1>4 DEF CompressBits
<1>5. CASE n >= 112 /\ n < 240
  BY <1>1, <1>5 DEF CompressBits
<1>6. CASE n >= 240
  BY <1>1, <1>6 DEF CompressBits
<1> QED
  BY <1>2, <1>3, <1>4, <1>5, <1>6

\* The prefix of a byte: ones, and a zero that ends them.
LEMMA Unary ==
  ASSUME NEW w \in {4, 5, 6, 7, 8}
  PROVE  /\ Shift(w - 3) - 1 \in Nat
         /\ \A j \in 0 .. w - 4 : ((Shift(w - 3) - 1) \div Shift(j)) % 2 = 1
         /\ ((Shift(w - 3) - 1) \div Shift(w - 3)) % 2 = 0
<1>1. Shift(0) = 1 /\ Shift(1) = 2 /\ Shift(2) = 4 /\ Shift(3) = 8 /\ Shift(4) = 16 /\ Shift(5) = 32
  BY DEF Shift
<1>2. CASE w = 4
  <2>1. \A j \in 0 .. 0 : j = 0
    OBVIOUS
  <2> QED
    BY <1>1, <1>2, <2>1
<1>3. CASE w = 5
  <2>1. \A j \in 0 .. 1 : j = 0 \/ j = 1
    OBVIOUS
  <2> QED
    BY <1>1, <1>3, <2>1
<1>4. CASE w = 6
  <2>1. \A j \in 0 .. 2 : j = 0 \/ j = 1 \/ j = 2
    OBVIOUS
  <2> QED
    BY <1>1, <1>4, <2>1
<1>5. CASE w = 7
  <2>1. \A j \in 0 .. 3 : j = 0 \/ j = 1 \/ j = 2 \/ j = 3
    OBVIOUS
  <2> QED
    BY <1>1, <1>5, <2>1
<1>6. CASE w = 8
  <2>1. \A j \in 0 .. 4 : j = 0 \/ j = 1 \/ j = 2 \/ j = 3 \/ j = 4
    OBVIOUS
  <2> QED
    BY <1>1, <1>6, <2>1
<1> QED
  BY <1>2, <1>3, <1>4, <1>5, <1>6

\* The count of bits, bytes or groups before the one that ends them.
LEMMA OnesAre ==
  ASSUME NEW bits \in Seq(Bit), NEW pos \in Nat, NEW k \in 0 .. Len(bits),
         BitAt(bits, pos + k) = 0, \A h \in 0 .. k - 1 : BitAt(bits, pos + h) = 1
  PROVE  Ones(bits, pos) = k
<1>1. ASSUME NEW j \in 0 .. Len(bits), BitAt(bits, pos + j) = 0,
             \A h \in 0 .. j - 1 : BitAt(bits, pos + h) = 1
      PROVE  j = k
  <2>1. ~(j < k)
    BY <1>1
  <2>2. ~(k < j)
    BY <1>1
  <2> QED
    BY <2>1, <2>2
<1> QED
  BY <1>1 DEF Ones

LEMMA RawLengthIs ==
  ASSUME NEW bits \in Seq(Bit), NEW pos \in Nat, NEW k \in 0 .. Len(bits),
         GetBits(bits, pos + 8 * k, 8) = 0, \A h \in 0 .. k - 1 : GetBits(bits, pos + 8 * h, 8) # 0
  PROVE  RawLength(bits, pos) = k
<1>1. ASSUME NEW j \in 0 .. Len(bits), GetBits(bits, pos + 8 * j, 8) = 0,
             \A h \in 0 .. j - 1 : GetBits(bits, pos + 8 * h, 8) # 0
      PROVE  j = k
  <2>1. ~(j < k)
    BY <1>1
  <2>2. ~(k < j)
    BY <1>1
  <2> QED
    BY <2>1, <2>2
<1> QED
  BY <1>1 DEF RawLength

LEMMA SevensAre ==
  ASSUME NEW bits \in Seq(Bit), NEW pos \in Nat, NEW k \in 0 .. Len(bits),
         GetBits(bits, pos + 3 * k, 3) # 7, \A h \in 0 .. k - 1 : GetBits(bits, pos + 3 * h, 3) = 7
  PROVE  Sevens(bits, pos) = k
<1>1. ASSUME NEW j \in 0 .. Len(bits), GetBits(bits, pos + 3 * j, 3) # 7,
             \A h \in 0 .. j - 1 : GetBits(bits, pos + 3 * h, 3) = 7
      PROVE  j = k
  <2>1. ~(j < k)
    BY <1>1
  <2>2. ~(k < j)
    BY <1>1
  <2> QED
    BY <2>1, <2>2
<1> QED
  BY <1>1 DEF Sevens

-----------------------------------------------------------------------------
(* What is written for a byte, a stored block and a reference is read back. *)

IsReadAsByte(bits, p, l, t, n) ==
    /\ GetBits(bits, p, 1) = 1
    /\ ReadByte(bits, Reading(p, l, t)) =
           Reading(p + Len(ByteBits(n)), Rotate(l, n), Append(t, Rotate(l, n)[1]))

\* A byte is read from its bits: its width, and its place on the list.
LEMMA ByteIsRead ==
  ASSUME NEW bits \in Seq(Bit), NEW p \in Nat \ {0}, NEW l, NEW t, NEW n \in 0 .. 255,
         Stands(bits, p, ByteBits(n)), Rotate(l, n)[1] # 0
  PROVE  IsReadAsByte(bits, p, l, t, n)
<1> DEFINE w == CompressBits(n)
           prefix == PutBits(w - 2, Shift(w - 3) - 1)
           number == PutBits(w, n - Shift(w) + 16)
<1>1. w \in {4, 5, 6, 7, 8} /\ n - Shift(w) + 16 \in Nat /\ n - Shift(w) + 16 < Shift(w)
  BY WidthOfByte
<1>2. ByteBits(n) = prefix \o number
  BY DEF ByteBits
<1> HIDE DEF w
<1>3. w - 2 \in 0 .. 24 /\ w \in 0 .. 24 /\ w - 2 \in 0 .. 25 /\ w \in 0 .. 25 /\ w - 3 \in 0 .. 24
         /\ w \in Nat
  BY <1>1
<1>4. Shift(w) \in Nat /\ Shift(w - 3) - 1 \in Nat
  BY <1>1, <1>3, ShiftIsPositive, Unary
<1>5. prefix \in Seq(Bit) /\ Len(prefix) = w - 2 /\ number \in Seq(Bit) /\ Len(number) = w
  <2>1. Shift(w - 3) - 1 \in Int /\ n - Shift(w) + 16 \in Int
    BY <1>1, <1>4
  <2> QED
    BY <1>3, <2>1, PutBitsAreBits
<1>6. Stands(bits, p, prefix) /\ Stands(bits, p + (w - 2), number)
  <2> HIDE DEF prefix, number
  <2>1. p \in Nat
    OBVIOUS
  <2>2. Stands(bits, p, prefix \o number)
    BY <1>2
  <2> QED
    BY <1>5, <2>1, <2>2, StandsInParts
<1>7. \A j \in 0 .. w - 3 : BitAt(bits, p + j) = ((Shift(w - 3) - 1) \div Shift(j)) % 2
  <2>1. \A j \in 0 .. (w - 2) - 1 : BitAt(bits, p + j) = ((Shift(w - 3) - 1) \div Shift(j)) % 2
    <3>1. PICK c, u : c = w - 2 /\ u = Shift(w - 3) - 1
      OBVIOUS
    <3>2. c \in 0 .. 24 /\ u \in Nat /\ Stands(bits, p, PutBits(c, u)) /\ p \in Nat
      BY <1>3, <1>4, <1>6, <3>1
    <3>3. \A j \in 0 .. c - 1 : BitAt(bits, p + j) = (u \div Shift(j)) % 2
      BY <3>2, StandingBit, ZenonT(60)
    <3> QED
      BY <3>1, <3>3
  <2>2. (w - 2) - 1 = w - 3
    BY <1>3
  <2> QED
    BY <2>1, <2>2
<1>8. (\A j \in 0 .. w - 4 : BitAt(bits, p + j) = 1) /\ BitAt(bits, p + (w - 3)) = 0
  <2>1. \A j \in 0 .. w - 4 : j \in 0 .. w - 3
    BY <1>3
  <2>2. w - 3 \in 0 .. w - 3
    BY <1>1
  <2> QED
    BY <1>1, <1>7, <2>1, <2>2, Unary
<1>9. GetBits(bits, p, 1) = 1
  <2>1. BitAt(bits, p + 0) = 1
    <3>1. 0 \in 0 .. w - 4
      BY <1>1
    <3> QED
      BY <1>8, <3>1
  <2> QED
    BY <2>1, OneBit
<1>10. Ones(bits, p + 1) = w - 4
  <2>1. w - 4 \in 0 .. Len(bits)
    <3>1. p + (w - 2) <= Len(bits) + 1 /\ Len(bits) \in Nat
      <4> HIDE DEF prefix, number
      <4>1. p + Len(prefix) <= Len(bits) + 1
        BY <1>6 DEF Stands
      <4>2. Len(bits) \in Nat
        OBVIOUS
      <4> QED
        BY <1>5, <4>1, <4>2
    <3> QED
      BY <1>1, <1>3, <3>1
  <2>2. BitAt(bits, (p + 1) + (w - 4)) = 0
    <3>1. (p + 1) + (w - 4) = p + (w - 3)
      BY <1>3
    <3> QED
      BY <1>8, <3>1
  <2>3. ASSUME NEW h \in 0 .. (w - 4) - 1 PROVE BitAt(bits, (p + 1) + h) = 1
    <3>1. h + 1 \in 0 .. w - 4 /\ (p + 1) + h = p + (h + 1)
      BY <1>3
    <3> QED
      BY <1>8, <3>1
  <2>4. p + 1 \in Nat
    OBVIOUS
  <2> QED
    BY <2>1, <2>2, <2>3, <2>4, OnesAre
<1>11. GetBits(bits, p + (w - 2), w) = n - Shift(w) + 16
  <2>1. p + (w - 2) \in Nat
    BY <1>1
  <2> QED
    BY <1>1, <1>3, <1>6, <2>1, GetsWhatWasPut
<1> DEFINE s == Reading(p, l, t)
           ones == Ones(bits, s.pos + 1)
           nbits == 4 + ones
           m == GetBits(bits, s.pos + ones + 2, nbits) + Shift(nbits) - 16
           list == Rotate(s.list, m)
<1>12. ReadByte(bits, s) =
          IF nbits > 24 \/ m >= 256 \/ list[1] = 0 THEN Stopped(s)
          ELSE Reading(s.pos + ones + 2 + nbits, list, Append(s.text, list[1]))
  BY DEF ReadByte
<1>18. s.pos = p /\ s.list = l /\ s.text = t
  BY DEF Reading
<1>13. ones = w - 4 /\ nbits = w /\ s.pos + ones + 2 = p + (w - 2)
          /\ s.pos + ones + 2 + nbits = p + (w - 2 + w)
  BY <1>3, <1>10, <1>18
<1> HIDE DEF ones, nbits, s
<1>14. m = n
  BY <1>1, <1>4, <1>11, <1>13
<1> HIDE DEF m
<1>15. list = Rotate(l, n)
  BY <1>14, <1>18
<1> HIDE DEF list
<1>16. ReadByte(bits, s) = Reading(p + (w - 2 + w), Rotate(l, n), Append(t, Rotate(l, n)[1]))
  <2>1. ~(nbits > 24 \/ m >= 256 \/ list[1] = 0)
    BY <1>3, <1>13, <1>14, <1>15
  <2> QED
    BY <1>12, <1>13, <1>15, <1>18, <2>1
<1>17. Len(ByteBits(n)) = w - 2 + w
  <2> HIDE DEF prefix, number
  <2> QED
    BY <1>2, <1>5, ConcatProperties
<1> QED
  BY <1>9, <1>16, <1>17 DEF s, IsReadAsByte

\* The three lowest bits, and the others.
LEMMA ThreeLowestBits ==
  ASSUME NEW bits \in Seq(Bit), NEW p \in Nat \ {0}, NEW count \in 3 .. 24, NEW n \in Nat,
         Stands(bits, p, PutBits(count, n))
  PROVE  /\ GetBits(bits, p, 1) = n % 2
         /\ GetBits(bits, p + 1, 1) = (n \div 2) % 2
         /\ GetBits(bits, p + 2, 1) = (n \div 4) % 2
         /\ Stands(bits, p + 2, PutBits(count - 2, n \div 4))
         /\ Stands(bits, p + 3, PutBits(count - 3, n \div 8))
<1>1. PICK a, b, c : a = n \div 2 /\ b = a \div 2 /\ c = b \div 2
  OBVIOUS
<1>2. a \in Nat /\ b \in Nat /\ b = n \div 4 /\ c = n \div 8
  BY <1>1
<1>3. PICK q, r, d, e : q = p + 1 /\ r = q + 1 /\ d = count - 1 /\ e = d - 1
  OBVIOUS
<1>4. /\ p \in Nat /\ q \in Nat \ {0} /\ r \in Nat \ {0} /\ r = p + 2 /\ r + 1 = p + 3
      /\ count \in 1 .. 24 /\ d \in 1 .. 24 /\ e \in 1 .. 24 /\ e = count - 2 /\ e - 1 = count - 3
      /\ q \in Nat /\ r \in Nat
  BY <1>3
<1>5. BitAt(bits, p) = n % 2 /\ Stands(bits, q, PutBits(d, a))
  <2>1. BitAt(bits, p) = n % 2 /\ Stands(bits, p + 1, PutBits(count - 1, n \div 2))
    BY <1>4, LowestBit, Zenon
  <2> QED
    BY <1>1, <1>3, <2>1
<1>6. BitAt(bits, q) = a % 2 /\ Stands(bits, r, PutBits(e, b))
  <2>1. BitAt(bits, q) = a % 2 /\ Stands(bits, q + 1, PutBits(d - 1, a \div 2))
    BY <1>2, <1>4, <1>5, LowestBit, Zenon
  <2> QED
    BY <1>1, <1>3, <2>1
<1>7. BitAt(bits, r) = b % 2 /\ Stands(bits, r + 1, PutBits(e - 1, c))
  <2>1. BitAt(bits, r) = b % 2 /\ Stands(bits, r + 1, PutBits(e - 1, b \div 2))
    <3>1. r \in Nat /\ e \in 1 .. 24 /\ b \in Nat
      BY <1>2, <1>4
    <3> QED
      BY <1>6, <3>1, LowestBit, Zenon
  <2> QED
    BY <1>1, <2>1
<1>8. GetBits(bits, p, 1) = n % 2 /\ GetBits(bits, q, 1) = a % 2 /\ GetBits(bits, r, 1) = b % 2
  BY <1>4, <1>5, <1>6, <1>7, OneBit
<1> QED
  BY <1>1, <1>2, <1>3, <1>4, <1>6, <1>7, <1>8

\* A length is read from its groups.
LEMMA LengthIsRead ==
  ASSUME NEW len \in Nat
  PROVE  /\ LengthBits(len) \in Seq(Bit) /\ Len(LengthBits(len)) = 3 * (len \div 7 + 1)
         /\ \A bits \in Seq(Bit), p \in Nat :
               Stands(bits, p, LengthBits(len)) =>
                   /\ Sevens(bits, p) = len \div 7
                   /\ GetBits(bits, p + 3 * (len \div 7), 3) = len - 7 * (len \div 7)
<1> DEFINE final == len \div 7
           groups == [g \in 1 .. final + 1 |-> Shorter(len - 7 * (g - 1), 7)]
<1>1. final \in Nat /\ 7 * final <= len /\ len < 7 * final + 7
  OBVIOUS
<1> HIDE DEF final
<1>2. \A g \in 1 .. final : Shorter(len - 7 * (g - 1), 7) = 7
  BY <1>1 DEF Shorter
<1>3. Shorter(len - 7 * ((final + 1) - 1), 7) = len - 7 * final
  BY <1>1 DEF Shorter
<1>4. groups \in Seq(0 .. 255) /\ Len(groups) = final + 1
  <2>1. \A g \in 1 .. final + 1 : Shorter(len - 7 * (g - 1), 7) \in 0 .. 255
    BY <1>1, <1>2, <1>3
  <2> QED
    BY <1>1, <2>1
<1>5. LengthBits(len) = Fields(3, groups)
  BY DEF LengthBits, final
<1>6. LengthBits(len) \in Seq(Bit) /\ Len(LengthBits(len)) = 3 * (final + 1)
  BY <1>4, <1>5, FieldsAreBits
<1>7. ASSUME NEW bits \in Seq(Bit), NEW p \in Nat, Stands(bits, p, LengthBits(len))
      PROVE  Sevens(bits, p) = final /\ GetBits(bits, p + 3 * final, 3) = len - 7 * final
  <2>1. \A g \in 1 .. final + 1 : GetBits(bits, p + 3 * (g - 1), 3) = groups[g]
    <3> TAKE g \in 1 .. final + 1
    <3>1. Stands(bits, p + 3 * (g - 1), PutBits(3, groups[g]))
      <4>1. g \in 1 .. Len(groups)
        BY <1>4
      <4> HIDE DEF groups
      <4> QED
        BY <1>4, <1>5, <1>7, <4>1, FieldStands
    <3>2. groups[g] \in Nat /\ groups[g] < Shift(3)
      <4>1. Shift(3) = 8
        BY DEF Shift
      <4> QED
        BY <1>1, <1>2, <1>3, <4>1
    <3>3. p + 3 * (g - 1) \in Nat
      OBVIOUS
    <3> HIDE DEF groups
    <3> QED
      BY <3>1, <3>2, <3>3, GetsWhatWasPut
  <2>2. \A h \in 0 .. final - 1 : GetBits(bits, p + 3 * h, 3) = 7
    <3> TAKE h \in 0 .. final - 1
    <3>1. h + 1 \in 1 .. final /\ h + 1 \in 1 .. final + 1 /\ (h + 1) - 1 = h
      BY <1>1
    <3> QED
      BY <1>2, <2>1, <3>1
  <2>3. GetBits(bits, p + 3 * final, 3) = len - 7 * final
    <3>1. final + 1 \in 1 .. final + 1 /\ (final + 1) - 1 = final
      BY <1>1
    <3> QED
      BY <1>3, <2>1, <3>1
  <2>4. final \in 0 .. Len(bits)
    <3>1. p + 3 * (final + 1) <= Len(bits) + 1
      BY <1>6, <1>7 DEF Stands
    <3> QED
      BY <1>1, <3>1
  <2> QED
    BY <1>1, <2>2, <2>3, <2>4, SevensAre
<1> QED
  BY <1>6, <1>7 DEF final

\* A stored block is read from its bytes, which end with a zero.
LEMMA BlockIsRead ==
  ASSUME NEW bits \in Seq(Bit), NEW p \in Nat \ {0}, NEW l, NEW t, NEW block \in Seq(1 .. 255),
         Stands(bits, p, BlockBits(block))
  PROVE  /\ GetBits(bits, p, 1) = 0
         /\ ReadBack(bits, Reading(p, l, t)) = Reading(p + Len(BlockBits(block)), l, t \o block)
<1>14. PICK n : n = Len(block)
  OBVIOUS
<1>0. block \in Seq(0 .. 255) /\ n \in Nat
  BY <1>14
<1>13. \A h \in 1 .. n : block[h] \in Nat /\ block[h] < 256 /\ block[h] # 0
  <2>1. \A h \in 1 .. n : block[h] \in 1 .. 255
    BY <1>14, ElementOfSeq
  <2>2. \A x \in 1 .. 255 : x \in Nat /\ x < 256 /\ x # 0
    OBVIOUS
  <2> QED
    BY <2>1, <2>2, Zenon
<1>1. /\ PutBits(13, 2) \in Seq(Bit) /\ Len(PutBits(13, 2)) = 13
      /\ PutBits(8, 0) \in Seq(Bit) /\ Len(PutBits(8, 0)) = 8
      /\ Fields(8, block) \in Seq(Bit) /\ Len(Fields(8, block)) = 8 * n
  BY <1>0, <1>14, PutBitsAreBits, FieldsAreBits
<1>2. Len(BlockBits(block)) = 21 + 8 * n
  <2>1. PICK a, b, c : a = PutBits(13, 2) /\ b = Fields(8, block) /\ c = PutBits(8, 0)
    OBVIOUS
  <2>2. BlockBits(block) = (a \o b) \o c
    BY <2>1 DEF BlockBits
  <2>3. a \in Seq(Bit) /\ b \in Seq(Bit) /\ c \in Seq(Bit) /\ Len(a) = 13 /\ Len(b) = 8 * n /\ Len(c) = 8
    BY <1>1, <2>1
  <2>5. a \o b \in Seq(Bit) /\ Len(a \o b) = Len(a) + Len(b)
    BY <2>3, Joined
  <2>4. Len(a \o b) = 13 + 8 * n
    BY <2>3, <2>5
  <2>6. Len((a \o b) \o c) = Len(a \o b) + Len(c)
    BY <2>3, <2>5, Joined
  <2> QED
    BY <1>0, <2>2, <2>3, <2>4, <2>6
<1>3. /\ Stands(bits, p, PutBits(13, 2)) /\ Stands(bits, p + 13, Fields(8, block))
      /\ Stands(bits, (p + 13) + 8 * n, PutBits(8, 0))
  <2>1. PICK a, b, c : a = PutBits(13, 2) /\ b = Fields(8, block) /\ c = PutBits(8, 0)
    OBVIOUS
  <2>2. Stands(bits, p, (a \o b) \o c)
    BY <2>1 DEF BlockBits
  <2>3. a \in Seq(Bit) /\ b \in Seq(Bit) /\ c \in Seq(Bit) /\ Len(a) = 13 /\ Len(b) = 8 * n /\ p \in Nat
    BY <1>1, <2>1
  <2>8. a \o b \in Seq(Bit) /\ Len(a \o b) = Len(a) + Len(b)
    BY <2>3, Joined
  <2>4. a \o b \in Seq(Bit) /\ Len(a \o b) = 13 + 8 * n
    BY <2>3, <2>8
  <2>5. Stands(bits, p, a \o b) /\ Stands(bits, p + (13 + 8 * n), c)
    BY <2>2, <2>3, <2>4, StandsInParts
  <2>6. Stands(bits, p, a) /\ Stands(bits, p + 13, b)
    BY <2>3, <2>5, StandsInParts
  <2>7. p + (13 + 8 * n) = (p + 13) + 8 * n
    BY <1>0
  <2> QED
    BY <2>1, <2>5, <2>6, <2>7
<1>4. /\ GetBits(bits, p, 1) = 0 /\ GetBits(bits, p + 1, 1) = 1 /\ GetBits(bits, p + 2, 1) = 0
      /\ Stands(bits, p + 3, PutBits(10, 0))
  BY <1>3, ThreeLowestBits
<1>5. GetBits(bits, p + 3, 10) = 0
  <2>1. Shift(10) = 1024
    BY DEF Shift
  <2> QED
    BY <1>4, <2>1, GetsWhatWasPut
<1>6. \A h \in 1 .. n : GetBits(bits, (p + 13) + 8 * (h - 1), 8) = block[h]
  <2> TAKE h \in 1 .. n
  <2>1. Stands(bits, (p + 13) + 8 * (h - 1), PutBits(8, block[h]))
    BY <1>0, <1>3, <1>14, FieldStands
  <2>2. Shift(8) = 256
    BY DEF Shift
  <2>3. block[h] \in Nat /\ block[h] < Shift(8) /\ (p + 13) + 8 * (h - 1) \in Nat
    BY <1>13, <2>2
  <2> QED
    BY <2>1, <2>3, GetsWhatWasPut
<1>7. RawLength(bits, p + 13) = n
  <2>1. GetBits(bits, (p + 13) + 8 * n, 8) = 0
    <3>1. Shift(8) = 256 /\ (p + 13) + 8 * n \in Nat
      BY <1>0 DEF Shift
    <3> QED
      BY <1>3, <3>1, GetsWhatWasPut
  <2>2. \A h \in 0 .. n - 1 : GetBits(bits, (p + 13) + 8 * h, 8) # 0
    <3> TAKE h \in 0 .. n - 1
    <3>1. h + 1 \in 1 .. n /\ (h + 1) - 1 = h
      BY <1>0
    <3>2. block[h + 1] # 0
      BY <1>13, <3>1
    <3> QED
      BY <1>6, <3>1, <3>2
  <2>3. n \in 0 .. Len(bits)
    <3>1. (p + 13) + 8 * n <= Len(bits) + 1
      BY <1>1, <1>3 DEF Stands
    <3> QED
      BY <1>0, <3>1
  <2>4. p + 13 \in Nat
    OBVIOUS
  <2> QED
    BY <2>1, <2>2, <2>3, <2>4, RawLengthIs
<1> DEFINE s == Reading(p, l, t)
<1>8. s.pos = p /\ s.list = l /\ s.text = t
  BY DEF Reading
<1> HIDE DEF s
<1>9. ReadBack(bits, s) = ReadBlock(bits, s, p + 13)
  <2>1. (p + 3) + 10 = p + 13
    OBVIOUS
  <2> QED
    BY <1>4, <1>5, <1>8, <2>1 DEF ReadBack
<1>10. [h \in 1 .. n |-> GetBits(bits, (p + 13) + 8 * (h - 1), 8)] = block
  <2>1. block = [h \in 1 .. n |-> block[h]]
    BY <1>14
  <2> QED
    BY <1>6, <2>1
<1>11. ReadBlock(bits, s, p + 13) = Reading((p + 13) + 8 * (n + 1), l, t \o block)
  BY <1>7, <1>8, <1>10 DEF ReadBlock
<1>12. (p + 13) + 8 * (n + 1) = p + (21 + 8 * n)
  BY <1>0
<1> QED
  BY <1>2, <1>4, <1>9, <1>11, <1>12 DEF s

\* The lowest three bits tell the three classes of offset apart.
LEMMA OffsetNumbers ==
  ASSUME NEW off \in Nat
  PROVE  /\ \E n \in Nat : n = 6 + 8 * off /\ n % 2 = 0 /\ (n \div 2) % 2 = 1 /\ (n \div 4) % 2 = 1
            /\ n \div 8 = off
         /\ \E n \in Nat : n = 2 + 8 * off /\ n % 2 = 0 /\ (n \div 2) % 2 = 1 /\ (n \div 4) % 2 = 0
                /\ n \div 8 = off
         /\ \E n \in Nat : n = 4 * off /\ n % 2 = 0 /\ (n \div 2) % 2 = 0 /\ n \div 4 = off
<1>1. PICK n \in Nat : n = 6 + 8 * off
  OBVIOUS
<1>2. PICK m \in Nat : m = 2 + 8 * off
  OBVIOUS
<1>3. PICK k \in Nat : k = 4 * off
  OBVIOUS
<1>4. n % 2 = 0 /\ n \div 2 = 3 + 4 * off /\ n \div 4 = 1 + 2 * off /\ n \div 8 = off
  BY <1>1
<1>5. m % 2 = 0 /\ m \div 2 = 1 + 4 * off /\ m \div 4 = 2 * off /\ m \div 8 = off
  BY <1>2
<1>6. k % 2 = 0 /\ k \div 2 = 2 * off /\ k \div 4 = off
  BY <1>3
<1>7. (3 + 4 * off) % 2 = 1 /\ (1 + 2 * off) % 2 = 1 /\ (1 + 4 * off) % 2 = 1 /\ (2 * off) % 2 = 0
  OBVIOUS
<1> QED
  BY <1>1, <1>2, <1>3, <1>4, <1>5, <1>6, <1>7

\* Where the number of an offset starts, and its bits: 15 when the second bit is 0, 5
\* or 10 by the third.
OffsetWidth(bits, p) ==
    IF GetBits(bits, p + 1, 1) = 0 THEN 15 ELSE IF GetBits(bits, p + 2, 1) = 1 THEN 5 ELSE 10
OffsetStart(bits, p) == IF OffsetWidth(bits, p) = 15 THEN p + 2 ELSE p + 3

\* An offset is read as it was written, with the width of its class; a middle one is never 0,
\* which would be a stored block.
LEMMA OffsetIsRead ==
  ASSUME NEW bits \in Seq(Bit), NEW p \in Nat \ {0}, NEW off \in Nat, off < Shift(15),
         Stands(bits, p, OffsetBits(off))
  PROVE  /\ GetBits(bits, p, 1) = 0
         /\ GetBits(bits, OffsetStart(bits, p), OffsetWidth(bits, p)) = off
         /\ OffsetStart(bits, p) + OffsetWidth(bits, p) = p + Len(OffsetBits(off))
         /\ OffsetWidth(bits, p) = 10 => off # 0
<1>1. Shift(5) = 32 /\ Shift(10) = 1024 /\ Shift(15) = 32768
  BY DEF Shift
<1>0. off \in Nat /\ p + 2 \in Nat /\ p + 3 \in Nat
  OBVIOUS
<1>2. CASE off < 32
  <2>1. PICK n \in Nat : n = 6 + 8 * off /\ n % 2 = 0 /\ (n \div 2) % 2 = 1 /\ (n \div 4) % 2 = 1
           /\ n \div 8 = off
    BY <1>0, OffsetNumbers, Zenon
  <2>2. PICK c \in 3 .. 24 : c = 8
    OBVIOUS
  <2>3. c - 3 = 5 /\ c \in 0 .. 25 /\ n \in Int /\ 5 \in 0 .. 24
    BY <2>2
  <2>4. OffsetBits(off) = PutBits(c, n)
    BY <1>2, <2>1, <2>2 DEF OffsetBits
  <2>5. Stands(bits, p, PutBits(c, n))
    BY <2>4
  <2>6. /\ GetBits(bits, p, 1) = n % 2
        /\ GetBits(bits, p + 1, 1) = (n \div 2) % 2
        /\ GetBits(bits, p + 2, 1) = (n \div 4) % 2
        /\ Stands(bits, p + 3, PutBits(c - 3, n \div 8))
    BY <2>5, ThreeLowestBits
  <2>7. GetBits(bits, p, 1) = 0 /\ GetBits(bits, p + 1, 1) = 1 /\ GetBits(bits, p + 2, 1) = 1
    BY <2>1, <2>6, Zenon
  <2>8. Stands(bits, p + 3, PutBits(5, off))
    BY <2>1, <2>3, <2>6, Zenon
  <2>9. off < Shift(5)
    BY <1>1, <1>2
  <2>10. GetBits(bits, p + 3, 5) = off
    BY <1>0, <2>3, <2>8, <2>9, GetsWhatWasPut, Zenon
  <2>11. Len(OffsetBits(off)) = 8
    <3>1. Len(PutBits(c, n)) = c
      BY <2>3, PutBitsAreBits, Zenon
    <3> QED
      BY <2>2, <2>4, <3>1
  <2>12. OffsetWidth(bits, p) = 5 /\ OffsetStart(bits, p) = p + 3
    BY <2>7 DEF OffsetWidth, OffsetStart
  <2> QED
    BY <1>2, <2>7, <2>10, <2>11, <2>12
<1>3. CASE off >= 32 /\ off < 1024
  <2>1. PICK n \in Nat : n = 2 + 8 * off /\ n % 2 = 0 /\ (n \div 2) % 2 = 1 /\ (n \div 4) % 2 = 0
           /\ n \div 8 = off
    BY <1>0, OffsetNumbers, Zenon
  <2>2. PICK c \in 3 .. 24 : c = 13
    OBVIOUS
  <2>3. c - 3 = 10 /\ c \in 0 .. 25 /\ n \in Int /\ 10 \in 0 .. 24
    BY <2>2
  <2>4. OffsetBits(off) = PutBits(c, n)
    BY <1>3, <2>1, <2>2 DEF OffsetBits
  <2>5. Stands(bits, p, PutBits(c, n))
    BY <2>4
  <2>6. /\ GetBits(bits, p, 1) = n % 2
        /\ GetBits(bits, p + 1, 1) = (n \div 2) % 2
        /\ GetBits(bits, p + 2, 1) = (n \div 4) % 2
        /\ Stands(bits, p + 3, PutBits(c - 3, n \div 8))
    BY <2>5, ThreeLowestBits
  <2>7. GetBits(bits, p, 1) = 0 /\ GetBits(bits, p + 1, 1) = 1 /\ GetBits(bits, p + 2, 1) = 0
    BY <2>1, <2>6, Zenon
  <2>8. Stands(bits, p + 3, PutBits(10, off))
    BY <2>1, <2>3, <2>6, Zenon
  <2>9. off < Shift(10)
    BY <1>1, <1>3
  <2>10. GetBits(bits, p + 3, 10) = off
    BY <1>0, <2>3, <2>8, <2>9, GetsWhatWasPut, Zenon
  <2>11. Len(OffsetBits(off)) = 13
    <3>1. Len(PutBits(c, n)) = c
      BY <2>3, PutBitsAreBits, Zenon
    <3> QED
      BY <2>2, <2>4, <3>1
  <2>12. OffsetWidth(bits, p) = 10 /\ OffsetStart(bits, p) = p + 3
    BY <2>7 DEF OffsetWidth, OffsetStart
  <2> QED
    BY <1>3, <2>7, <2>10, <2>11, <2>12
<1>4. CASE off >= 1024
  <2>1. PICK n \in Nat : n = 4 * off /\ n % 2 = 0 /\ (n \div 2) % 2 = 0 /\ n \div 4 = off
    BY <1>0, OffsetNumbers, Zenon
  <2>2. PICK c \in 3 .. 24 : c = 17
    OBVIOUS
  <2>3. c - 2 = 15 /\ c \in 0 .. 25 /\ n \in Int /\ 15 \in 0 .. 24
    BY <2>2
  <2>4. OffsetBits(off) = PutBits(c, n)
    BY <1>4, <2>1, <2>2 DEF OffsetBits
  <2>5. Stands(bits, p, PutBits(c, n))
    BY <2>4
  <2>6. /\ GetBits(bits, p, 1) = n % 2
        /\ GetBits(bits, p + 1, 1) = (n \div 2) % 2
        /\ GetBits(bits, p + 2, 1) = (n \div 4) % 2
        /\ Stands(bits, p + 2, PutBits(c - 2, n \div 4))
    BY <2>5, ThreeLowestBits
  <2>7. GetBits(bits, p, 1) = 0 /\ GetBits(bits, p + 1, 1) = 0
    BY <2>1, <2>6, Zenon
  <2>8. Stands(bits, p + 2, PutBits(15, off))
    BY <2>1, <2>3, <2>6, Zenon
  <2>9. off < Shift(15)
    BY <1>1, <1>4
  <2>10. GetBits(bits, p + 2, 15) = off
    BY <1>0, <2>3, <2>8, <2>9, GetsWhatWasPut, Zenon
  <2>11. Len(OffsetBits(off)) = 17
    <3>1. Len(PutBits(c, n)) = c
      BY <2>3, PutBitsAreBits, Zenon
    <3> QED
      BY <2>2, <2>4, <3>1
  <2>12. OffsetWidth(bits, p) = 15 /\ OffsetStart(bits, p) = p + 2
    BY <2>7 DEF OffsetWidth, OffsetStart
  <2> QED
    BY <1>4, <2>7, <2>10, <2>11, <2>12
<1> QED
  BY <1>2, <1>3, <1>4

\* An offset takes 8, 13 or 17 bits.
LEMMA OffsetsAreBits ==
  ASSUME NEW off \in Nat, off < Shift(15)
  PROVE  OffsetBits(off) \in Seq(Bit) /\ Len(OffsetBits(off)) \in {8, 13, 17}
<1>1. 6 + 8 * off \in Int /\ 2 + 8 * off \in Int /\ 4 * off \in Int
      /\ 8 \in 0 .. 25 /\ 13 \in 0 .. 25 /\ 17 \in 0 .. 25
  OBVIOUS
<1>2. /\ PutBits(8, 6 + 8 * off) \in Seq(Bit) /\ Len(PutBits(8, 6 + 8 * off)) = 8
      /\ PutBits(13, 2 + 8 * off) \in Seq(Bit) /\ Len(PutBits(13, 2 + 8 * off)) = 13
      /\ PutBits(17, 4 * off) \in Seq(Bit) /\ Len(PutBits(17, 4 * off)) = 17
  BY <1>1, PutBitsAreBits, Zenon
<1>3. \/ OffsetBits(off) = PutBits(8, 6 + 8 * off)
      \/ OffsetBits(off) = PutBits(13, 2 + 8 * off)
      \/ OffsetBits(off) = PutBits(17, 4 * off)
  BY DEF OffsetBits
<1>4. 8 \in {8, 13, 17} /\ 13 \in {8, 13, 17} /\ 17 \in {8, 13, 17}
  OBVIOUS
<1> QED
  BY <1>2, <1>3, <1>4, Zenon

IsReadAsCopy(bits, p, l, t, off, len) ==
    /\ GetBits(bits, p, 1) = 0
    /\ ReadBack(bits, Reading(p, l, t)) =
          Reading(p + Len(OffsetBits(off) \o LengthBits(len)), l, CopyBack(t, off + 1, len + 3))

\* A reference is read from its offset and its length.
LEMMA ReferenceIsRead ==
  ASSUME NEW bits \in Seq(Bit), NEW p \in Nat \ {0}, NEW l, NEW t, Len(t) \in Nat,
         NEW off \in Nat, off < Shift(15), NEW len \in Nat,
         Stands(bits, p, OffsetBits(off) \o LengthBits(len)), off + 1 <= Len(t)
  PROVE  IsReadAsCopy(bits, p, l, t, off, len)
<1>1. PICK a \in Seq(Bit) : a = OffsetBits(off)
  BY OffsetsAreBits
<1>2. PICK b \in Seq(Bit) : b = LengthBits(len) /\ Len(b) = 3 * (len \div 7 + 1)
  BY LengthIsRead
<1>3. PICK q \in Nat : q = p + Len(a)
  OBVIOUS
<1>4. Stands(bits, p, a) /\ Stands(bits, q, b)
  <2>1. Stands(bits, p, a \o b) /\ p \in Nat
    BY <1>1, <1>2
  <2>2. Stands(bits, p, a) /\ Stands(bits, p + Len(a), b)
    BY <2>1, StandsInParts, Zenon
  <2> QED
    BY <1>3, <2>2
<1>5. Stands(bits, p, OffsetBits(off))
  BY <1>1, <1>4
<1>6. /\ GetBits(bits, p, 1) = 0
      /\ GetBits(bits, OffsetStart(bits, p), OffsetWidth(bits, p)) = off
      /\ OffsetStart(bits, p) + OffsetWidth(bits, p) = p + Len(OffsetBits(off))
      /\ OffsetWidth(bits, p) = 10 => off # 0
  BY <1>5, OffsetIsRead, Zenon
<1>7. Stands(bits, q, LengthBits(len))
  BY <1>2, <1>4
<1>8. Sevens(bits, q) = len \div 7 /\ GetBits(bits, q + 3 * (len \div 7), 3) = len - 7 * (len \div 7)
  BY <1>7, LengthIsRead, Zenon
<1> DEFINE s == Reading(p, l, t)
<1>9. s.pos = p /\ s.list = l /\ s.text = t
  BY DEF Reading
<1> HIDE DEF s
<1>10. ReadBack(bits, s) = ReadReference(bits, s, q, off + 1)
  <2>1. ReadBack(bits, s) =
            IF OffsetWidth(bits, s.pos) = 10
                   /\ GetBits(bits, OffsetStart(bits, s.pos), OffsetWidth(bits, s.pos)) + 1 = 1
            THEN ReadBlock(bits, s, OffsetStart(bits, s.pos) + OffsetWidth(bits, s.pos))
            ELSE ReadReference(bits, s, OffsetStart(bits, s.pos) + OffsetWidth(bits, s.pos),
                               GetBits(bits, OffsetStart(bits, s.pos), OffsetWidth(bits, s.pos)) + 1)
    BY DEF ReadBack, OffsetWidth, OffsetStart
  <2>2. ~(OffsetWidth(bits, p) = 10 /\ off + 1 = 1)
    BY <1>6
  <2>3. OffsetStart(bits, p) + OffsetWidth(bits, p) = q
    BY <1>1, <1>3, <1>6
  <2> QED
    BY <1>6, <1>9, <2>1, <2>2, <2>3
<1>11. ReadReference(bits, s, q, off + 1) = Reading(q + 3 * (len \div 7 + 1), l, CopyBack(t, off + 1, len + 3))
  <2>0. len \div 7 \in Nat
    OBVIOUS
  <2>1. 3 + 7 * (len \div 7) + (len - 7 * (len \div 7)) = len + 3
    BY <2>0
  <2>2. ~(off + 1 > Len(t))
    OBVIOUS
  <2> QED
    BY <1>8, <1>9, <2>1, <2>2 DEF ReadReference
<1>12. p + Len(a \o b) = q + 3 * (len \div 7 + 1)
  <2>1. Len(a \o b) = Len(a) + Len(b) /\ Len(a) \in Nat
    BY Joined
  <2>2. len \div 7 \in Nat
    OBVIOUS
  <2> QED
    BY <1>2, <1>3, <2>1, <2>2
<1> QED
  BY <1>1, <1>2, <1>6, <1>10, <1>11, <1>12 DEF s, IsReadAsCopy

-----------------------------------------------------------------------------
(* A copy of what was read.                                                *)

\* CopyBack as it goes.
IsGrown(g, from, offset, n) ==
    g = [k \in 0 .. n |-> IF k = 0 THEN from ELSE Append(g[k - 1], g[k - 1][Len(from) + k - offset])]

LEMMA GrownExists == ASSUME NEW from, NEW offset, NEW n \in Nat PROVE \E g : IsGrown(g, from, offset, n)
<1> DEFINE S == {m \in Nat : \E g : IsGrown(g, from, offset, m)}
<1>1. 0 \in S
  <2> DEFINE g == [k \in 0 .. 0 |-> from]
  <2>1. \A k \in 0 .. 0 : k = 0
    OBVIOUS
  <2>2. g = [k \in 0 .. 0 |-> IF k = 0 THEN from ELSE Append(g[k - 1], g[k - 1][Len(from) + k - offset])]
    BY <2>1
  <2> QED
    BY <2>2 DEF IsGrown
<1>2. ASSUME NEW m \in Nat, m \in S PROVE m + 1 \in S
  <2>1. PICK g : IsGrown(g, from, offset, m)
    BY <1>2
  <2> DEFINE h == [k \in 0 .. m + 1 |-> IF k = m + 1 THEN Append(g[m], g[m][Len(from) + (m + 1) - offset])
         ELSE g[k]]
  <2>2. \A k \in 0 .. m : g[k] = IF k = 0 THEN from ELSE Append(g[k - 1], g[k - 1][Len(from) + k - offset])
    BY <2>1 DEF IsGrown
  <2>3. \A k \in 0 .. m + 1 : h[k] = IF k = 0 THEN from
           ELSE Append(h[k - 1], h[k - 1][Len(from) + k - offset])
    <3> TAKE k \in 0 .. m + 1
    <3>1. CASE k = m + 1
      <4>1. k - 1 = m /\ k # 0 /\ h[m] = g[m]
        BY <3>1
      <4> QED
        BY <3>1, <4>1
    <3>2. CASE k # m + 1
      <4>1. k \in 0 .. m /\ h[k] = g[k] /\ (k # 0 => h[k - 1] = g[k - 1])
        BY <3>2
      <4> QED
        BY <2>2, <4>1
    <3> QED
      BY <3>1, <3>2
  <2>4. h = [k \in 0 .. m + 1 |-> h[k]]
    OBVIOUS
  <2> HIDE DEF h
  <2>5. IsGrown(h, from, offset, m + 1)
    BY <2>3, <2>4 DEF IsGrown
  <2> QED
    BY <2>5
<1>3. Nat \subseteq S
  <2> HIDE DEF S
  <2> QED
    BY <1>1, <1>2, Counting
<1> QED
  BY <1>3

\* A copy is made byte by byte.
LEMMA GrownIs ==
  ASSUME NEW from, NEW offset, NEW len \in Nat
  PROVE  \E g : IsGrown(g, from, offset, len) /\ CopyBack(from, offset, len) = g[len]
<1>1. \E g : IsGrown(g, from, offset, len)
  BY GrownExists
<1> DEFINE grown == CHOOSE f : f = [k \in 0 .. len |->
                        IF k = 0 THEN from ELSE Append(f[k - 1], f[k - 1][Len(from) + k - offset])]
<1>2. CopyBack(from, offset, len) = grown[len]
  BY DEF CopyBack
<1>3. grown = CHOOSE g : IsGrown(g, from, offset, len)
  BY Zenon DEF IsGrown
<1> HIDE DEF grown
<1> QED
  BY <1>1, <1>2, <1>3

\* The first bytes of a sequence, and one more.
LEMMA Firsts ==
  ASSUME NEW S, NEW seq \in Seq(S), NEW m \in 0 .. Len(seq)
  PROVE  /\ SubSeq(seq, 1, m) \in Seq(S) /\ Len(SubSeq(seq, 1, m)) = m
         /\ \A k \in 1 .. m : SubSeq(seq, 1, m)[k] = seq[k]
         /\ m < Len(seq) => Append(SubSeq(seq, 1, m), seq[m + 1]) = SubSeq(seq, 1, m + 1)
<1>1. /\ SubSeq(seq, 1, m) \in Seq(S) /\ Len(SubSeq(seq, 1, m)) = m
      /\ \A k \in 1 .. m : SubSeq(seq, 1, m)[k] = seq[k]
  OBVIOUS
<1>2. ASSUME m < Len(seq) PROVE Append(SubSeq(seq, 1, m), seq[m + 1]) = SubSeq(seq, 1, m + 1)
  <2> DEFINE a == Append(SubSeq(seq, 1, m), seq[m + 1])
             b == SubSeq(seq, 1, m + 1)
  <2>1. a \in Seq(S) /\ Len(a) = m + 1 /\ b \in Seq(S) /\ Len(b) = m + 1
    BY <1>1, <1>2
  <2>2. \A k \in 1 .. m + 1 : a[k] = seq[k] /\ b[k] = seq[k]
    BY <1>1, <1>2
  <2> HIDE DEF a, b
  <2>3. a = b
    BY <2>1, <2>2
  <2> QED
    BY <2>3 DEF a, b
<1> QED
  BY <1>1, <1>2

\* A copy that is in the text grows the first bytes of the text, even when it reaches
\* into what it writes.
LEMMA CopyIsRead ==
  ASSUME NEW S, NEW seq \in Seq(S), NEW m \in 0 .. Len(seq), NEW offset \in 1 .. m, NEW len \in Nat,
         m + len <= Len(seq), \A h \in 1 .. len : seq[m + h] = seq[(m - offset) + h]
  PROVE  CopyBack(SubSeq(seq, 1, m), offset, len) = SubSeq(seq, 1, m + len)
<1> DEFINE from == SubSeq(seq, 1, m)
<1>1. Len(from) = m
  BY Firsts
<1> HIDE DEF from
<1>2. PICK g : IsGrown(g, from, offset, len) /\ CopyBack(from, offset, len) = g[len]
  BY GrownIs
<1>3. \A k \in 0 .. len : g[k] = IF k = 0 THEN from ELSE Append(g[k - 1], g[k - 1][Len(from) + k - offset])
  BY <1>2 DEF IsGrown
<1> DEFINE Good == {k \in Nat : k <= len => g[k] = SubSeq(seq, 1, m + k)}
<1>4. 0 \in Good
  <2>1. g[0] = from /\ m + 0 = m
    BY <1>3
  <2> QED
    BY <2>1 DEF from
<1>5. ASSUME NEW k \in Nat, k \in Good PROVE k + 1 \in Good
  <2> SUFFICES ASSUME k + 1 <= len PROVE g[k + 1] = SubSeq(seq, 1, m + (k + 1))
    OBVIOUS
  <2>1. PICK n \in 0 .. Len(seq) : n = m + k
    OBVIOUS
  <2>2. g[k] = SubSeq(seq, 1, n)
    BY <1>5, <2>1
  <2>3. g[k + 1] = Append(g[k], g[k][(n + 1) - offset])
    <3>1. k + 1 \in 0 .. len /\ k + 1 # 0 /\ (k + 1) - 1 = k /\ m + (k + 1) - offset = (n + 1) - offset
      BY <2>1
    <3> QED
      BY <1>1, <1>3, <3>1
  <2>4. g[k][(n + 1) - offset] = seq[n + 1]
    <3>1. (n + 1) - offset \in 1 .. n /\ (m - offset) + (k + 1) = (n + 1) - offset /\ m + (k + 1) = n + 1
          /\ k + 1 \in 1 .. len
      BY <2>1
    <3>2. seq[n + 1] = seq[(n + 1) - offset]
      BY <3>1
    <3> QED
      BY <2>2, <3>1, <3>2, Firsts
  <2>5. n < Len(seq) /\ m + (k + 1) = n + 1
    BY <2>1
  <2>6. Append(SubSeq(seq, 1, n), seq[n + 1]) = SubSeq(seq, 1, n + 1)
    BY <2>5, Firsts
  <2> QED
    BY <2>2, <2>3, <2>4, <2>5, <2>6
<1>6. Nat \subseteq Good
  <2> HIDE DEF Good
  <2> QED
    BY <1>4, <1>5, Counting
<1>7. g[len] = SubSeq(seq, 1, m + len)
  BY <1>6
<1> QED
  BY <1>2, <1>7 DEF from

-----------------------------------------------------------------------------
(* The list of recent bytes.                                               *)

Octet == 0 .. 255

\* A list holds each byte.
IsList(list) ==
    /\ list \in Seq(Octet) /\ Len(list) = 256
    /\ \A b \in Octet : \E k \in 1 .. Len(list) : list[k] = b

\* The list of recent bytes starts with every byte in it, and keeps them all.
LEMMA FreshIsList == IsList(FreshMtf.list)
<1> DEFINE list == [n \in 1 .. 256 |-> n - 1]
<1>1. list \in Seq(Octet) /\ Len(list) = 256
  BY DEF Octet
<1>2. ASSUME NEW b \in Octet PROVE \E k \in 1 .. 256 : list[k] = b
  <2>1. b + 1 \in 1 .. 256 /\ list[b + 1] = b
    BY DEF Octet
  <2> QED
    BY <2>1
<1>3. FreshMtf.list = list
  BY DEF FreshMtf
<1>4. 1 .. 256 = 1 .. Len(list)
  BY <1>1
<1> HIDE DEF list
<1>5. \A b \in Octet : \E k \in 1 .. Len(list) : list[k] = b
  BY <1>2, <1>4, Zenon
<1>6. IsList(list)
  BY <1>1, <1>5 DEF IsList
<1> QED
  BY <1>3, <1>6

\* Every byte has a place in the list.
LEMMA FindIs ==
  ASSUME NEW list, IsList(list), NEW b \in Octet
  PROVE  \E n \in 0 .. Len(list) - 1 : n = Find(list, b) /\ list[n + 1] = b /\ n \in 0 .. 255
<1>1. PICK z \in Nat : z = Len(list) /\ z = 256
  BY DEF IsList
<1>2. PICK k \in 1 .. z : list[k] = b
  BY <1>1 DEF IsList
<1>3. k - 1 \in 0 .. 255 /\ (k - 1) + 1 = k /\ 0 .. z - 1 = 0 .. 255
  BY <1>1
<1>4. \E n \in 0 .. 255 : list[n + 1] = b
  BY <1>2, <1>3
<1>5. Find(list, b) \in 0 .. 255 /\ list[Find(list, b) + 1] = b
  BY <1>4, Zenon DEF Find
<1>6. PICK n : n = Find(list, b) /\ n \in 0 .. 255 /\ list[n + 1] = b
  BY <1>5
<1>7. n \in 0 .. Len(list) - 1
  BY <1>1, <1>6
<1> QED
  BY <1>6, <1>7, Zenon

\* Two sequences, one behind the other.
LEMMA JoinedSequences ==
  ASSUME NEW S, NEW one \in Seq(S), NEW two \in Seq(S)
  PROVE  /\ one \o two \in Seq(S) /\ Len(one \o two) = Len(one) + Len(two)
         /\ \A k \in 1 .. Len(one) : (one \o two)[k] = one[k]
         /\ \A k \in 1 .. Len(two) : (one \o two)[Len(one) + k] = two[k]
  OBVIOUS

Turn(seq, n) == (<<seq[n + 1]>> \o SubSeq(seq, 1, n)) \o SubSeq(seq, n + 2, Len(seq))

\* Moving an element to the front moves those before it by one.
LEMMA Turned ==
  ASSUME NEW S, NEW seq \in Seq(S), NEW n \in 0 .. Len(seq) - 1
  PROVE  /\ Turn(seq, n) \in Seq(S) /\ Len(Turn(seq, n)) = Len(seq) /\ Turn(seq, n)[1] = seq[n + 1]
         /\ \A k \in 2 .. n + 1 : Turn(seq, n)[k] = seq[k - 1]
         /\ \A k \in n + 2 .. Len(seq) : Turn(seq, n)[k] = seq[k]
<1> DEFINE a == <<seq[n + 1]>>
           b == SubSeq(seq, 1, n)
           c == SubSeq(seq, n + 2, Len(seq))
<1>1. a \in Seq(S) /\ Len(a) = 1 /\ a[1] = seq[n + 1]
  <2>1. seq[n + 1] \in S
    OBVIOUS
  <2> QED
    BY <2>1
<1>2. b \in Seq(S) /\ Len(b) = n /\ \A k \in 1 .. n : b[k] = seq[k]
  OBVIOUS
<1>3. c \in Seq(S) /\ Len(c) = Len(seq) - (n + 1)
         /\ \A k \in 1 .. Len(seq) - (n + 1) : c[k] = seq[n + 1 + k]
  OBVIOUS
<1> HIDE DEF a, b, c
<1> DEFINE d == a \o b
<1>4. d \in Seq(S) /\ Len(d) = n + 1 /\ d[1] = a[1] /\ \A k \in 2 .. n + 1 : d[k] = b[k - 1]
  <2>1. /\ d \in Seq(S) /\ Len(d) = Len(a) + Len(b)
        /\ \A k \in 1 .. Len(a) : d[k] = a[k]
        /\ \A k \in 1 .. Len(b) : d[Len(a) + k] = b[k]
    <3>1. a \in Seq(S) /\ b \in Seq(S)
      BY <1>1, <1>2
    <3> QED
      BY <3>1, JoinedSequences
  <2> HIDE DEF d
  <2>2. ASSUME NEW k \in 2 .. n + 1 PROVE d[k] = b[k - 1]
    <3>1. k - 1 \in 1 .. Len(b) /\ k = Len(a) + (k - 1)
      BY <1>1, <1>2
    <3> QED
      BY <2>1, <3>1
  <2> QED
    BY <1>1, <1>2, <2>1, <2>2
<1> DEFINE r == d \o c
<1>5. Turn(seq, n) = r
  BY DEF Turn, a, b, c
<1> HIDE DEF d
<1>6. Len(d) \in Nat /\ Len(c) \in Nat /\ Len(seq) \in Nat
  BY <1>3, <1>4
<1>7. d \in Seq(S) /\ c \in Seq(S)
  BY <1>3, <1>4
<1>8. /\ r \in Seq(S) /\ Len(r) = Len(d) + Len(c)
      /\ \A k \in 1 .. Len(d) : r[k] = d[k]
      /\ \A k \in 1 .. Len(c) : r[Len(d) + k] = c[k]
  BY <1>7, JoinedSequences
<1> HIDE DEF r
<1>10. Len(r) = Len(seq) /\ r[1] = seq[n + 1]
  BY <1>1, <1>3, <1>4, <1>6, <1>8
<1>11. ASSUME NEW k \in 2 .. n + 1 PROVE r[k] = seq[k - 1]
  BY <1>2, <1>4, <1>8
<1>12. ASSUME NEW k \in n + 2 .. Len(seq) PROVE r[k] = seq[k]
  <2>1. PICK h \in 1 .. Len(c) : k = Len(d) + h /\ n + 1 + h = k
    <3>1. k - (n + 1) \in 1 .. Len(c) /\ k = Len(d) + (k - (n + 1))
      BY <1>3, <1>4, <1>6
    <3> QED
      BY <3>1
  <2> QED
    BY <1>3, <1>8, <2>1
<1> QED
  BY <1>5, <1>8, <1>10, <1>11, <1>12

LEMMA Rotated ==
  ASSUME NEW list, IsList(list), NEW n \in 0 .. Len(list) - 1
  PROVE  /\ Rotate(list, n) \in Seq(Octet) /\ Len(Rotate(list, n)) = Len(list)
         /\ Rotate(list, n)[1] = list[n + 1]
         /\ \A k \in 2 .. n + 1 : Rotate(list, n)[k] = list[k - 1]
         /\ \A k \in n + 2 .. Len(list) : Rotate(list, n)[k] = list[k]
<1>1. list \in Seq(Octet) /\ Len(list) = 256
  BY DEF IsList
<1> DEFINE r == Turn(list, n)
<1>2. Rotate(list, n) = r
  BY <1>1 DEF Rotate, Turn
<1>3. /\ r \in Seq(Octet) /\ Len(r) = Len(list) /\ r[1] = list[n + 1]
      /\ \A k \in 2 .. n + 1 : r[k] = list[k - 1]
      /\ \A k \in n + 2 .. Len(list) : r[k] = list[k]
  <2>1. list \in Seq(Octet)
    BY <1>1
  <2> QED
    BY <2>1, Turned, Zenon
<1> HIDE DEF r
<1> QED
  BY <1>2, <1>3

LEMMA RotateKeepsTheList ==
  ASSUME NEW list, IsList(list), NEW n \in 0 .. Len(list) - 1
  PROVE  IsList(Rotate(list, n))
<1> DEFINE r == Rotate(list, n)
<1>1. list \in Seq(Octet) /\ \A b \in Octet : \E k \in 1 .. Len(list) : list[k] = b
  BY DEF IsList
<1>2. /\ r \in Seq(Octet) /\ Len(r) = Len(list) /\ r[1] = list[n + 1]
      /\ \A k \in 2 .. n + 1 : r[k] = list[k - 1]
      /\ \A k \in n + 2 .. Len(list) : r[k] = list[k]
  BY Rotated, Zenon
<1> HIDE DEF r
<1>3. ASSUME NEW b \in Octet PROVE \E k \in 1 .. Len(list) : r[k] = b
  <2>1. PICK k \in 1 .. Len(list) : list[k] = b
    BY <1>1
  <2>2. CASE k = n + 1
    <3>1. 1 \in 1 .. Len(list) /\ r[1] = b
      BY <1>2, <2>1, <2>2
    <3> QED
      BY <3>1
  <2>3. CASE k < n + 1
    <3>1. k + 1 \in 2 .. n + 1 /\ (k + 1) - 1 = k /\ k + 1 \in 1 .. Len(list)
      BY <2>3
    <3>2. r[k + 1] = b
      BY <1>2, <2>1, <3>1
    <3> QED
      BY <3>1, <3>2
  <2>4. CASE k > n + 1
    <3>1. k \in n + 2 .. Len(list)
      BY <2>4
    <3> QED
      BY <1>2, <2>1, <3>1
  <2> QED
    BY <2>2, <2>3, <2>4
<1>4. Len(list) = 256
  BY DEF IsList
<1>5. Len(r) = 256 /\ \A b \in Octet : \E k \in 1 .. Len(r) : r[k] = b
  <2>1. \A b \in Octet : \E k \in 1 .. Len(r) : r[k] = b
    BY <1>2, <1>3, Zenon
  <2>2. Len(r) = 256
    BY <1>2, <1>4
  <2> QED
    BY <2>1, <2>2, Zenon
<1>6. IsList(r)
  BY <1>2, <1>5, Zenon DEF IsList
<1> QED
  BY <1>6 DEF r

\* The byte that was found is the first of the list it moves to.
LEMMA FoundMovesToFront ==
  ASSUME NEW list, IsList(list), NEW b \in Octet
  PROVE  /\ Find(list, b) \in 0 .. 255
         /\ IsList(Rotate(list, Find(list, b)))
         /\ Rotate(list, Find(list, b))[1] = b
<1>1. PICK n \in 0 .. Len(list) - 1 : n = Find(list, b) /\ list[n + 1] = b /\ n \in 0 .. 255
  BY FindIs, Zenon
<1>2. Rotate(list, n)[1] = list[n + 1] /\ IsList(Rotate(list, n))
  BY Rotated, RotateKeepsTheList, Zenon
<1> QED
  BY <1>1, <1>2, Zenon

-----------------------------------------------------------------------------
(* The graph: every node has a way into it that the text allows.           *)

Node == [length : Int, offset : Int, weight : Int, prev : Int, maxStart : Int, maxSum : Int, minSum : Int]

\* Byte h of the copy is the byte it is a copy of.
IsCopy(seq, m, offset, len) ==
    /\ offset \in 1 .. m /\ offset <= Shift(15) /\ len >= 3
    /\ \A h \in 1 .. len : seq[m + h] = seq[(m - offset) + h]

\* A way of len bytes on from m that can be written: a byte, a stored block of at least
\* two, or a copy.
CanGo(seq, m, len, offset) ==
    /\ m \in 0 .. Len(seq) /\ len \in 1 .. Len(seq) - m
    /\ len = 1 \/ offset = -1 \/ IsCopy(seq, m, offset, len)

IsWay(seq, j, t) == CanGo(seq, t.prev, t.length, t.offset) /\ t.prev + t.length = j

\* The nodes of a text; the bytes counted as they are start no later than they end.
IsGraph(seq, nodes) ==
    /\ nodes \in Seq(Node) /\ Len(nodes) = Len(seq) + 1
    /\ \A j \in 0 .. Len(seq) : nodes[j + 1].maxStart \in 0 .. j

\* A node and what a cheaper way in makes of it.
IsAdded(old, new, weight, m, len, offset) ==
    /\ new \in Node
    /\ new.weight = weight /\ new.prev = m /\ new.length = len /\ new.offset = offset
    /\ new.maxStart = old.maxStart /\ new.maxSum = old.maxSum /\ new.minSum = old.minSum

LEMMA CheaperWay ==
  ASSUME NEW t \in Node, NEW weight \in Int, NEW m \in Int, NEW len \in Int, NEW offset \in Int
  PROVE  IsAdded(t, [t EXCEPT !.weight = weight, !.prev = m, !.length = len, !.offset = offset], weight, m, len, offset)
<1> DEFINE u == [t EXCEPT !.weight = weight, !.prev = m, !.length = len, !.offset = offset]
<1>1. u \in Node
  BY DEF Node
<1>2. /\ u.weight = weight /\ u.prev = m /\ u.length = len /\ u.offset = offset
      /\ u.maxStart = t.maxStart /\ u.maxSum = t.maxSum /\ u.minSum = t.minSum
  BY DEF Node
<1> HIDE DEF u
<1>3. IsAdded(t, u, weight, m, len, offset)
  BY <1>1, <1>2 DEF IsAdded
<1> QED
  BY <1>3 DEF u

\* A vertex makes a difference to the node it ends in only, and to that one only when
\* it is cheaper.
IsVertex(nodes, new, m, len, offset, cost) ==
    /\ new \in Seq(Node) /\ Len(new) = Len(nodes)
    /\ \A k \in 1 .. Len(nodes) : k # m + len + 1 => new[k] = nodes[k]
    /\ \/ /\ new[m + len + 1] = nodes[m + len + 1]
          /\ nodes[m + len + 1].weight <= nodes[m + 1].weight + cost
       \/ /\ nodes[m + 1].weight + cost < nodes[m + len + 1].weight
          /\ IsAdded(nodes[m + len + 1], new[m + len + 1], nodes[m + 1].weight + cost, m, len, offset)

\* AddVertex changes one node, and only to a cheaper way.
LEMMA VertexAdded ==
  ASSUME NEW nodes \in Seq(Node), NEW m \in Nat, NEW len \in Nat, m + len + 1 <= Len(nodes),
         NEW offset \in Int, NEW cost \in Int
  PROVE  IsVertex(nodes, AddVertex(nodes, m, len, offset, cost), m, len, offset, cost)
<1>1. PICK n \in 1 .. Len(nodes) : n = m + len + 1
  OBVIOUS
<1>2. PICK t \in Node : t = nodes[n]
  BY <1>1
<1>3. PICK f \in Node : f = nodes[m + 1]
  <2>1. m + 1 \in 1 .. Len(nodes)
    OBVIOUS
  <2> QED
    BY <2>1
<1>4. PICK w \in Int : w = f.weight + cost
  BY SMTT(30) DEF Node
<1> DEFINE u == [t EXCEPT !.weight = w, !.prev = m, !.length = len, !.offset = offset]
<1>5. m \in Int /\ len \in Int
  OBVIOUS
<1>6. IsAdded(t, u, w, m, len, offset)
  BY <1>4, <1>5, CheaperWay, Zenon
<1>7. AddVertex(nodes, m, len, offset, cost) = IF w < t.weight THEN [nodes EXCEPT ![n] = u] ELSE nodes
  BY <1>1, <1>2, <1>3, <1>4 DEF AddVertex
<1> HIDE DEF u
<1>8. u \in Node /\ t.weight \in Int
  BY <1>6, <1>2 DEF IsAdded, Node
<1>9. /\ [nodes EXCEPT ![n] = u] \in Seq(Node)
      /\ Len([nodes EXCEPT ![n] = u]) = Len(nodes)
      /\ \A k \in 1 .. Len(nodes) : k # n => [nodes EXCEPT ![n] = u][k] = nodes[k]
      /\ [nodes EXCEPT ![n] = u][n] = u
  BY <1>8
<1>10. CASE w < t.weight
  BY <1>1, <1>2, <1>3, <1>4, <1>6, <1>7, <1>9, <1>10 DEF IsVertex
<1>11. CASE ~(w < t.weight)
  BY <1>1, <1>2, <1>3, <1>4, <1>7, <1>8, <1>11 DEF IsVertex
<1> QED
  BY <1>10, <1>11

\* What a way of len bytes costs that leaves from node i: as the bits that are written,
\* if it is not a stored block.
HasCost(i, n, m, len, offset, cost) ==
    \/ len > 1 /\ offset = -1
    \/ m = i /\ len = 1 /\ cost = 20 * CompressBits(n) - 20
    \/ m = i /\ len > 1 /\ offset # -1 /\ cost = RefCost(offset) + ((len - 3) \div 7) * 30

Same(a, b) == a.prev = b.prev /\ a.length = b.length /\ a.offset = b.offset /\ a.weight = b.weight

IsWayFrom(seq, i, n, w, j, t) == IsWay(seq, j, t) /\ HasCost(i, n, t.prev, t.length, t.offset, t.weight - w)

\* What a step of round i may do to the nodes: the ways into the first i are settled,
\* and the others are left or made cheaper.
IsStep(seq, i, n, w, old, new) ==
    /\ IsGraph(seq, new)
    /\ \A j \in 0 .. i : Same(old[j + 1], new[j + 1])
    /\ \A j \in i + 1 .. Len(seq) :
          /\ new[j + 1].weight <= old[j + 1].weight
          /\ Same(old[j + 1], new[j + 1]) \/ IsWayFrom(seq, i, n, w, j, new[j + 1])

\* The weight of a node is a number.
LEMMA NodeOf ==
  ASSUME NEW seq, Len(seq) \in Nat, NEW nodes, IsGraph(seq, nodes), NEW j \in 0 .. Len(seq)
  PROVE  nodes[j + 1] \in Node /\ nodes[j + 1].weight \in Int /\ j + 1 \in 1 .. Len(nodes)
<1>1. nodes \in Seq(Node) /\ j + 1 \in 1 .. Len(nodes)
  BY DEF IsGraph
<1>2. nodes[j + 1] \in Node
  BY <1>1
<1> QED
  BY <1>1, <1>2 DEF Node

\* Steps of one round, one after the other, are a step.
LEMMA StepsOn ==
  ASSUME NEW seq, Len(seq) \in Nat, NEW i \in 0 .. Len(seq), NEW n, NEW w,
         NEW old, NEW mid, NEW new, IsGraph(seq, old), IsStep(seq, i, n, w, old, mid),
                IsStep(seq, i, n, w, mid, new)
  PROVE  IsStep(seq, i, n, w, old, new)
<1>1. \A j \in 0 .. i : Same(old[j + 1], new[j + 1])
  BY DEF IsStep, Same
<1>2. ASSUME NEW j \in i + 1 .. Len(seq)
      PROVE  /\ new[j + 1].weight <= old[j + 1].weight
             /\ Same(old[j + 1], new[j + 1]) \/ IsWayFrom(seq, i, n, w, j, new[j + 1])
  <2>1. /\ mid[j + 1].weight <= old[j + 1].weight
        /\ Same(old[j + 1], mid[j + 1]) \/ IsWayFrom(seq, i, n, w, j, mid[j + 1])
    BY DEF IsStep
  <2>2. /\ new[j + 1].weight <= mid[j + 1].weight
        /\ Same(mid[j + 1], new[j + 1]) \/ IsWayFrom(seq, i, n, w, j, new[j + 1])
    BY DEF IsStep
  <2>3. old[j + 1].weight \in Int /\ mid[j + 1].weight \in Int /\ new[j + 1].weight \in Int
    <3>1. IsGraph(seq, mid) /\ IsGraph(seq, new) /\ j \in 0 .. Len(seq)
      BY DEF IsStep
    <3> QED
      BY <3>1, NodeOf
  <2>4. new[j + 1].weight <= old[j + 1].weight
    BY <2>1, <2>2, <2>3
  <2>5. CASE Same(mid[j + 1], new[j + 1])
    <3>1. Same(old[j + 1], mid[j + 1]) => Same(old[j + 1], new[j + 1])
      BY <2>5 DEF Same
    <3>2. IsWayFrom(seq, i, n, w, j, mid[j + 1]) => IsWayFrom(seq, i, n, w, j, new[j + 1])
      BY <2>5 DEF Same, IsWayFrom, IsWay
    <3> QED
      BY <2>1, <2>4, <3>1, <3>2
  <2> QED
    BY <2>2, <2>4, <2>5
<1>3. IsGraph(seq, new)
  BY DEF IsStep
<1> QED
  BY <1>1, <1>2, <1>3 DEF IsStep

\* Offering a way is a step.
LEMMA VertexIsStep ==
  ASSUME NEW seq, Len(seq) \in Nat, NEW i \in 0 .. Len(seq), NEW n, NEW nodes, IsGraph(seq, nodes),
         NEW m \in Nat, NEW len \in Nat, m + len \in i + 1 .. Len(seq), NEW offset \in Int,
                NEW cost \in Int,
         CanGo(seq, m, len, offset), HasCost(i, n, m, len, offset, cost)
  PROVE  /\ IsStep(seq, i, n, nodes[i + 1].weight, nodes, AddVertex(nodes, m, len, offset, cost))
         /\ AddVertex(nodes, m, len, offset, cost)[m + len + 1].weight <= nodes[m + 1].weight + cost
<1> DEFINE new == AddVertex(nodes, m, len, offset, cost)
           w == nodes[i + 1].weight
<1>1. nodes \in Seq(Node) /\ Len(nodes) = Len(seq) + 1
         /\ \A j \in 0 .. Len(seq) : nodes[j + 1].maxStart \in 0 .. j
  BY DEF IsGraph
<1>2. m + len + 1 <= Len(nodes)
  BY <1>1
<1>3. /\ new \in Seq(Node) /\ Len(new) = Len(nodes)
      /\ \A k \in 1 .. Len(nodes) : k # m + len + 1 => new[k] = nodes[k]
      /\ \/ /\ new[m + len + 1] = nodes[m + len + 1]
            /\ nodes[m + len + 1].weight <= nodes[m + 1].weight + cost
         \/ /\ nodes[m + 1].weight + cost < nodes[m + len + 1].weight
            /\ IsAdded(nodes[m + len + 1], new[m + len + 1], nodes[m + 1].weight + cost, m, len, offset)
  <2>1. nodes \in Seq(Node)
    BY <1>1
  <2>2. IsVertex(nodes, new, m, len, offset, cost)
    BY <2>1, <1>2, VertexAdded, Zenon
  <2> HIDE DEF new
  <2> QED
    BY <2>2, Zenon DEF IsVertex
<1> HIDE DEF new
<1>4. PICK k \in i + 1 .. Len(seq) : k = m + len
  OBVIOUS
<1>5. \A j \in 0 .. Len(seq) : j # k => new[j + 1] = nodes[j + 1]
  BY <1>1, <1>3, <1>4
<1>6. \A j \in 0 .. Len(seq) : nodes[j + 1].weight \in Int
  BY NodeOf
<1>7. k \in 0 .. Len(seq) /\ m \in 0 .. Len(seq) /\ i \in 0 .. Len(seq) /\ k + 1 = m + len + 1
  BY <1>4
<1>8. \/ new[k + 1] = nodes[k + 1]
      \/ /\ nodes[m + 1].weight + cost < nodes[k + 1].weight
         /\ IsAdded(nodes[k + 1], new[k + 1], nodes[m + 1].weight + cost, m, len, offset)
  BY <1>3, <1>7
<1>9. new[k + 1].maxStart = nodes[k + 1].maxStart /\ new[k + 1].weight <= nodes[k + 1].weight
      /\ new[k + 1].weight <= nodes[m + 1].weight + cost
  <2>1. nodes[k + 1].weight \in Int /\ nodes[m + 1].weight \in Int
    BY <1>6, <1>7
  <2>2. CASE new[k + 1] = nodes[k + 1] /\ nodes[k + 1].weight <= nodes[m + 1].weight + cost
    BY <2>1, <2>2
  <2>3. CASE /\ nodes[m + 1].weight + cost < nodes[k + 1].weight
             /\ IsAdded(nodes[k + 1], new[k + 1], nodes[m + 1].weight + cost, m, len, offset)
    <3>1. new[k + 1].weight = nodes[m + 1].weight + cost /\ new[k + 1].maxStart = nodes[k + 1].maxStart
      BY <2>3 DEF IsAdded
    <3>2. PICK a \in Int, b \in Int, c \in Int :
             a = nodes[k + 1].weight /\ b = nodes[m + 1].weight /\ c = b + cost
      <4>1. nodes[m + 1].weight + cost \in Int
        BY <2>1
      <4> QED
        BY <2>1, <4>1, Zenon
    <3>3. new[k + 1].weight = c /\ c < a
      BY <2>3, <3>1, <3>2
    <3>4. c <= a /\ c <= c
      <4>1. c < a
        BY <3>3
      <4> QED
        BY <4>1
    <3> QED
      BY <3>1, <3>2, <3>3, <3>4, Zenon
  <2> QED
    BY <1>3, <1>7, <2>2, <2>3
<1>10. Same(nodes[k + 1], new[k + 1]) \/ IsWayFrom(seq, i, n, w, k, new[k + 1])
  <2>1. CASE new[k + 1] = nodes[k + 1]
    BY <2>1 DEF Same
  <2>2. CASE IsAdded(nodes[k + 1], new[k + 1], nodes[m + 1].weight + cost, m, len, offset)
    <3> DEFINE t == new[k + 1]
    <3>1. t.weight = nodes[m + 1].weight + cost /\ t.prev = m /\ t.length = len /\ t.offset = offset
      BY <2>2 DEF IsAdded
    <3>2. m = i => t.weight - w = cost
      BY <1>6, <1>7, <3>1
    <3> HIDE DEF t
    <3>3. IsWay(seq, k, t)
      BY <1>4, <3>1 DEF IsWay
    <3>4. HasCost(i, n, t.prev, t.length, t.offset, t.weight - w)
      BY <3>1, <3>2, Zenon DEF HasCost
    <3> QED
      BY <3>3, <3>4 DEF IsWayFrom, t
  <2> QED
    BY <1>8, <2>1, <2>2
<1> HIDE DEF w
<1>11. \A j \in 0 .. i : Same(nodes[j + 1], new[j + 1])
  <2> TAKE j \in 0 .. i
  <2>1. j \in 0 .. Len(seq) /\ j # k
    BY <1>4
  <2>2. new[j + 1] = nodes[j + 1]
    BY <1>5, <2>1
  <2> QED
    BY <2>2 DEF Same
<1>12. ASSUME NEW j \in i + 1 .. Len(seq)
       PROVE  /\ new[j + 1].weight <= nodes[j + 1].weight
              /\ Same(nodes[j + 1], new[j + 1]) \/ IsWayFrom(seq, i, n, w, j, new[j + 1])
  <2>1. CASE j = k
    BY <1>9, <1>10, <2>1
  <2>2. CASE j # k
    <3>1. j \in 0 .. Len(seq)
      OBVIOUS
    <3>2. new[j + 1] = nodes[j + 1] /\ nodes[j + 1].weight \in Int
      BY <1>5, <1>6, <2>2, <3>1
    <3> QED
      BY <3>2 DEF Same
  <2> QED
    BY <2>1, <2>2
<1>13. IsGraph(seq, new)
  BY <1>1, <1>3, <1>5, <1>7, <1>9 DEF IsGraph
<1>14. IsStep(seq, i, n, w, nodes, new)
  BY <1>11, <1>12, <1>13 DEF IsStep
<1> QED
  BY <1>7, <1>9, <1>14 DEF new, w

\* So is leaving the graph alone,
LEMMA NoStep ==
  ASSUME NEW seq, Len(seq) \in Nat, NEW i \in 0 .. Len(seq), NEW n, NEW w, NEW nodes, IsGraph(seq, nodes)
  PROVE  IsStep(seq, i, n, w, nodes, nodes)
<1>1. ASSUME NEW j \in i + 1 .. Len(seq) PROVE nodes[j + 1].weight <= nodes[j + 1].weight
  <2>1. j \in 0 .. Len(seq)
    OBVIOUS
  <2>2. nodes[j + 1].weight \in Int
    BY <2>1, NodeOf
  <2> QED
    BY <2>2
<1> QED
  BY <1>1 DEF IsStep, Same

\* What is counted of node i is no way into it.
LEMMA CountedIsStep ==
  ASSUME NEW seq, Len(seq) \in Nat, NEW i \in 0 .. Len(seq), NEW n, NEW w, NEW nodes, IsGraph(seq, nodes),
         NEW start \in 0 .. i, NEW most \in Int, NEW least \in Int
  PROVE  LET t == [nodes[i + 1] EXCEPT !.maxStart = start, !.maxSum = most, !.minSum = least]
         IN  IsStep(seq, i, n, w, nodes, [nodes EXCEPT ![i + 1] = t])
<1> DEFINE t == [nodes[i + 1] EXCEPT !.maxStart = start, !.maxSum = most, !.minSum = least]
           new == [nodes EXCEPT ![i + 1] = t]
<1>1. PICK old \in Node : old = nodes[i + 1]
  BY NodeOf
<1>2. /\ t \in Node /\ t.maxStart = start /\ Same(old, t)
  <2>1. t = [old EXCEPT !.maxStart = start, !.maxSum = most, !.minSum = least]
    BY <1>1
  <2> DEFINE u == [old EXCEPT !.maxStart = start, !.maxSum = most, !.minSum = least]
  <2>2. start \in Int
    OBVIOUS
  <2>3. u \in Node
    BY <2>2 DEF Node
  <2>4. /\ u.weight = old.weight /\ u.prev = old.prev /\ u.length = old.length /\ u.offset = old.offset
        /\ u.maxStart = start
    BY DEF Node
  <2> HIDE DEF u
  <2>5. Same(old, u)
    BY <2>4 DEF Same
  <2>6. t = u
    BY <2>1 DEF u
  <2> HIDE DEF t
  <2> QED
    BY <2>3, <2>4, <2>5, <2>6
<1> HIDE DEF t
<1>3. nodes \in Seq(Node) /\ Len(nodes) = Len(seq) + 1
         /\ \A j \in 0 .. Len(seq) : nodes[j + 1].maxStart \in 0 .. j
  BY DEF IsGraph
<1>4. /\ new \in Seq(Node) /\ Len(new) = Len(nodes) /\ new[i + 1] = t
      /\ \A k \in 1 .. Len(nodes) : k # i + 1 => new[k] = nodes[k]
  <2>1. i + 1 \in 1 .. Len(nodes) /\ nodes \in Seq(Node)
    BY <1>3
  <2> QED
    BY <1>2, <2>1
<1> HIDE DEF new
<1>5. \A j \in 0 .. Len(seq) : j # i => new[j + 1] = nodes[j + 1]
  BY <1>3, <1>4
<1>6. IsGraph(seq, new)
  BY <1>2, <1>3, <1>4, <1>5 DEF IsGraph
<1>7. ASSUME NEW j \in 0 .. i PROVE Same(nodes[j + 1], new[j + 1])
  <2>1. CASE j = i
    BY <1>1, <1>2, <1>4, <2>1
  <2>2. CASE j # i
    <3>1. j \in 0 .. Len(seq)
      OBVIOUS
    <3>2. new[j + 1] = nodes[j + 1]
      BY <1>5, <2>2, <3>1
    <3> QED
      BY <3>2 DEF Same
  <2> QED
    BY <2>1, <2>2
<1>8. ASSUME NEW j \in i + 1 .. Len(seq)
      PROVE  new[j + 1].weight <= nodes[j + 1].weight /\ Same(nodes[j + 1], new[j + 1])
  <2>1. j \in 0 .. Len(seq) /\ j # i
    OBVIOUS
  <2>2. new[j + 1] = nodes[j + 1]
    BY <1>5, <2>1
  <2>3. nodes[j + 1].weight \in Int
    BY <2>1, NodeOf
  <2> QED
    BY <2>2, <2>3 DEF Same
<1>9. IsStep(seq, i, n, w, nodes, new)
  BY <1>6, <1>7, <1>8 DEF IsStep
<1> QED
  BY <1>9 DEF t, new

\* and the search for a stored block.
LEMMA GainIsStep ==
  ASSUME NEW seq, Len(seq) \in Nat, NEW i \in 0 .. Len(seq), NEW n, NEW nodes, IsGraph(seq, nodes),
         i # 0 => IsWay(seq, i, nodes[i + 1])
  PROVE  IsStep(seq, i, n, nodes[i + 1].weight, nodes, Gain(seq, nodes, i))
<1>1. CASE i = 0
  <2>1. Gain(seq, nodes, i) = nodes
    BY <1>1 DEF Gain
  <2> QED
    BY <2>1, NoStep
<1>2. CASE i # 0
  <2> DEFINE cur == nodes[i + 1]
             from == nodes[cur.prev + 1]
             delta == (cur.weight - from.weight) - 80 * (i - cur.prev)
             least == Shorter(0, from.minSum + delta)
             sum == Longer(0, from.maxSum + delta)
             start == IF from.maxSum + delta > 0 THEN from.maxStart ELSE i
             kept == IF least < -210 THEN 0 ELSE sum
             counted == [nodes EXCEPT ![i + 1] = [@ EXCEPT !.maxStart = start, !.maxSum = kept, !.minSum = least]]
             count == i + 1 - start
             w == nodes[i + 1].weight
  <2>1. Gain(seq, nodes, i) =
           IF kept >= 160 /\ i + 1 < Len(seq)
           THEN AddVertex(counted, start, count, -1, 210 + 80 * count + 1000 \div count)
           ELSE counted
    BY <1>2 DEF Gain
  <2>2. cur.prev \in 0 .. i - 1
    BY <1>2 DEF IsWay, CanGo
  <2>3. cur \in Node
    BY NodeOf
  <2>4. from \in Node /\ from.maxStart \in 0 .. cur.prev
    <3>1. cur.prev \in 0 .. Len(seq)
      BY <2>2
    <3> HIDE DEF cur
    <3> QED
      BY <3>1, NodeOf DEF IsGraph
  <2>5. cur.weight \in Int /\ from.weight \in Int /\ from.maxSum \in Int /\ from.minSum \in Int
    <3> HIDE DEF cur, from
    <3> QED
      BY <2>3, <2>4 DEF Node
  <2> HIDE DEF cur, from
  <2>6. delta \in Int
    BY <2>2, <2>5
  <2> HIDE DEF delta
  <2>7. least \in Int /\ sum \in Int
    BY <2>5, <2>6 DEF Shorter, Longer
  <2>8. start \in 0 .. i /\ (sum > 0 => start < i)
    BY <2>2, <2>4, <2>5, <2>6 DEF Longer
  <2> HIDE DEF least, sum, start
  <2>9. kept \in Int /\ (kept >= 160 => start < i)
    BY <2>7, <2>8
  <2> HIDE DEF kept
  <2>10. IsStep(seq, i, n, w, nodes, counted)
    BY <2>7, <2>8, <2>9, CountedIsStep
  <2>11. IsGraph(seq, counted)
    <3> HIDE DEF counted, w
    <3> QED
      BY <2>10 DEF IsStep
  <2>12. counted[i + 1].weight = w
    <3> HIDE DEF counted
    <3> QED
      BY <2>10 DEF IsStep, Same
  <2> HIDE DEF counted
  <2>13. ASSUME kept >= 160, i + 1 < Len(seq)
         PROVE  IsStep(seq, i, n, w, counted, AddVertex(counted, start, count, -1, 210 + 80 * count + 1000 \div count))
    <3>1. start \in Nat /\ count \in Nat /\ count > 1 /\ start + count = i + 1
             /\ start + count \in i + 1 .. Len(seq)
      BY <2>8, <2>9, <2>13
    <3> HIDE DEF count
    <3>2. PICK cost \in Int : cost = 210 + 80 * count + 1000 \div count
      BY <3>1
    <3>3. CanGo(seq, start, count, -1) /\ HasCost(i, n, start, count, -1, cost)
      BY <2>13, <3>1 DEF CanGo, HasCost
    <3>4. -1 \in Int
      OBVIOUS
    <3>5. IsStep(seq, i, n, counted[i + 1].weight, counted, AddVertex(counted, start, count, -1, cost))
      BY <2>11, <3>1, <3>3, <3>4, VertexIsStep
    <3> QED
      BY <2>12, <3>2, <3>5
  <2> DEFINE added == AddVertex(counted, start, count, -1, 210 + 80 * count + 1000 \div count)
  <2> HIDE DEF w, added
  <2>14. ASSUME kept >= 160, i + 1 < Len(seq) PROVE IsStep(seq, i, n, w, nodes, added)
    <3>1. IsStep(seq, i, n, w, counted, added)
      BY <2>13, <2>14 DEF added
    <3> QED
      BY <2>10, <3>1, StepsOn
  <2>15. IsStep(seq, i, n, w, nodes, Gain(seq, nodes, i))
    BY <2>1, <2>10, <2>14 DEF added
  <2> QED
    BY <2>15 DEF w
<1> QED
  BY <1>1, <1>2

\* The common prefix ends somewhere.
LEMMA CommonIs ==
  ASSUME NEW seq, Len(seq) \in Nat, NEW i \in 0 .. Len(seq), NEW j \in Int
  PROVE  Common(seq, i, j) \in 0 .. Len(seq) - i
            /\ \A h \in 1 .. Common(seq, i, j) : seq[i + h] = seq[j + h]
<1> DEFINE Ends(k) == /\ \A h \in 1 .. k : seq[i + h] = seq[j + h]
                      /\ k = Len(seq) - i \/ seq[i + k + 1] # seq[j + k + 1]
           Good == {k \in Nat : \/ k <= Len(seq) - i => \A h \in 1 .. k : seq[i + h] = seq[j + h]
                                \/ \E e \in 0 .. Len(seq) - i : Ends(e)}
<1>1. 0 \in Good
  OBVIOUS
<1>2. ASSUME NEW k \in Nat, k \in Good PROVE k + 1 \in Good
  <2>1. CASE \E e \in 0 .. Len(seq) - i : Ends(e)
    <3> HIDE DEF Ends
    <3> QED
      BY <2>1
  <2>2. CASE k + 1 > Len(seq) - i
    <3>1. ~(k + 1 <= Len(seq) - i)
      BY <2>2
    <3> QED
      BY <3>1
  <2>3. CASE k + 1 <= Len(seq) - i /\ ~ \E e \in 0 .. Len(seq) - i : Ends(e)
    <3>1. \A h \in 1 .. k : seq[i + h] = seq[j + h]
      BY <1>2, <2>3
    <3>2. k \in 0 .. Len(seq) - i
      BY <2>3
    <3>3. seq[i + k + 1] = seq[j + k + 1]
      BY <2>3, <3>1, <3>2
    <3>4. ASSUME NEW h \in 1 .. k + 1 PROVE seq[i + h] = seq[j + h]
      <4>1. CASE h \in 1 .. k
        BY <3>1, <4>1
      <4>2. CASE h = k + 1
        <5>1. i + (k + 1) = i + k + 1 /\ j + (k + 1) = j + k + 1
          BY <3>2
        <5> QED
          BY <3>3, <4>2, <5>1
      <4> QED
        BY <4>1, <4>2
    <3> QED
      BY <3>4
  <2> QED
    BY <2>1, <2>2, <2>3
<1>3. Nat \subseteq Good
  <2> HIDE DEF Good
  <2> QED
    BY <1>1, <1>2, Counting
<1>4. \E k \in 0 .. Len(seq) - i : Ends(k)
  <2>1. Len(seq) - i \in Nat
    OBVIOUS
  <2>2. Len(seq) - i \in Good
    BY <1>3, <2>1
  <2>3. CASE \A h \in 1 .. Len(seq) - i : seq[i + h] = seq[j + h]
    <3>1. Ends(Len(seq) - i) /\ Len(seq) - i \in 0 .. Len(seq) - i
      BY <2>1, <2>3
    <3> QED
      BY <3>1
  <2>4. ~ (\A h \in 1 .. Len(seq) - i : seq[i + h] = seq[j + h]) => \E e \in 0 .. Len(seq) - i : Ends(e)
    <3> HIDE DEF Ends
    <3> QED
      BY <2>1, <2>2
  <2> HIDE DEF Ends
  <2> QED
    BY <2>3, <2>4
<1>5. Common(seq, i, j) = CHOOSE k \in 0 .. Len(seq) - i : Ends(k)
  BY DEF Common
<1>6. Common(seq, i, j) \in 0 .. Len(seq) - i /\ Ends(Common(seq, i, j))
  <2> HIDE DEF Ends
  <2> QED
    BY <1>4, <1>5
<1> QED
  BY <1>6

\* A reference found is a copy of each length that is offered.
LEMMA ReferenceIs ==
  ASSUME NEW seq, Len(seq) \in Nat, NEW i \in 0 .. Len(seq), NEW r \in References(seq, i)
  PROVE  /\ r.len \in Int /\ r.offset \in Int /\ r.offset # -1
         /\ \A len \in 3 .. r.len : len <= Len(seq) - i /\ IsCopy(seq, i, r.offset, len)
<1>1. PICK j \in Longer(0, i - 32768) .. i - 1 : r = [offset |-> i - j, len |-> Common(seq, i, j)]
         /\ r.len >= 3
  BY DEF References, Copies
<1>2. Longer(0, i - 32768) \in Int /\ Longer(0, i - 32768) >= 0 /\ Longer(0, i - 32768) >= i - 32768
  BY DEF Longer
<1>3. j \in Int /\ j \in 0 .. i - 1 /\ i - j <= Shift(15)
  BY <1>2 DEF Shift
<1>4. r.offset = i - j /\ r.len = Common(seq, i, j)
  BY <1>1
<1>5. r.offset \in Int /\ r.offset # -1 /\ r.offset \in 1 .. i /\ r.offset <= Shift(15) /\ i - r.offset = j
  BY <1>3, <1>4
<1>6. r.len \in 0 .. Len(seq) - i /\ \A h \in 1 .. r.len : seq[i + h] = seq[j + h]
  BY <1>3, <1>4, CommonIs
<1>7. ASSUME NEW len \in 3 .. r.len PROVE len <= Len(seq) - i /\ IsCopy(seq, i, r.offset, len)
  <2>1. \A h \in 1 .. len : seq[i + h] = seq[(i - r.offset) + h]
    <3> TAKE h \in 1 .. len
    <3>1. h \in 1 .. r.len
      BY <1>6
    <3>2. seq[i + h] = seq[j + h]
      BY <1>6, <3>1
    <3> QED
      BY <1>5, <3>2
  <2> QED
    BY <1>5, <1>6, <2>1, SMTT(30) DEF IsCopy
<1>8. r.len \in Int
  BY <1>6
<1> QED
  BY <1>5, <1>7, <1>8

LEMMA CheapestIs ==
  ASSUME NEW refs, refs # {}
  PROVE  Cheapest(refs) \in refs
<1>1. \A r \in refs : RefCost(r.offset) \in {110, 160, 200}
  BY DEF RefCost, RefClass
<1>2. \E r \in refs : \A x \in refs : RefCost(r.offset) <= RefCost(x.offset)
  <2>1. CASE \E r \in refs : RefCost(r.offset) = 110
    BY <1>1, <2>1
  <2>2. CASE \A r \in refs : RefCost(r.offset) # 110
    <3>1. CASE \E r \in refs : RefCost(r.offset) = 160
      BY <1>1, <2>2, <3>1
    <3>2. CASE \A r \in refs : RefCost(r.offset) # 160
      BY <1>1, <2>2, <3>2
    <3> QED
      BY <3>1, <3>2
  <2> QED
    BY <2>1, <2>2
<1> QED
  BY <1>2, Zenon DEF Cheapest

\* Offering a reference of one length is a step,
LEMMA ReferenceIsStep ==
  ASSUME NEW seq, Len(seq) \in Nat, NEW i \in 0 .. Len(seq), NEW n, NEW nodes, IsGraph(seq, nodes),
         NEW len \in 1 .. Len(seq) - i
  PROVE  LET t == AddReference(nodes, i, References(seq, i), len)
         IN  \/ t = nodes[i + len + 1]
             \/ \E new : /\ IsStep(seq, i, n, nodes[i + 1].weight, nodes, new)
                         /\ t = new[i + len + 1]
<1> DEFINE refs == References(seq, i)
           t == AddReference(nodes, i, refs, len)
<1>1. CASE Offers(refs, len) = {}
  BY <1>1 DEF AddReference
<1>2. CASE Offers(refs, len) # {}
  <2>1. PICK r \in Offers(refs, len) : r = Cheapest(Offers(refs, len))
    BY <1>2, CheapestIs
  <2>2. r \in refs /\ len \in Longer(3, r.len - 7) .. r.len
    BY DEF Offers
  <2> DEFINE cost == RefCost(r.offset) + ((len - 3) \div 7) * 30
             new == AddVertex(nodes, i, len, r.offset, cost)
  <2>3. t = new[i + len + 1]
    BY <1>2, <2>1 DEF AddReference
  <2>4. len >= 3 /\ len \in 3 .. r.len
    <3>1. r.len \in Int
      BY <2>2, ReferenceIs
    <3> QED
      BY <2>2, <3>1 DEF Longer
  <2>5. r.offset \in Int /\ r.offset # -1 /\ IsCopy(seq, i, r.offset, len)
    BY <2>2, <2>4, ReferenceIs
  <2>6. cost \in Int
    <3>1. RefCost(r.offset) \in {110, 160, 200}
      BY DEF RefCost, RefClass
    <3> QED
      BY <2>4, <3>1
  <2>7. CanGo(seq, i, len, r.offset)
    BY <2>5 DEF CanGo
  <2>8. HasCost(i, n, i, len, r.offset, cost)
    BY <2>4, <2>5 DEF HasCost
  <2>9. i \in Nat /\ len \in Nat /\ i + len \in i + 1 .. Len(seq)
    OBVIOUS
  <2> HIDE DEF cost
  <2>10. IsStep(seq, i, n, nodes[i + 1].weight, nodes, new)
    BY <2>5, <2>6, <2>7, <2>8, <2>9, VertexIsStep
  <2> QED
    BY <2>3, <2>10
<1> QED
  BY <1>1, <1>2

\* and so is offering those of every length at once.
LEMMA ReferencesAreStep ==
  ASSUME NEW seq, Len(seq) \in Nat, NEW i \in 0 .. Len(seq), NEW n, NEW nodes, IsGraph(seq, nodes)
  PROVE  IsStep(seq, i, n, nodes[i + 1].weight, nodes, AddReferences(nodes, i, References(seq, i)))
<1> DEFINE refs == References(seq, i)
           w == nodes[i + 1].weight
           tail == [len \in 1 .. Len(nodes) - i - 1 |-> AddReference(nodes, i, refs, len)]
           head == SubSeq(nodes, 1, i + 1)
           new == AddReferences(nodes, i, refs)
<1>1. nodes \in Seq(Node) /\ Len(nodes) = Len(seq) + 1
         /\ \A j \in 0 .. Len(seq) : nodes[j + 1].maxStart \in 0 .. j
  BY DEF IsGraph
<1>2. ASSUME NEW len \in 1 .. Len(seq) - i
      PROVE  LET t == AddReference(nodes, i, refs, len)
                 j == i + len
             IN  /\ t \in Node /\ t.maxStart \in 0 .. j
                 /\ t.weight <= nodes[j + 1].weight
                 /\ Same(nodes[j + 1], t) \/ IsWayFrom(seq, i, n, w, j, t)
  <2> DEFINE t == AddReference(nodes, i, refs, len)
             j == i + len
  <2>1. j \in i + 1 .. Len(seq) /\ j \in 0 .. Len(seq)
    OBVIOUS
  <2>2. nodes[j + 1] \in Node /\ nodes[j + 1].weight \in Int /\ nodes[j + 1].maxStart \in 0 .. j
    BY <1>1, <2>1, NodeOf
  <2>3. ASSUME t = nodes[j + 1]
        PROVE  /\ t \in Node /\ t.maxStart \in 0 .. j
               /\ t.weight <= nodes[j + 1].weight
               /\ Same(nodes[j + 1], t) \/ IsWayFrom(seq, i, n, w, j, t)
    <3> HIDE DEF t, j
    <3> QED
      BY <2>2, <2>3 DEF Same
  <2>4. ASSUME NEW new1, IsStep(seq, i, n, w, nodes, new1), t = new1[j + 1]
        PROVE  /\ t \in Node /\ t.maxStart \in 0 .. j
               /\ t.weight <= nodes[j + 1].weight
               /\ Same(nodes[j + 1], t) \/ IsWayFrom(seq, i, n, w, j, t)
    <3> HIDE DEF t, j, w
    <3>1. IsGraph(seq, new1)
      BY <2>4 DEF IsStep
    <3>2. new1[j + 1] \in Node /\ new1[j + 1].maxStart \in 0 .. j
      BY <2>1, <3>1, NodeOf DEF IsGraph
    <3> QED
      BY <2>1, <2>4, <3>2 DEF IsStep
  <2>5. \/ t = nodes[j + 1]
        \/ \E new1 : IsStep(seq, i, n, w, nodes, new1) /\ t = new1[j + 1]
    BY ReferenceIsStep, ZenonT(60)
  <2> HIDE DEF t, j
  <2>6. /\ t \in Node /\ t.maxStart \in 0 .. j
        /\ t.weight <= nodes[j + 1].weight
        /\ Same(nodes[j + 1], t) \/ IsWayFrom(seq, i, n, w, j, t)
    BY <2>3, <2>4, <2>5
  <2> QED
    BY <2>6 DEF t, j
<1>3. new = head \o tail
  BY DEF AddReferences
<1>4. head \in Seq(Node) /\ Len(head) = i + 1 /\ \A k \in 1 .. i + 1 : head[k] = nodes[k]
  <2>1. i + 1 \in 0 .. Len(nodes) /\ nodes \in Seq(Node)
    BY <1>1
  <2> QED
    BY <2>1, Firsts
<1>5. tail \in Seq(Node) /\ Len(tail) = Len(seq) - i
         /\ \A k \in 1 .. Len(seq) - i : tail[k] = AddReference(nodes, i, refs, k)
  <2>1. Len(nodes) - i - 1 = Len(seq) - i /\ Len(seq) - i \in Nat
    BY <1>1
  <2>2. tail = [len \in 1 .. Len(seq) - i |-> AddReference(nodes, i, refs, len)]
    BY <2>1
  <2>3. \A k \in 1 .. Len(seq) - i : AddReference(nodes, i, refs, k) \in Node
    BY <1>2
  <2> HIDE DEF tail, refs
  <2> QED
    BY <2>1, <2>2, <2>3
<1> HIDE DEF head, tail
<1>6. /\ new \in Seq(Node) /\ Len(new) = Len(head) + Len(tail)
      /\ \A k \in 1 .. Len(head) : new[k] = head[k]
      /\ \A k \in 1 .. Len(tail) : new[Len(head) + k] = tail[k]
  <2>1. head \in Seq(Node) /\ tail \in Seq(Node)
    BY <1>4, <1>5
  <2>2. /\ head \o tail \in Seq(Node) /\ Len(head \o tail) = Len(head) + Len(tail)
        /\ \A k \in 1 .. Len(head) : (head \o tail)[k] = head[k]
        /\ \A k \in 1 .. Len(tail) : (head \o tail)[Len(head) + k] = tail[k]
    BY <2>1, JoinedSequences
  <2> HIDE DEF new
  <2> QED
    BY <1>3, <2>2
<1> HIDE DEF new
<1>7. \A j \in 0 .. i : new[j + 1] = nodes[j + 1]
  BY <1>4, <1>6
<1>8. \A j \in i + 1 .. Len(seq) : j - i \in 1 .. Len(seq) - i /\ i + (j - i) = j
         /\ new[j + 1] = AddReference(nodes, i, refs, j - i)
  <2> TAKE j \in i + 1 .. Len(seq)
  <2>1. PICK k \in 1 .. Len(seq) - i : k = j - i /\ j + 1 = i + 1 + k /\ i + (j - i) = j
    <3>1. j - i \in 1 .. Len(seq) - i /\ j + 1 = i + 1 + (j - i) /\ i + (j - i) = j
      OBVIOUS
    <3> QED
      BY <3>1
  <2>2. new[j + 1] = tail[k]
    BY <1>4, <1>5, <1>6, <2>1
  <2> QED
    BY <1>5, <2>1, <2>2
<1> HIDE DEF refs, w
<1>9. \A j \in i + 1 .. Len(seq) :
         /\ new[j + 1] \in Node /\ new[j + 1].maxStart \in 0 .. j
         /\ new[j + 1].weight <= nodes[j + 1].weight
         /\ Same(nodes[j + 1], new[j + 1]) \/ IsWayFrom(seq, i, n, w, j, new[j + 1])
  BY <1>2, <1>8
<1>10. IsGraph(seq, new)
  <2>1. Len(new) = Len(seq) + 1
    BY <1>4, <1>5, <1>6
  <2>2. ASSUME NEW j \in 0 .. Len(seq) PROVE new[j + 1].maxStart \in 0 .. j
    <3>1. CASE j \in 0 .. i
      BY <1>1, <1>7, <3>1
    <3>2. CASE j \in i + 1 .. Len(seq)
      BY <1>9, <3>2
    <3> QED
      BY <3>1, <3>2
  <2> QED
    BY <1>6, <2>1, <2>2 DEF IsGraph
<1>11. \A j \in 0 .. i : Same(nodes[j + 1], new[j + 1])
  BY <1>7 DEF Same
<1>12. IsStep(seq, i, n, w, nodes, new)
  BY <1>9, <1>10, <1>11 DEF IsStep
<1> QED
  BY <1>12 DEF new, w, refs

IsRound(r) == r = [nodes |-> r.nodes, mtf |-> r.mtf]

\* The number of byte i of the text on the list, on the best way there.
Here(seq, i, r) == Rollback(seq, r.nodes, i, r.mtf)
FoundAt(seq, i, r) == Find(Here(seq, i, r).list, seq[i + 1])

\* A round of the search is a step, which reaches the next node by a single byte.
LEMMA RelaxIsStep ==
  ASSUME NEW seq, Len(seq) \in Nat, NEW i \in 0 .. Len(seq) - 1, NEW r, IsRound(r), IsGraph(seq, r.nodes),
         i # 0 => IsWay(seq, i, r.nodes[i + 1])
  PROVE  /\ IsRound(Relax(seq, i, r))
         /\ IsStep(seq, i, FoundAt(seq, i, r), r.nodes[i + 1].weight, r.nodes, Relax(seq, i, r).nodes)
         /\ Relax(seq, i, r).nodes[i + 2].weight <= r.nodes[i + 1].weight + 140
         /\ Relax(seq, i, r).mtf = PushOp(Here(seq, i, r), seq[i + 1])
<1> DEFINE n == FoundAt(seq, i, r)
           nodes == r.nodes
           w == nodes[i + 1].weight
           gained == Gain(seq, nodes, i)
           cost == 20 * CompressBits(n) - 20
           one == AddVertex(gained, i, 1, -1, cost)
           final == AddReferences(one, i, References(seq, i))
           moved == PushOp(Here(seq, i, r), seq[i + 1])
<1>1. Relax(seq, i, r) = [nodes |-> final, mtf |-> moved]
  <2>1. Relax(seq, i, r) = [r EXCEPT !.nodes = final, !.mtf = moved]
    BY DEF Relax, FoundAt, Here
  <2>2. r \in [nodes : {r.nodes}, mtf : {r.mtf}]
    BY DEF IsRound
  <2> HIDE DEF final, moved
  <2>3. \A a, b : [r EXCEPT !.nodes = a, !.mtf = b] = [nodes |-> a, mtf |-> b]
    <3> TAKE a, b
    <3>1. [r EXCEPT !.nodes = a, !.mtf = b] = [[r EXCEPT !.nodes = a] EXCEPT !.mtf = b]
      OBVIOUS
    <3>2. PICK u : u = [nodes |-> a, mtf |-> r.mtf]
      OBVIOUS
    <3>3. [r EXCEPT !.nodes = a] = u
      BY <2>2, <3>2
    <3>4. [u EXCEPT !.mtf = b] = [nodes |-> a, mtf |-> b]
      BY <3>2
    <3> QED
      BY <3>1, <3>3, <3>4
  <2> QED
    BY <2>1, <2>3
<1>2. i \in 0 .. Len(seq) /\ i \in Nat /\ 1 \in Nat /\ i + 1 \in i + 1 .. Len(seq) /\ -1 \in Int
         /\ (i + 1) + 1 = i + 2
      /\ i + 1 \in 0 .. Len(seq)
  OBVIOUS
<1> HIDE DEF n, nodes
<1>3. IsStep(seq, i, n, w, nodes, gained)
  BY <1>2, GainIsStep DEF nodes
<1>4. IsGraph(seq, nodes) /\ IsGraph(seq, gained)
  BY <1>3 DEF IsStep, nodes
<1> HIDE DEF w, gained
<1>5. gained[i + 1].weight = w
  <2>1. Same(nodes[i + 1], gained[i + 1])
    BY <1>2, <1>3 DEF IsStep
  <2> QED
    BY <2>1 DEF Same, w
<1>6. CompressBits(n) \in 4 .. 8
  BY DEF CompressBits
<1>7. cost \in Int /\ cost <= 140
  BY <1>6
<1>8. CanGo(seq, i, 1, -1) /\ HasCost(i, n, i, 1, -1, cost)
  BY <1>2 DEF CanGo, HasCost
<1> HIDE DEF cost
<1>9. /\ IsStep(seq, i, n, w, gained, one)
      /\ one[i + 2].weight <= w + cost
  <2>1. /\ IsStep(seq, i, n, gained[i + 1].weight, gained, AddVertex(gained, i, 1, -1, cost))
        /\ AddVertex(gained, i, 1, -1, cost)[i + 1 + 1].weight <= gained[i + 1].weight + cost
    BY <1>2, <1>4, <1>7, <1>8, VertexIsStep, Zenon
  <2>2. i + 1 + 1 = i + 2
    BY <1>2
  <2> QED
    BY <1>5, <2>1, <2>2
<1> HIDE DEF one
<1>10. IsGraph(seq, one) /\ one[i + 1].weight = w
  <2>1. Same(gained[i + 1], one[i + 1]) /\ IsGraph(seq, one)
    BY <1>2, <1>9 DEF IsStep
  <2> QED
    BY <1>5, <2>1 DEF Same
<1>11. IsStep(seq, i, n, w, one, final)
  BY <1>2, <1>10, ReferencesAreStep
<1> HIDE DEF final
<1>12. IsStep(seq, i, n, w, nodes, final)
  <2>1. IsStep(seq, i, n, w, nodes, one)
    BY <1>2, <1>3, <1>4, <1>9, StepsOn
  <2> QED
    BY <1>2, <1>4, <1>11, <2>1, StepsOn
<1>13. final[i + 2].weight <= w + 140
  <2>1. final[i + 2].weight <= one[i + 2].weight
    BY <1>2, <1>11 DEF IsStep
  <2>2. IsGraph(seq, final)
    BY <1>12 DEF IsStep
  <2>3. final[(i + 1) + 1].weight \in Int /\ one[(i + 1) + 1].weight \in Int /\ w \in Int
    BY <1>2, <1>4, <1>10, <2>2, NodeOf DEF w
  <2>4. final[i + 2].weight \in Int /\ one[i + 2].weight \in Int
    BY <1>2, <2>3
  <2> QED
    BY <1>7, <1>9, <2>1, <2>3, <2>4, SMTT(30)
<1> HIDE DEF moved
<1>14. IsRound(Relax(seq, i, r)) /\ Relax(seq, i, r).nodes = final /\ Relax(seq, i, r).mtf = moved
  BY <1>1 DEF IsRound
<1> QED
  BY <1>12, <1>13, <1>14 DEF n, nodes, w, moved

FreshNodes(seq) == <<[FreshNode EXCEPT !.weight = 0]>> \o [n \in 1 .. Len(seq) |-> FreshNode]

\* The rounds of the search.
IsRelaxed(g, seq, n) ==
    g = [k \in 0 .. n |-> IF k = 0 THEN [nodes |-> FreshNodes(seq), mtf |-> FreshMtf]
           ELSE Relax(seq, k - 1, g[k - 1])]

LEMMA RelaxedExists == ASSUME NEW seq, NEW n \in Nat PROVE \E g : IsRelaxed(g, seq, n)
<1> DEFINE S == {m \in Nat : \E g : IsRelaxed(g, seq, m)}
<1>1. 0 \in S
  <2> DEFINE g == [k \in 0 .. 0 |-> [nodes |-> FreshNodes(seq), mtf |-> FreshMtf]]
  <2>1. \A k \in 0 .. 0 : k = 0
    OBVIOUS
  <2>2. g = [k \in 0 .. 0 |-> IF k = 0 THEN [nodes |-> FreshNodes(seq), mtf |-> FreshMtf]
           ELSE Relax(seq, k - 1, g[k - 1])]
    BY <2>1
  <2> QED
    BY <2>2 DEF IsRelaxed
<1>2. ASSUME NEW m \in Nat, m \in S PROVE m + 1 \in S
  <2>1. PICK g : IsRelaxed(g, seq, m)
    BY <1>2
  <2> DEFINE h == [k \in 0 .. m + 1 |-> IF k = m + 1 THEN Relax(seq, (m + 1) - 1, g[m]) ELSE g[k]]
  <2>2. \A k \in 0 .. m : g[k] = IF k = 0 THEN [nodes |-> FreshNodes(seq), mtf |-> FreshMtf]
           ELSE Relax(seq, k - 1, g[k - 1])
    BY <2>1 DEF IsRelaxed
  <2>3. \A k \in 0 .. m + 1 : h[k] = IF k = 0 THEN [nodes |-> FreshNodes(seq), mtf |-> FreshMtf]
           ELSE Relax(seq, k - 1, h[k - 1])
    <3> TAKE k \in 0 .. m + 1
    <3>1. CASE k = m + 1
      <4>1. k - 1 = m /\ k # 0 /\ h[m] = g[m]
        BY <3>1
      <4> QED
        BY <3>1, <4>1
    <3>2. CASE k # m + 1
      <4>1. k \in 0 .. m /\ h[k] = g[k] /\ (k # 0 => h[k - 1] = g[k - 1])
        BY <3>2
      <4> QED
        BY <2>2, <4>1
    <3> QED
      BY <3>1, <3>2
  <2>4. h = [k \in 0 .. m + 1 |-> h[k]]
    OBVIOUS
  <2> HIDE DEF h
  <2>5. IsRelaxed(h, seq, m + 1)
    BY <2>3, <2>4 DEF IsRelaxed
  <2> QED
    BY <2>5
<1>3. Nat \subseteq S
  <2> HIDE DEF S
  <2> QED
    BY <1>1, <1>2, Counting
<1> QED
  BY <1>3

LEMMA RelaxedIs ==
  ASSUME NEW seq, Len(seq) \in Nat
  PROVE  IsRelaxed(Relaxed(seq), seq, Len(seq))
<1>1. \E g : IsRelaxed(g, seq, Len(seq))
  BY RelaxedExists
<1>2. Relaxed(seq) = CHOOSE g : IsRelaxed(g, seq, Len(seq))
  BY Zenon DEF IsRelaxed, Relaxed, FreshNodes
<1> QED
  BY <1>1, <1>2

\* After i rounds, the nodes that were reached have a way in, and the first i were
\* reached: a byte can always follow, and costs no more than 140.
IsReached(seq, nodes, i) ==
    /\ IsGraph(seq, nodes)
    /\ \A j \in 1 .. Len(seq) : nodes[j + 1].weight = Unreached \/ IsWay(seq, j, nodes[j + 1])
    /\ \A j \in 0 .. i : nodes[j + 1].weight <= 140 * j

\* The length of a text fits the two bytes it has in the header.
IsShort(seq) == Len(seq) \in Nat /\ Len(seq) < Shift(16)

\* No way weighs as much as an unreached node: a node reached has a way into it.
LEMMA ReachedHaveWays ==
  ASSUME NEW seq, IsShort(seq), NEW i \in 0 .. Len(seq), NEW nodes, IsReached(seq, nodes, i),
         NEW j \in 1 .. i
  PROVE  IsWay(seq, j, nodes[j + 1])
<1>1. nodes[j + 1].weight <= 140 * j /\ 140 * j < Unreached
  <2>1. Len(seq) \in Nat /\ Len(seq) < Shift(16) /\ Shift(16) = 65536
    BY DEF IsShort, Shift
  <2>2. 140 * j < Unreached
    BY <2>1 DEF Unreached
  <2>3. j \in 0 .. i
    OBVIOUS
  <2> QED
    BY <2>2, <2>3 DEF IsReached
<1>2. nodes[j + 1].weight # Unreached
  <2>1. nodes[j + 1].weight \in Int
    <3>1. Len(seq) \in Nat /\ j \in 0 .. Len(seq) /\ IsGraph(seq, nodes)
      <4>1. Len(seq) \in Nat
        BY DEF IsShort
      <4> QED
        BY <4>1 DEF IsReached
    <3> QED
      BY <3>1, NodeOf
  <2> QED
    BY <1>1, <2>1 DEF Unreached
<1> QED
  BY <1>2 DEF IsReached

\* The search starts at the first node,
LEMMA FreshIsReached ==
  ASSUME NEW seq, Len(seq) \in Nat
  PROVE  IsReached(seq, FreshNodes(seq), 0)
<1> DEFINE first == <<[FreshNode EXCEPT !.weight = 0]>>
           rest == [h \in 1 .. Len(seq) |-> FreshNode]
           nodes == first \o rest
<1>1. FreshNode \in Node /\ FreshNode.maxStart = 0 /\ FreshNode.weight = Unreached
  BY DEF FreshNode, Node, Unreached
<1>2. PICK origin : origin = [FreshNode EXCEPT !.weight = 0]
  OBVIOUS
<1>3. origin \in Node /\ origin.maxStart = 0 /\ origin.weight = 0
  BY <1>2 DEF FreshNode, Node, Unreached
<1>4. first \in Seq(Node) /\ Len(first) = 1 /\ first[1] = origin
  BY <1>2, <1>3
<1>5. rest \in Seq(Node) /\ Len(rest) = Len(seq) /\ \A h \in 1 .. Len(seq) : rest[h] = FreshNode
  BY <1>1
<1> HIDE DEF first, rest
<1>6. /\ nodes \in Seq(Node) /\ Len(nodes) = Len(first) + Len(rest)
      /\ \A k \in 1 .. Len(first) : nodes[k] = first[k]
      /\ \A k \in 1 .. Len(rest) : nodes[Len(first) + k] = rest[k]
  <2>1. first \in Seq(Node) /\ rest \in Seq(Node)
    BY <1>4, <1>5
  <2> QED
    BY <2>1, JoinedSequences
<1> HIDE DEF nodes
<1>7. Len(nodes) = Len(seq) + 1 /\ nodes[1] = origin
  BY <1>4, <1>5, <1>6
<1>8. ASSUME NEW j \in 1 .. Len(seq) PROVE nodes[j + 1] = FreshNode
  <2>1. Len(first) + j = j + 1 /\ j \in 1 .. Len(rest)
    BY <1>4, <1>5
  <2> QED
    BY <1>5, <1>6, <2>1
<1>9. ASSUME NEW j \in 0 .. Len(seq) PROVE nodes[j + 1].maxStart \in 0 .. j
  <2>1. CASE j = 0
    BY <1>3, <1>7, <2>1
  <2>2. CASE j # 0
    BY <1>1, <1>8, <2>2
  <2> QED
    BY <2>1, <2>2
<1>10. \A j \in 0 .. 0 : nodes[j + 1].weight <= 140 * j
  <2>1. \A j \in 0 .. 0 : j = 0
    OBVIOUS
  <2>2. nodes[0 + 1].weight <= 140 * 0
    BY <1>3, <1>7
  <2> QED
    BY <2>1, <2>2
<1>11. \A j \in 1 .. Len(seq) : nodes[j + 1].weight = Unreached \/ IsWay(seq, j, nodes[j + 1])
  BY <1>1, <1>8
<1>12. IsGraph(seq, nodes)
  BY <1>6, <1>7, <1>9 DEF IsGraph
<1>13. IsReached(seq, nodes, 0)
  BY <1>10, <1>11, <1>12 DEF IsReached
<1>14. FreshNodes(seq) = nodes
  BY DEF FreshNodes, nodes, first, rest
<1> QED
  BY <1>13, <1>14

\* each round reaches one node more,
LEMMA RoundReaches ==
  ASSUME NEW seq, IsShort(seq), NEW i \in 0 .. Len(seq) - 1, NEW r, IsRound(r), IsReached(seq, r.nodes, i)
  PROVE  IsRound(Relax(seq, i, r)) /\ IsReached(seq, Relax(seq, i, r).nodes, i + 1)
<1> DEFINE n == FoundAt(seq, i, r)
           w == r.nodes[i + 1].weight
           old == r.nodes
           new == Relax(seq, i, r).nodes
<1>0. i \in 0 .. Len(seq) /\ Len(seq) \in Nat
  BY DEF IsShort
<1>1. i # 0 => IsWay(seq, i, old[i + 1])
  <2>1. i # 0 => i \in 1 .. i
    OBVIOUS
  <2> QED
    BY <1>0, <2>1, ReachedHaveWays
<1>2. /\ IsRound(Relax(seq, i, r))
      /\ IsStep(seq, i, n, w, old, new)
      /\ new[i + 2].weight <= w + 140
  BY <1>0, <1>1, RelaxIsStep DEF IsReached
<1> HIDE DEF n, old, new
<1>3. IsGraph(seq, old) /\ IsGraph(seq, new)
  BY <1>2 DEF IsStep, IsReached, old
<1>4. \A j \in 0 .. Len(seq) : old[j + 1].weight \in Int /\ new[j + 1].weight \in Int
  BY <1>0, <1>3, NodeOf
<1>5. w \in Int /\ w = old[i + 1].weight /\ w <= 140 * i
  BY <1>0, <1>4 DEF IsReached, old
<1> HIDE DEF w
<1>6. ASSUME NEW j \in 1 .. Len(seq) PROVE new[j + 1].weight = Unreached \/ IsWay(seq, j, new[j + 1])
  <2>1. old[j + 1].weight = Unreached \/ IsWay(seq, j, old[j + 1])
    BY DEF IsReached, old
  <2>2. Same(old[j + 1], new[j + 1]) \/ IsWayFrom(seq, i, n, w, j, new[j + 1])
    <3>1. j \in 0 .. i \/ j \in i + 1 .. Len(seq)
      BY <1>0
    <3> QED
      BY <1>2, <3>1 DEF IsStep
  <2> QED
    BY <2>1, <2>2 DEF Same, IsWay, IsWayFrom
<1>7. ASSUME NEW j \in 0 .. i + 1 PROVE new[j + 1].weight <= 140 * j
  <2>1. CASE j \in 0 .. i
    <3>1. old[j + 1].weight <= 140 * j
      BY <2>1 DEF IsReached, old
    <3>2. Same(old[j + 1], new[j + 1])
      BY <1>2, <2>1 DEF IsStep
    <3> QED
      BY <3>1, <3>2 DEF Same
  <2>2. CASE j = i + 1
    <3>1. new[j + 1].weight <= w + 140
      <4>1. j + 1 = i + 2
        BY <2>2
      <4> QED
        BY <1>2, <4>1
    <3>2. new[j + 1].weight \in Int
      BY <1>4, <2>2
    <3> QED
      BY <1>5, <2>2, <3>1, <3>2
  <2> QED
    BY <2>1, <2>2
<1>8. IsReached(seq, new, i + 1)
  BY <1>3, <1>6, <1>7 DEF IsReached
<1> QED
  BY <1>2, <1>8 DEF new

\* and in the end all of them.
LEMMA RoundsReach ==
  ASSUME NEW seq, IsShort(seq), NEW i \in 0 .. Len(seq)
  PROVE  IsRound(Relaxed(seq)[i]) /\ IsReached(seq, Relaxed(seq)[i].nodes, i)
<1> DEFINE R == Relaxed(seq)
           origin == [nodes |-> FreshNodes(seq), mtf |-> FreshMtf]
           Good == {k \in Nat : k <= Len(seq) => IsRound(R[k]) /\ IsReached(seq, R[k].nodes, k)}
<1>0. Len(seq) \in Nat
  BY DEF IsShort
<1>1. \A k \in 0 .. Len(seq) : R[k] = IF k = 0 THEN origin ELSE Relax(seq, k - 1, R[k - 1])
  <2>1. IsRelaxed(R, seq, Len(seq))
    BY <1>0, RelaxedIs
  <2> HIDE DEF R
  <2> QED
    BY <2>1 DEF IsRelaxed
<1>2. IsRound(origin) /\ IsReached(seq, origin.nodes, 0)
  BY <1>0, FreshIsReached DEF IsRound
<1> HIDE DEF R, origin
<1>3. 0 \in Good
  <2>1. R[0] = origin
    BY <1>0, <1>1
  <2> QED
    BY <1>2, <2>1
<1>4. ASSUME NEW k \in Nat, k \in Good PROVE k + 1 \in Good
  <2> SUFFICES ASSUME k + 1 <= Len(seq) PROVE IsRound(R[k + 1]) /\ IsReached(seq, R[k + 1].nodes, k + 1)
    OBVIOUS
  <2>1. R[k + 1] = Relax(seq, k, R[k])
    <3>1. k + 1 \in 0 .. Len(seq) /\ k + 1 # 0 /\ (k + 1) - 1 = k
      BY <1>0
    <3> QED
      BY <1>1, <3>1
  <2>2. k \in 0 .. Len(seq) - 1 /\ IsRound(R[k]) /\ IsReached(seq, R[k].nodes, k)
    BY <1>0, <1>4
  <2> QED
    BY <2>1, <2>2, RoundReaches
<1>5. Nat \subseteq Good
  <2> HIDE DEF Good
  <2> QED
    BY <1>3, <1>4, Counting
<1>6. i \in Nat /\ i <= Len(seq)
  OBVIOUS
<1> QED
  BY <1>5, <1>6 DEF R

-----------------------------------------------------------------------------
(* What is written on the best way is read back.                           *)

\* The bytes of a text are those but 0.
LEMMA CharIs == ASSUME NEW b \in Char PROVE b \in Octet /\ b # 0 /\ b \in Nat
  BY DEF Char, Octet

\* The length of what is written for a byte, a block, and a reference.
LEMMA ByteBitsAre ==
  ASSUME NEW n \in 0 .. 255
  PROVE  ByteBits(n) \in Seq(Bit) /\ Len(ByteBits(n)) = 2 * CompressBits(n) - 2
            /\ CompressBits(n) \in 4 .. 8
<1>1. PICK w \in {4, 5, 6, 7, 8} : w = CompressBits(n) /\ n - Shift(w) + 16 \in Nat
  BY WidthOfByte
<1>2. w - 2 \in 0 .. 25 /\ w \in 0 .. 25 /\ w \in 4 .. 8
  OBVIOUS
<1>3. PICK u \in Int, v \in Int : u = Shift(w - 3) - 1 /\ v = n - Shift(w) + 16
  BY <1>1, Unary
<1>4. PICK a, b : a = PutBits(w - 2, u) /\ b = PutBits(w, v)
  OBVIOUS
<1>5. a \in Seq(Bit) /\ Len(a) = w - 2 /\ b \in Seq(Bit) /\ Len(b) = w
  BY <1>2, <1>3, <1>4, PutBitsAreBits
<1>6. a \o b \in Seq(Bit) /\ Len(a \o b) = Len(a) + Len(b)
  BY <1>5, Joined
<1>7. ByteBits(n) = a \o b
  BY <1>1, <1>3, <1>4 DEF ByteBits
<1>8. (w - 2) + w = 2 * w - 2
  BY <1>2
<1> QED
  BY <1>1, <1>2, <1>5, <1>6, <1>7, <1>8

LEMMA BlockBitsAre ==
  ASSUME NEW block \in Seq(Char)
  PROVE  BlockBits(block) \in Seq(Bit) /\ Len(BlockBits(block)) >= 21
<1>0. block \in Seq(0 .. 255)
  BY DEF Char
<1>1. PICK a, b, c : a = PutBits(13, 2) /\ b = Fields(8, block) /\ c = PutBits(8, 0)
  OBVIOUS
<1>2. a \in Seq(Bit) /\ Len(a) = 13 /\ c \in Seq(Bit) /\ Len(c) = 8 /\ b \in Seq(Bit)
  BY <1>0, <1>1, PutBitsAreBits, FieldsAreBits
<1>3. a \o b \in Seq(Bit) /\ Len(a \o b) = Len(a) + Len(b) /\ Len(b) \in Nat
  <2>1. a \o b \in Seq(Bit) /\ Len(a \o b) = Len(a) + Len(b)
    BY <1>2, Joined
  <2>2. Len(b) \in Nat
    BY <1>2
  <2> QED
    BY <2>1, <2>2
<1>4. (a \o b) \o c \in Seq(Bit) /\ Len((a \o b) \o c) = Len(a \o b) + Len(c)
  BY <1>2, <1>3, Joined
<1>5. BlockBits(block) = (a \o b) \o c
  BY <1>1 DEF BlockBits
<1> QED
  BY <1>2, <1>3, <1>4, <1>5

LEMMA ReferenceBitsAre ==
  ASSUME NEW off \in Nat, off < Shift(15), NEW len \in Nat
  PROVE  /\ OffsetBits(off) \o LengthBits(len) \in Seq(Bit)
         /\ Len(OffsetBits(off) \o LengthBits(len)) = Len(OffsetBits(off)) + 3 * (len \div 7 + 1)
         /\ Len(OffsetBits(off)) \in {8, 13, 17}
<1>1. PICK a, b : a = OffsetBits(off) /\ b = LengthBits(len)
  OBVIOUS
<1>2. a \in Seq(Bit) /\ Len(a) \in {8, 13, 17}
  BY <1>1, OffsetsAreBits
<1>3. b \in Seq(Bit) /\ Len(b) = 3 * (len \div 7 + 1)
  BY <1>1, LengthIsRead
<1>4. a \o b \in Seq(Bit) /\ Len(a \o b) = Len(a) + Len(b)
  BY <1>2, <1>3, Joined
<1> QED
  BY <1>1, <1>2, <1>3, <1>4

\* The three ways into a node, and what is written for each.
IsByteWay(seq, i, t, list, piece) ==
    /\ t.length = 1 /\ seq[i] \in Char /\ Find(list, seq[i]) \in 0 .. 255
    /\ piece = ByteBits(Find(list, seq[i]))
IsBlockWay(seq, i, t, piece) ==
    /\ t.length > 1 /\ t.length # 1 /\ t.offset = -1
    /\ SubSeq(seq, t.prev + 1, i) \in Seq(Char)
    /\ piece = BlockBits(SubSeq(seq, t.prev + 1, i))
IsCopyWay(seq, i, t, piece) ==
    /\ t.length > 1 /\ t.length # 1 /\ t.offset # -1 /\ IsCopy(seq, t.prev, t.offset, t.length)
    /\ t.offset - 1 \in Nat /\ t.offset - 1 < Shift(15) /\ t.length - 3 \in Nat
    /\ piece = OffsetBits(t.offset - 1) \o LengthBits(t.length - 3)

\* A way into a node is a byte, a stored block or a reference.
LEMMA WaysIn ==
  ASSUME NEW seq \in Seq(Char), NEW nodes, NEW i \in 1 .. Len(seq), IsWay(seq, i, nodes[i + 1]),
         NEW list, IsList(list)
  PROVE  /\ nodes[i + 1].prev \in 0 .. i - 1 /\ nodes[i + 1].prev \in 0 .. Len(seq)
         /\ nodes[i + 1].length \in Nat /\ nodes[i + 1].prev + nodes[i + 1].length = i
         /\ \/ IsByteWay(seq, i, nodes[i + 1], list, Piece(seq, nodes, i, list))
            \/ IsBlockWay(seq, i, nodes[i + 1], Piece(seq, nodes, i, list))
            \/ IsCopyWay(seq, i, nodes[i + 1], Piece(seq, nodes, i, list))
<1> DEFINE t == nodes[i + 1]
           m == t.prev
           len == t.length
<1>1. /\ m \in 0 .. Len(seq) /\ len \in 1 .. Len(seq) - m /\ m + len = i
      /\ len = 1 \/ t.offset = -1 \/ IsCopy(seq, m, t.offset, len)
  BY DEF IsWay, CanGo
<1>2. Piece(seq, nodes, i, list) =
        IF len = 1 THEN ByteBits(Find(list, seq[m + 1]))
        ELSE IF t.offset = -1 THEN BlockBits(SubSeq(seq, m + 1, m + len))
        ELSE OffsetBits(t.offset - 1) \o LengthBits(len - 3)
  BY DEF Piece
<1> HIDE DEF t
<1>3. m \in 0 .. i - 1
  BY <1>1
<1>4. CASE len = 1
  <2>1. m + 1 = i
    BY <1>1, <1>4
  <2>2. seq[i] \in Char
    OBVIOUS
  <2>3. Find(list, seq[i]) \in 0 .. 255
    BY <2>2, CharIs, FoundMovesToFront
  <2> QED
    BY <1>1, <1>2, <1>3, <1>4, <2>1, <2>2, <2>3 DEF t, IsByteWay
<1>5. CASE len # 1 /\ t.offset = -1
  <2>1. len > 1
    BY <1>1, <1>5
  <2>2. SubSeq(seq, m + 1, i) \in Seq(Char)
    BY <1>1
  <2> QED
    BY <1>1, <1>2, <1>3, <1>5, <2>1, <2>2 DEF t, IsBlockWay
<1>6. CASE len # 1 /\ t.offset # -1
  <2>1. len > 1 /\ IsCopy(seq, m, t.offset, len)
    BY <1>1, <1>6
  <2>2. t.offset \in 1 .. m /\ t.offset <= Shift(15) /\ len >= 3
    BY <2>1 DEF IsCopy
  <2>3. t.offset - 1 \in Nat /\ t.offset - 1 < Shift(15) /\ len - 3 \in Nat
    BY <1>1, <2>2, SMTT(30) DEF Shift
  <2>4. Piece(seq, nodes, i, list) = OffsetBits(t.offset - 1) \o LengthBits(t.length - 3)
    BY <1>2, <1>6
  <2>5. t.length > 1 /\ t.length # 1 /\ IsCopy(seq, t.prev, t.offset, t.length) /\ t.length - 3 \in Nat
    BY <1>6, <2>1, <2>3
  <2>6. IsCopyWay(seq, i, t, Piece(seq, nodes, i, list))
    BY <1>6, <2>3, <2>4, <2>5, Zenon DEF IsCopyWay
  <2>7. t.length \in Nat /\ t.prev + t.length = i
    BY <1>1
  <2> QED
    BY <1>1, <1>3, <2>6, <2>7, Zenon DEF t
<1> QED
  BY <1>4, <1>5, <1>6

\* What is written for a way is bits, six of them at least.
LEMMA PieceIsBits ==
  ASSUME NEW seq \in Seq(Char), NEW nodes, NEW i \in 1 .. Len(seq), IsWay(seq, i, nodes[i + 1]),
         NEW list, IsList(list)
  PROVE  Piece(seq, nodes, i, list) \in Seq(Bit) /\ Len(Piece(seq, nodes, i, list)) >= 6
<1> DEFINE t == nodes[i + 1]
           piece == Piece(seq, nodes, i, list)
<1>1. IsByteWay(seq, i, t, list, piece) \/ IsBlockWay(seq, i, t, piece) \/ IsCopyWay(seq, i, t, piece)
  BY WaysIn, Zenon
<1> HIDE DEF t, piece
<1>2. \A n \in 0 .. 255 : ByteBits(n) \in Seq(Bit) /\ Len(ByteBits(n)) >= 6
  <2> TAKE n \in 0 .. 255
  <2>1. PICK w \in 4 .. 8 : ByteBits(n) \in Seq(Bit) /\ Len(ByteBits(n)) = 2 * w - 2
    BY ByteBitsAre, Zenon
  <2> QED
    BY <2>1
<1>3. \A block \in Seq(Char) : BlockBits(block) \in Seq(Bit) /\ Len(BlockBits(block)) >= 6
  <2> TAKE block \in Seq(Char)
  <2>1. BlockBits(block) \in Seq(Bit) /\ Len(BlockBits(block)) >= 21
    BY BlockBitsAre
  <2> QED
    BY <2>1
<1>4. ASSUME NEW off \in Nat, off < Shift(15), NEW len \in Nat
      PROVE  OffsetBits(off) \o LengthBits(len) \in Seq(Bit) /\ Len(OffsetBits(off) \o LengthBits(len)) >= 6
  <2>1. len \div 7 \in Nat
    OBVIOUS
  <2>2. /\ OffsetBits(off) \o LengthBits(len) \in Seq(Bit)
        /\ Len(OffsetBits(off) \o LengthBits(len)) = Len(OffsetBits(off)) + 3 * (len \div 7 + 1)
        /\ Len(OffsetBits(off)) \in {8, 13, 17}
    BY <1>4, ReferenceBitsAre, Zenon
  <2>3. PICK o \in {8, 13, 17}, h \in Nat : o = Len(OffsetBits(off)) /\ h = len \div 7
    BY <2>1, <2>2
  <2>4. Len(OffsetBits(off) \o LengthBits(len)) = o + 3 * (h + 1)
    BY <2>2, <2>3
  <2>5. o + 3 * (h + 1) >= 6
    OBVIOUS
  <2> QED
    BY <2>2, <2>4, <2>5
<1>5. piece \in Seq(Bit) /\ Len(piece) >= 6
  <2>1. CASE IsByteWay(seq, i, t, list, piece)
    BY <1>2, <2>1 DEF IsByteWay
  <2>2. CASE IsBlockWay(seq, i, t, piece)
    BY <1>3, <2>2 DEF IsBlockWay
  <2>3. CASE IsCopyWay(seq, i, t, piece)
    BY <1>4, <2>3 DEF IsCopyWay
  <2> QED
    BY <1>1, <2>1, <2>2, <2>3
<1> QED
  BY <1>5 DEF piece

\* A text in two parts.
LEMMA SplitAt ==
  ASSUME NEW S, NEW seq \in Seq(S), NEW i \in 0 .. Len(seq), NEW m \in 0 .. i
  PROVE  SubSeq(seq, 1, m) \o SubSeq(seq, m + 1, i) = SubSeq(seq, 1, i)
<1> DEFINE a == SubSeq(seq, 1, m)
           b == SubSeq(seq, m + 1, i)
           c == SubSeq(seq, 1, i)
<1>1. a \in Seq(S) /\ Len(a) = m /\ \A k \in 1 .. m : a[k] = seq[k]
  BY Firsts
<1>2. c \in Seq(S) /\ Len(c) = i /\ \A k \in 1 .. i : c[k] = seq[k]
  BY Firsts
<1>3. b \in Seq(S) /\ Len(b) = i - m /\ \A k \in 1 .. i - m : b[k] = seq[m + k]
  OBVIOUS
<1> HIDE DEF a, b, c
<1>4. /\ a \o b \in Seq(S) /\ Len(a \o b) = Len(a) + Len(b)
      /\ \A k \in 1 .. Len(a) : (a \o b)[k] = a[k]
      /\ \A k \in 1 .. Len(b) : (a \o b)[Len(a) + k] = b[k]
  <2>1. a \in Seq(S) /\ b \in Seq(S)
    BY <1>1, <1>3
  <2> QED
    BY <2>1, JoinedSequences
<1> DEFINE d == a \o b
<1> HIDE DEF d
<1>5. d \in Seq(S) /\ Len(d) = i
  BY <1>1, <1>3, <1>4 DEF d
<1>6. ASSUME NEW k \in 1 .. i PROVE d[k] = c[k]
  <2>1. CASE k <= m
    <3>1. k \in 1 .. Len(a) /\ k \in 1 .. m
      BY <1>1, <2>1
    <3> QED
      BY <1>1, <1>2, <1>4, <3>1 DEF d
  <2>2. CASE k > m
    <3>1. PICK h \in 1 .. i - m : k = m + h
      <4>1. k - m \in 1 .. i - m /\ k = m + (k - m)
        BY <2>2
      <4> QED
        BY <4>1
    <3>2. d[k] = b[h]
      BY <1>1, <1>3, <1>4, <3>1 DEF d
    <3> QED
      BY <1>2, <1>3, <3>1, <3>2
  <2> QED
    BY <2>1, <2>2
<1>7. d = c
  BY <1>2, <1>5, <1>6
<1> QED
  BY <1>7 DEF a, b, c, d

\* A round of the reading.
ReadNext(bits, s) == IF GetBits(bits, s.pos, 1) = 1 THEN ReadByte(bits, s) ELSE ReadBack(bits, s)

NextList(seq, nodes, i, list) ==
    IF nodes[i + 1].length = 1 THEN Rotate(list, Find(list, seq[i])) ELSE list

\* What is written for a way is read as the text from the node it starts at to the one it
\* ends at, and moves the list the same way.
LEMMA PieceIsRead ==
  ASSUME NEW seq \in Seq(Char), NEW nodes, NEW i \in 1 .. Len(seq), IsWay(seq, i, nodes[i + 1]),
         NEW list, IsList(list),
         NEW bits \in Seq(Bit), NEW p \in Nat \ {0}, Stands(bits, p, Piece(seq, nodes, i, list))
  PROVE  ReadNext(bits, Reading(p, list, SubSeq(seq, 1, nodes[i + 1].prev))) =
            Reading(p + Len(Piece(seq, nodes, i, list)), NextList(seq, nodes, i, list), SubSeq(seq, 1, i))
<1> DEFINE t == nodes[i + 1]
           piece == Piece(seq, nodes, i, list)
<1>1. /\ t.prev \in 0 .. i - 1 /\ t.prev \in 0 .. Len(seq) /\ t.length \in Nat /\ t.prev + t.length = i
      /\ IsByteWay(seq, i, t, list, piece) \/ IsBlockWay(seq, i, t, piece) \/ IsCopyWay(seq, i, t, piece)
  BY WaysIn, Zenon
<1>2. NextList(seq, nodes, i, list) = IF t.length = 1 THEN Rotate(list, Find(list, seq[i])) ELSE list
  BY DEF NextList
<1>3. Stands(bits, p, piece)
  OBVIOUS
<1> HIDE DEF t, piece
<1>4. PICK m \in 0 .. Len(seq) : m = t.prev /\ m \in 0 .. i - 1 /\ m + t.length = i
  BY <1>1
<1>5. PICK before : before = SubSeq(seq, 1, m)
  OBVIOUS
<1> DEFINE s == Reading(p, list, before)
<1>0. s.pos = p
  BY DEF Reading
<1> DEFINE next == Reading(p + Len(piece), NextList(seq, nodes, i, list), SubSeq(seq, 1, i))
<1> HIDE DEF s
<1>6. ASSUME IsByteWay(seq, i, t, list, piece) PROVE ReadNext(bits, s) = next
  <2>0. t.length = 1 /\ seq[i] \in Char /\ Find(list, seq[i]) \in 0 .. 255
           /\ piece = ByteBits(Find(list, seq[i]))
    BY <1>6 DEF IsByteWay
  <2>1. PICK n \in 0 .. 255 : n = Find(list, seq[i])
    BY <2>0
  <2>2. Rotate(list, n)[1] = seq[i] /\ seq[i] # 0
    BY <2>0, <2>1, CharIs, FoundMovesToFront
  <2>3. Stands(bits, p, ByteBits(n)) /\ Rotate(list, n)[1] # 0
    BY <1>3, <2>0, <2>1, <2>2
  <2>4. /\ GetBits(bits, p, 1) = 1
        /\ ReadByte(bits, Reading(p, list, before)) =
              Reading(p + Len(ByteBits(n)), Rotate(list, n), Append(before, Rotate(list, n)[1]))
    <3>1. IsReadAsByte(bits, p, list, before, n)
      BY <2>3, ByteIsRead, Zenon
    <3> QED
      BY <3>1, Zenon DEF IsReadAsByte
  <2>5. Append(before, seq[i]) = SubSeq(seq, 1, i)
    <3>1. m + 1 = i /\ m < Len(seq)
      BY <1>4, <2>0
    <3>2. Append(before, seq[m + 1]) = SubSeq(seq, 1, m + 1)
      BY <1>5, <3>1, Firsts
    <3> QED
      BY <3>1, <3>2
  <2>6. ReadNext(bits, s) = ReadByte(bits, Reading(p, list, before))
    <3>1. GetBits(bits, s.pos, 1) = 1
      BY <1>0, <2>4
    <3> QED
      BY <3>1 DEF ReadNext, s
  <2> QED
    BY <1>2, <2>0, <2>1, <2>2, <2>4, <2>5, <2>6
<1>7. ASSUME IsBlockWay(seq, i, t, piece) PROVE ReadNext(bits, s) = next
  <2>0. t.length # 1 /\ SubSeq(seq, m + 1, i) \in Seq(Char) /\ piece = BlockBits(SubSeq(seq, m + 1, i))
    BY <1>4, <1>7 DEF IsBlockWay
  <2>1. PICK block \in Seq(1 .. 255) : block = SubSeq(seq, m + 1, i)
    BY <2>0 DEF Char
  <2>2. Stands(bits, p, BlockBits(block))
    BY <1>3, <2>0, <2>1
  <2>3. /\ GetBits(bits, p, 1) = 0
        /\ ReadBack(bits, Reading(p, list, before)) = Reading(p + Len(BlockBits(block)), list, before \o block)
    BY <2>2, BlockIsRead
  <2>4. before \o block = SubSeq(seq, 1, i)
    <3>1. i \in 0 .. Len(seq) /\ m \in 0 .. i
      BY <1>4
    <3> QED
      BY <1>5, <2>1, <3>1, SplitAt
  <2>5. ReadNext(bits, s) = ReadBack(bits, Reading(p, list, before))
    <3>1. GetBits(bits, s.pos, 1) # 1
      BY <1>0, <2>3
    <3> QED
      BY <3>1 DEF ReadNext, s
  <2> QED
    BY <1>2, <2>0, <2>1, <2>3, <2>4, <2>5
<1>8. ASSUME IsCopyWay(seq, i, t, piece) PROVE ReadNext(bits, s) = next
  <2>0. /\ t.length # 1 /\ IsCopy(seq, m, t.offset, t.length)
        /\ t.offset - 1 \in Nat /\ t.offset - 1 < Shift(15) /\ t.length - 3 \in Nat
        /\ piece = OffsetBits(t.offset - 1) \o LengthBits(t.length - 3)
    BY <1>4, <1>8 DEF IsCopyWay
  <2>1. PICK off \in Nat : off = t.offset - 1 /\ off < Shift(15)
    BY <2>0
  <2>2. PICK len \in Nat : len = t.length - 3
    BY <2>0
  <2>3. t.offset \in 1 .. m /\ \A h \in 1 .. t.length : seq[m + h] = seq[(m - t.offset) + h]
    BY <2>0 DEF IsCopy
  <2>4. Len(before) \in Nat /\ Len(before) = m
    BY <1>5, Firsts
  <2>5. off + 1 = t.offset /\ len + 3 = t.length
    <3>1. t.length \in Nat /\ t.offset \in Nat
      BY <1>1, <2>3
    <3>2. PICK x \in Nat, y \in Nat : x = t.length /\ y = t.offset
      BY <3>1
    <3>3. off = y - 1 /\ len = x - 3
      BY <2>1, <2>2, <3>2
    <3>4. off + 1 = y /\ len + 3 = x
      BY <3>3
    <3> QED
      BY <3>2, <3>4
  <2>12. off + 1 <= Len(before)
    BY <2>3, <2>4, <2>5
  <2>6. Stands(bits, p, OffsetBits(off) \o LengthBits(len))
    BY <1>3, <2>0, <2>1, <2>2
  <2>7. /\ GetBits(bits, p, 1) = 0
        /\ ReadBack(bits, Reading(p, list, before)) =
              Reading(p + Len(OffsetBits(off) \o LengthBits(len)), list, CopyBack(before, off + 1, len + 3))
    <3>1. IsReadAsCopy(bits, p, list, before, off, len)
      BY <2>1, <2>4, <2>6, <2>12, ReferenceIsRead, Zenon
    <3> QED
      BY <3>1, Zenon DEF IsReadAsCopy
  <2>8. CopyBack(before, t.offset, t.length) = SubSeq(seq, 1, i)
    <3>1. PICK f \in 1 .. m, n \in Nat : f = t.offset /\ n = t.length /\ m + n = i /\ m + n <= Len(seq)
      BY <1>1, <1>4, <2>3
    <3>2. \A h \in 1 .. n : seq[m + h] = seq[(m - f) + h]
      BY <2>3, <3>1
    <3>3. CopyBack(SubSeq(seq, 1, m), f, n) = SubSeq(seq, 1, m + n)
      BY <3>1, <3>2, CopyIsRead
    <3> QED
      BY <1>5, <3>1, <3>3
  <2>9. ReadNext(bits, s) = ReadBack(bits, Reading(p, list, before))
    <3>1. GetBits(bits, s.pos, 1) # 1
      BY <1>0, <2>7
    <3> QED
      BY <3>1 DEF ReadNext, s
  <2> QED
    BY <1>2, <2>0, <2>1, <2>2, <2>5, <2>7, <2>8, <2>9
<1>9. ReadNext(bits, s) = next
  BY <1>1, <1>6, <1>7, <1>8
<1> QED
  BY <1>4, <1>5, <1>9 DEF s, t, piece

State == [bits : Seq(Bit), list : Seq(Octet)]
Unwritten == [bits |-> << >>, list |-> FreshMtf.list]

LEMMA UnwrittenIs == Unwritten \in State /\ IsList(Unwritten.list) /\ Unwritten.bits = << >>
<1>1. FreshMtf.list \in Seq(Octet) /\ IsList(FreshMtf.list)
  BY FreshIsList DEF IsList
<1>2. << >> \in Seq(Bit)
  OBVIOUS
<1> QED
  BY <1>1, <1>2 DEF Unwritten, State

\* What is written and the list at a node, from those at the one before on its way.
LEMMA OnwardIs ==
  ASSUME NEW seq \in Seq(Char), NEW nodes, NEW i \in 1 .. Len(seq), IsWay(seq, i, nodes[i + 1]),
         NEW from \in State, IsList(from.list)
  PROVE  /\ Onward(seq, nodes, i, from) \in State /\ IsList(Onward(seq, nodes, i, from).list)
         /\ Onward(seq, nodes, i, from).list = NextList(seq, nodes, i, from.list)
         /\ Onward(seq, nodes, i, from).bits = from.bits \o Piece(seq, nodes, i, from.list)
<1> DEFINE t == nodes[i + 1]
           next == IF t.length = 1 THEN Rotate(from.list, Find(from.list, seq[t.prev + 1])) ELSE from.list
           piece == Piece(seq, nodes, i, from.list)
<1>1. Onward(seq, nodes, i, from) = [bits |-> from.bits \o piece, list |-> next]
  BY DEF Onward
<1>2. t.prev + t.length = i /\ t.prev \in Nat
  <2>1. t.prev \in 0 .. i - 1 /\ t.prev + t.length = i
    BY WaysIn
  <2> QED
    BY <2>1
<1>3. piece \in Seq(Bit)
  BY PieceIsBits
<1> HIDE DEF t, piece
<1>4. next = NextList(seq, nodes, i, from.list)
  <2>1. CASE t.length = 1
    <3>1. t.prev + 1 = i
      BY <1>2, <2>1
    <3> QED
      BY <2>1, <3>1 DEF NextList, t
  <2>2. CASE t.length # 1
    BY <2>2 DEF NextList, t
  <2> QED
    BY <2>1, <2>2
<1>5. IsList(next)
  <2>1. seq[i] \in Octet
    <3>1. seq[i] \in Char
      OBVIOUS
    <3> QED
      BY <3>1, CharIs
  <2>2. IsList(Rotate(from.list, Find(from.list, seq[i])))
    BY <2>1, FoundMovesToFront
  <2> QED
    BY <1>4, <2>2 DEF NextList
<1> HIDE DEF next
<1>6. from.bits \in Seq(Bit) /\ next \in Seq(Octet)
  BY <1>5 DEF State, IsList
<1>7. from.bits \o piece \in Seq(Bit)
  BY <1>3, <1>6, Joined
<1> QED
  BY <1>1, <1>4, <1>5, <1>6, <1>7 DEF piece, State

\* What is written for the first nodes.
IsWritten(g, seq, nodes, n) ==
    g = [k \in 0 .. n |-> IF k = 0 THEN <<Unwritten>>
           ELSE Append(g[k - 1], Onward(seq, nodes, k, g[k - 1][nodes[k + 1].prev + 1]))]

LEMMA WrittenExists == ASSUME NEW seq, NEW nodes, NEW n \in Nat PROVE \E g : IsWritten(g, seq, nodes, n)
<1> DEFINE S == {m \in Nat : \E g : IsWritten(g, seq, nodes, m)}
<1>1. 0 \in S
  <2> DEFINE g == [k \in 0 .. 0 |-> <<Unwritten>>]
  <2>1. \A k \in 0 .. 0 : k = 0
    OBVIOUS
  <2>2. g = [k \in 0 .. 0 |-> IF k = 0 THEN <<Unwritten>>
           ELSE Append(g[k - 1], Onward(seq, nodes, k, g[k - 1][nodes[k + 1].prev + 1]))]
    BY <2>1
  <2> QED
    BY <2>2 DEF IsWritten
<1>2. ASSUME NEW m \in Nat, m \in S PROVE m + 1 \in S
  <2>1. PICK g : IsWritten(g, seq, nodes, m)
    BY <1>2
  <2> DEFINE h == [k \in 0 .. m + 1 |-> IF k = m + 1 THEN Append(g[m], Onward(seq, nodes, m + 1, g[m][nodes[(m + 1) + 1].prev + 1])) ELSE g[k]]
  <2>2. \A k \in 0 .. m : g[k] = IF k = 0 THEN <<Unwritten>>
           ELSE Append(g[k - 1], Onward(seq, nodes, k, g[k - 1][nodes[k + 1].prev + 1]))
    BY <2>1 DEF IsWritten
  <2>3. \A k \in 0 .. m + 1 : h[k] = IF k = 0 THEN <<Unwritten>>
           ELSE Append(h[k - 1], Onward(seq, nodes, k, h[k - 1][nodes[k + 1].prev + 1]))
    <3> TAKE k \in 0 .. m + 1
    <3>1. CASE k = m + 1
      <4>1. k - 1 = m /\ k # 0 /\ h[m] = g[m]
        BY <3>1
      <4> QED
        BY <3>1, <4>1
    <3>2. CASE k # m + 1
      <4>1. k \in 0 .. m /\ h[k] = g[k] /\ (k # 0 => h[k - 1] = g[k - 1])
        BY <3>2
      <4> QED
        BY <2>2, <4>1
    <3> QED
      BY <3>1, <3>2
  <2>4. h = [k \in 0 .. m + 1 |-> h[k]]
    OBVIOUS
  <2> HIDE DEF h
  <2>5. IsWritten(h, seq, nodes, m + 1)
    BY <2>3, <2>4 DEF IsWritten
  <2> QED
    BY <2>5
<1>3. Nat \subseteq S
  <2> HIDE DEF S
  <2> QED
    BY <1>1, <1>2, Counting
<1> QED
  BY <1>3

LEMMA WrittenIs ==
  ASSUME NEW seq, NEW nodes, NEW n \in Nat, Len(nodes) = n + 1
  PROVE  \E g : IsWritten(g, seq, nodes, n) /\ Written(seq, nodes) = g[n]
<1>1. \E g : IsWritten(g, seq, nodes, n)
  BY WrittenExists
<1> DEFINE written == CHOOSE g : g = [k \in 0 .. n |->
                          IF k = 0 THEN <<[bits |-> << >>, list |-> FreshMtf.list]>>
                          ELSE Append(g[k - 1], Onward(seq, nodes, k, g[k - 1][nodes[k + 1].prev + 1]))]
<1>2. Written(seq, nodes) = written[n]
  <2>1. Len(nodes) - 1 = n
    OBVIOUS
  <2> QED
    BY <2>1 DEF Written
<1>3. written = CHOOSE g : IsWritten(g, seq, nodes, n)
  BY Zenon DEF IsWritten, Unwritten
<1> HIDE DEF written
<1> QED
  BY <1>1, <1>2, <1>3

\* The first nodes of a table of what is written.
IsTable(seq, nodes, table, n) ==
    /\ table \in Seq(State) /\ Len(table) = n + 1 /\ table[1] = Unwritten
    /\ \A j \in 0 .. n : IsList(table[j + 1].list)
    /\ \A j \in 1 .. n : table[j + 1] = Onward(seq, nodes, j, table[nodes[j + 1].prev + 1])

\* The table of what is written has one node more each round.
LEMMA TableGrows ==
  ASSUME NEW seq \in Seq(Char), NEW nodes, NEW n \in Nat, n + 1 <= Len(seq),
         \A j \in 1 .. Len(seq) : IsWay(seq, j, nodes[j + 1]), NEW table, IsTable(seq, nodes, table, n)
  PROVE  IsTable(seq, nodes, Append(table, Onward(seq, nodes, n + 1, table[nodes[(n + 1) + 1].prev + 1])), n + 1)
<1>1. PICK i \in 1 .. Len(seq) : i = n + 1
  OBVIOUS
<1>2. PICK e : e = Onward(seq, nodes, i, table[nodes[i + 1].prev + 1])
  OBVIOUS
<1>3. /\ table \in Seq(State) /\ Len(table) = n + 1 /\ table[1] = Unwritten
      /\ \A j \in 0 .. n : IsList(table[j + 1].list)
      /\ \A j \in 1 .. n : table[j + 1] = Onward(seq, nodes, j, table[nodes[j + 1].prev + 1])
  BY DEF IsTable
<1>4. \A j \in 1 .. n + 1 : nodes[j + 1].prev \in 0 .. j - 1
  <2> TAKE j \in 1 .. n + 1
  <2>1. IsWay(seq, j, nodes[j + 1]) /\ j \in 1 .. Len(seq)
    OBVIOUS
  <2> QED
    BY <2>1 DEF IsWay, CanGo
<1>5. e \in State /\ IsList(e.list)
  <2>0. nodes[i + 1].prev \in 0 .. i - 1
    <3>1. i \in 1 .. n + 1
      BY <1>1
    <3> QED
      BY <1>4, <3>1
  <2>1. PICK m \in 0 .. n : m = nodes[i + 1].prev
    <3>1. i - 1 = n
      BY <1>1
    <3> QED
      BY <2>0, <3>1
  <2>2. table[m + 1] \in State /\ IsList(table[m + 1].list)
    BY <1>3, <2>1, SMTT(30)
  <2>3. IsWay(seq, i, nodes[i + 1])
    BY <1>1
  <2>4. Onward(seq, nodes, i, table[m + 1]) \in State /\ IsList(Onward(seq, nodes, i, table[m + 1]).list)
    BY <2>2, <2>3, OnwardIs
  <2> QED
    BY <1>2, <2>1, <2>4
<1> DEFINE new == Append(table, e)
<1>6. /\ new \in Seq(State) /\ Len(new) = n + 2 /\ new[n + 2] = e
      /\ \A k \in 1 .. n + 1 : new[k] = table[k]
  BY <1>3, <1>5
<1> HIDE DEF new
<1>7. \A j \in 0 .. n : new[j + 1] = table[j + 1]
  BY <1>6
<1>8. ASSUME NEW j \in 0 .. n + 1 PROVE IsList(new[j + 1].list)
  <2>1. CASE j = n + 1
    <3>1. j + 1 = n + 2
      BY <2>1
    <3> QED
      BY <1>5, <1>6, <3>1
  <2>2. CASE j # n + 1
    <3>1. j \in 0 .. n
      BY <2>2
    <3> QED
      BY <1>3, <1>7, <3>1
  <2> QED
    BY <2>1, <2>2
<1>9. ASSUME NEW j \in 1 .. n + 1 PROVE new[j + 1] = Onward(seq, nodes, j, new[nodes[j + 1].prev + 1])
  <2>1. PICK m \in 0 .. n : m = nodes[j + 1].prev
    BY <1>4
  <2>2. new[m + 1] = table[m + 1]
    BY <1>7
  <2>3. CASE j = n + 1
    <3>1. j + 1 = n + 2 /\ j = i
      BY <1>1, <2>3
    <3> QED
      BY <1>2, <1>6, <2>1, <2>2, <3>1
  <2>4. CASE j # n + 1
    <3>1. j \in 0 .. n /\ j \in 1 .. n
      BY <2>4
    <3>2. new[j + 1] = table[j + 1]
      BY <1>7, <3>1
    <3> QED
      BY <1>3, <2>1, <2>2, <3>1, <3>2
  <2> QED
    BY <2>3, <2>4
<1>10. new[1] = Unwritten /\ n + 2 = (n + 1) + 1
  BY <1>3, <1>6
<1>11. IsTable(seq, nodes, new, n + 1)
  BY <1>6, <1>8, <1>9, <1>10, Zenon DEF IsTable
<1> QED
  BY <1>1, <1>2, <1>11 DEF new

\* The table of what is written, when it is complete.
LEMMA WrittenIsTable ==
  ASSUME NEW seq \in Seq(Char), NEW nodes, Len(nodes) = Len(seq) + 1,
         \A j \in 1 .. Len(seq) : IsWay(seq, j, nodes[j + 1])
  PROVE  IsTable(seq, nodes, Written(seq, nodes), Len(seq))
<1>1. PICK n \in Nat : n = Len(seq) /\ Len(nodes) = n + 1
  OBVIOUS
<1>2. PICK g : IsWritten(g, seq, nodes, n) /\ Written(seq, nodes) = g[n]
  BY <1>1, WrittenIs, Zenon
<1>3. \A k \in 0 .. n : g[k] = IF k = 0 THEN <<Unwritten>>
                               ELSE Append(g[k - 1], Onward(seq, nodes, k, g[k - 1][nodes[k + 1].prev + 1]))
  BY <1>2 DEF IsWritten
<1> DEFINE Good == {k \in Nat : k <= n => IsTable(seq, nodes, g[k], k)}
<1>4. 0 \in Good
  <2>1. g[0] = <<Unwritten>>
    BY <1>3
  <2>2. <<Unwritten>> \in Seq(State) /\ Len(<<Unwritten>>) = 1 /\ <<Unwritten>>[1] = Unwritten
    BY UnwrittenIs
  <2>3. \A j \in 0 .. 0 : IsList(<<Unwritten>>[j + 1].list)
    <3>1. \A j \in 0 .. 0 : j = 0
      OBVIOUS
    <3>2. IsList(<<Unwritten>>[0 + 1].list)
      BY UnwrittenIs
    <3> QED
      BY <3>1, <3>2
  <2>4. IsTable(seq, nodes, <<Unwritten>>, 0)
    BY <2>2, <2>3 DEF IsTable
  <2> QED
    BY <2>1, <2>4
<1>5. ASSUME NEW k \in Nat, k \in Good PROVE k + 1 \in Good
  <2> SUFFICES ASSUME k + 1 <= n PROVE IsTable(seq, nodes, g[k + 1], k + 1)
    OBVIOUS
  <2>1. g[k + 1] = Append(g[k], Onward(seq, nodes, k + 1, g[k][nodes[(k + 1) + 1].prev + 1]))
    <3>1. k + 1 \in 0 .. n /\ k + 1 # 0 /\ (k + 1) - 1 = k
      OBVIOUS
    <3> QED
      BY <1>3, <3>1
  <2>2. IsTable(seq, nodes, g[k], k)
    BY <1>5
  <2>3. k + 1 <= Len(seq)
    BY <1>1
  <2>4. IsTable(seq, nodes, Append(g[k], Onward(seq, nodes, k + 1, g[k][nodes[(k + 1) + 1].prev + 1])), k + 1)
    BY <2>2, <2>3, TableGrows
  <2> QED
    BY <2>1, <2>4
<1>6. Nat \subseteq Good
  <2> HIDE DEF Good
  <2> QED
    BY <1>4, <1>5, Counting
<1>7. IsTable(seq, nodes, g[n], n)
  BY <1>6
<1> QED
  BY <1>1, <1>2, <1>7

\* A stream that ends before the last bit of the file.
IsStream(c, seq) ==
    /\ c.bits \in Seq(Bit) /\ c.length = Len(seq)
    /\ StreamEnd(c) \in Nat /\ Len(c.bits) <= StreamEnd(c)

IsReadOn(c, seq, prev, i, w, e) ==
    /\ Stands(c.bits, 1, w.bits) /\ Len(w.bits) \in Nat /\ Len(e.bits) \in Nat
    /\ Len(w.bits) + 6 <= Len(e.bits) /\ Len(e.bits) <= StreamEnd(c)
    /\ ReadChunk(c, Reading(1 + Len(w.bits), w.list, SubSeq(seq, 1, prev))) =
          Reading(1 + Len(e.bits), e.list, SubSeq(seq, 1, i))

\* A chunk of the stream is read as the way it was written for.
LEMMA ChunkIsRead ==
  ASSUME NEW seq \in Seq(Char), NEW nodes, NEW i \in 1 .. Len(seq), IsWay(seq, i, nodes[i + 1]),
         NEW w \in State, IsList(w.list), NEW c, IsStream(c, seq),
         Stands(c.bits, 1, Onward(seq, nodes, i, w).bits)
  PROVE  IsReadOn(c, seq, nodes[i + 1].prev, i, w, Onward(seq, nodes, i, w))
<1> DEFINE e == Onward(seq, nodes, i, w)
<1>0. Stands(c.bits, 1, e.bits)
  OBVIOUS
<1>1. PICK piece : piece = Piece(seq, nodes, i, w.list)
  OBVIOUS
<1>2. e.bits = w.bits \o piece /\ e.list = NextList(seq, nodes, i, w.list) /\ e \in State
  BY <1>1, OnwardIs
<1> HIDE DEF e
<1>3. piece \in Seq(Bit) /\ Len(piece) >= 6
  BY <1>1, PieceIsBits
<1>4. w.bits \in Seq(Bit) /\ e.bits \in Seq(Bit)
  BY <1>2 DEF State
<1>5. PICK a \in Seq(Bit), b \in Seq(Bit) : a = w.bits /\ b = c.bits
  BY <1>4 DEF IsStream
<1>6. PICK p \in Nat, z \in Nat : p = Len(a) + 1 /\ z = Len(piece) /\ z >= 6
  BY <1>3
<1>7. e.bits = a \o piece /\ Len(a \o piece) = Len(a) + Len(piece)
  <2>1. Len(a \o piece) = Len(a) + Len(piece)
    BY <1>3, Joined
  <2> QED
    BY <1>2, <1>5, <2>1
<1>8. Stands(b, 1, a) /\ Stands(b, 1 + Len(a), piece)
  <2>1. Stands(b, 1, a \o piece) /\ 1 \in Nat
    BY <1>0, <1>5, <1>7
  <2> QED
    BY <1>3, <2>1, StandsInParts
<1>9. Len(e.bits) \in Nat /\ Len(a) \in Nat /\ Len(e.bits) = Len(a) + z
  BY <1>6, <1>7
<1>10. 1 + Len(e.bits) <= Len(b) + 1 /\ Len(b) <= StreamEnd(c) /\ StreamEnd(c) \in Nat /\ Len(b) \in Nat
  <2>1. 1 + Len(e.bits) <= Len(b) + 1
    BY <1>0, <1>5, Zenon DEF Stands
  <2>2. Len(b) <= StreamEnd(c) /\ StreamEnd(c) \in Nat
    BY <1>5 DEF IsStream
  <2> QED
    BY <2>1, <2>2
<1>11. Len(a) + 6 <= Len(e.bits) /\ Len(e.bits) <= StreamEnd(c) /\ p <= StreamEnd(c)
  <2>1. PICK x \in Nat, y \in Nat, q \in Nat, v \in Nat : x = Len(e.bits) /\ y = Len(a) /\ q = Len(b)
           /\ v = StreamEnd(c)
    BY <1>9, <1>10
  <2>2. x = y + z /\ 1 + x <= q + 1 /\ q <= v /\ p = y + 1
    BY <1>6, <1>9, <1>10, <2>1
  <2>3. y + 6 <= x /\ x <= v /\ p <= v
    BY <1>6, <2>2
  <2> QED
    BY <2>1, <2>3
<1>12. PICK m \in 0 .. i - 1 : m = nodes[i + 1].prev
  <2>1. nodes[i + 1].prev \in 0 .. i - 1
    BY DEF IsWay, CanGo
  <2> QED
    BY <2>1
<1> DEFINE before == SubSeq(seq, 1, m)
           s == Reading(p, w.list, before)
<1>13. Len(before) = m /\ m < Len(seq)
  <2>1. m \in 0 .. Len(seq) /\ m < Len(seq)
    BY <1>12
  <2> QED
    BY <2>1, Firsts
<1> HIDE DEF before
<1>14. s.going /\ s.pos = p /\ s.text = before
  BY DEF Reading
<1> HIDE DEF s
<1>15. ReadChunk(c, s) = ReadNext(b, s)
  <2>1. s.going /\ ~(Len(s.text) >= c.length) /\ ~(s.pos > StreamEnd(c))
    <3>1. c.length = Len(seq)
      BY DEF IsStream
    <3>2. ~(Len(s.text) >= c.length)
      BY <1>12, <1>13, <1>14, <3>1
    <3>3. ~(p > StreamEnd(c))
      BY <1>10, <1>11
    <3> QED
      BY <1>14, <3>2, <3>3
  <2> QED
    BY <1>5, <2>1 DEF ReadChunk, ReadNext
<1>16. ReadNext(b, s) = Reading(p + Len(piece), NextList(seq, nodes, i, w.list), SubSeq(seq, 1, i))
  <2>1. p \in Nat \ {0} /\ Stands(b, p, Piece(seq, nodes, i, w.list)) /\ IsList(w.list)
    <3>1. Len(a) \in Nat
      BY <1>9
    <3>2. p = 1 + Len(a) /\ p # 0
      BY <1>6, <3>1
    <3> QED
      BY <1>1, <1>8, <3>2
  <2>2. ReadNext(b, Reading(p, w.list, SubSeq(seq, 1, nodes[i + 1].prev))) =
            Reading(p + Len(Piece(seq, nodes, i, w.list)), NextList(seq, nodes, i, w.list), SubSeq(seq, 1, i))
    BY <2>1, PieceIsRead
  <2> QED
    BY <1>1, <1>12, <2>2 DEF s, before
<1>17. p + Len(piece) = 1 + Len(e.bits) /\ p = 1 + Len(a)
  <2>1. Len(piece) \in Nat /\ Len(a) \in Nat /\ Len(e.bits) = Len(a) + Len(piece)
    BY <1>6, <1>9
  <2> QED
    BY <1>6, <2>1
<1>18. ReadChunk(c, s) = Reading(1 + Len(e.bits), e.list, SubSeq(seq, 1, i))
  BY <1>2, <1>15, <1>16, <1>17
<1>19. ReadChunk(c, Reading(1 + Len(w.bits), w.list, SubSeq(seq, 1, nodes[i + 1].prev))) =
          Reading(1 + Len(e.bits), e.list, SubSeq(seq, 1, i))
  BY <1>5, <1>12, <1>17, <1>18 DEF s, before
<1>20. IsReadOn(c, seq, nodes[i + 1].prev, i, w, e)
  BY <1>5, <1>8, <1>9, <1>11, <1>19 DEF IsReadOn
<1> QED
  BY <1>20 DEF e

\* The rounds of the reading.
IsRead(g, c, n) ==
    g = [k \in 0 .. n |-> IF k = 0 THEN Reading(1, FreshMtf.list, << >>) ELSE ReadChunk(c, g[k - 1])]

LEMMA ReadExists == ASSUME NEW c, NEW n \in Nat PROVE \E g : IsRead(g, c, n)
<1> DEFINE S == {m \in Nat : \E g : IsRead(g, c, m)}
<1>1. 0 \in S
  <2> DEFINE g == [k \in 0 .. 0 |-> Reading(1, FreshMtf.list, << >>)]
  <2>1. \A k \in 0 .. 0 : k = 0
    OBVIOUS
  <2>2. g = [k \in 0 .. 0 |-> IF k = 0 THEN Reading(1, FreshMtf.list, << >>) ELSE ReadChunk(c, g[k - 1])]
    BY <2>1
  <2> QED
    BY <2>2 DEF IsRead
<1>2. ASSUME NEW m \in Nat, m \in S PROVE m + 1 \in S
  <2>1. PICK g : IsRead(g, c, m)
    BY <1>2
  <2> DEFINE h == [k \in 0 .. m + 1 |-> IF k = m + 1 THEN ReadChunk(c, g[m]) ELSE g[k]]
  <2>2. \A k \in 0 .. m : g[k] = IF k = 0 THEN Reading(1, FreshMtf.list, << >>) ELSE ReadChunk(c, g[k - 1])
    BY <2>1 DEF IsRead
  <2>3. \A k \in 0 .. m + 1 : h[k] = IF k = 0 THEN Reading(1, FreshMtf.list, << >>)
           ELSE ReadChunk(c, h[k - 1])
    <3> TAKE k \in 0 .. m + 1
    <3>1. CASE k = m + 1
      <4>1. k - 1 = m /\ k # 0 /\ h[m] = g[m]
        BY <3>1
      <4> QED
        BY <3>1, <4>1
    <3>2. CASE k # m + 1
      <4>1. k \in 0 .. m /\ h[k] = g[k] /\ (k # 0 => h[k - 1] = g[k - 1])
        BY <3>2
      <4> QED
        BY <2>2, <4>1
    <3> QED
      BY <3>1, <3>2
  <2>4. h = [k \in 0 .. m + 1 |-> h[k]]
    OBVIOUS
  <2> HIDE DEF h
  <2>5. IsRead(h, c, m + 1)
    BY <2>3, <2>4 DEF IsRead
  <2> QED
    BY <2>5
<1>3. Nat \subseteq S
  <2> HIDE DEF S
  <2> QED
    BY <1>1, <1>2, Counting
<1> QED
  BY <1>3

\* The rounds of the reader.
LEMMA PxaIsRead ==
  ASSUME NEW c, NEW n \in Nat, n = StreamEnd(c) \div 6 + 1
  PROVE  \E g : IsRead(g, c, n) /\ ReadPxa(c) = g[n].text
<1>1. \E g : IsRead(g, c, n)
  BY ReadExists
<1> DEFINE round == CHOOSE g : g = [k \in 0 .. n |->
                       IF k = 0 THEN Reading(1, FreshMtf.list, << >>) ELSE ReadChunk(c, g[k - 1])]
<1>2. ReadPxa(c) = round[n].text
  BY DEF ReadPxa
<1>3. round = CHOOSE g : IsRead(g, c, n)
  BY Zenon DEF IsRead
<1> HIDE DEF round
<1> QED
  BY <1>1, <1>2, <1>3

\* The rounds up to a node of the graph.
HasRead(g, w, seq, i) ==
    \E r \in Nat : 6 * r <= Len(w.bits) /\ g[r] = Reading(1 + Len(w.bits), w.list, SubSeq(seq, 1, i))

\* What was written up to a node is read up to its place in the text.
LEMMA PathIsRead ==
  ASSUME NEW seq \in Seq(Char), NEW nodes, NEW n \in Nat, n = Len(seq),
         \A j \in 1 .. n : IsWay(seq, j, nodes[j + 1]), NEW table, IsTable(seq, nodes, table, n),
         NEW c, IsStream(c, seq), NEW g, IsRead(g, c, StreamEnd(c) \div 6 + 1)
  PROVE  \A i \in 0 .. n : Stands(c.bits, 1, table[i + 1].bits) => HasRead(g, table[i + 1], seq, i)
<1>1. PICK v \in Nat, rounds \in Nat : v = StreamEnd(c) /\ rounds = StreamEnd(c) \div 6 + 1
         /\ rounds = v \div 6 + 1
  <2>1. StreamEnd(c) \in Nat
    BY DEF IsStream
  <2> QED
    BY <2>1
<1>2. \A k \in 0 .. rounds : g[k] = IF k = 0 THEN Reading(1, FreshMtf.list, << >>)
         ELSE ReadChunk(c, g[k - 1])
  BY <1>1 DEF IsRead
<1>3. /\ table \in Seq(State) /\ Len(table) = n + 1 /\ table[1] = Unwritten
      /\ \A j \in 0 .. n : IsList(table[j + 1].list)
      /\ \A j \in 1 .. n : table[j + 1] = Onward(seq, nodes, j, table[nodes[j + 1].prev + 1])
  BY DEF IsTable
<1> DEFINE Reads(i) == Stands(c.bits, 1, table[i + 1].bits) => HasRead(g, table[i + 1], seq, i)
           Good == {k \in Nat : \A i \in 0 .. k : i <= n => Reads(i)}
<1>4. Reads(0)
  <2>1. table[0 + 1] = Unwritten /\ Unwritten.bits = << >> /\ Unwritten.list = FreshMtf.list
    BY <1>3 DEF Unwritten
  <2>2. Len(<< >>) = 0 /\ SubSeq(seq, 1, 0) = << >>
    OBVIOUS
  <2>3. g[0] = Reading(1, FreshMtf.list, << >>)
    BY <1>1, <1>2
  <2>4. 6 * 0 <= Len(Unwritten.bits) /\ 1 + Len(Unwritten.bits) = 1
    BY <2>1, <2>2
  <2>5. g[0] = Reading(1 + Len(Unwritten.bits), Unwritten.list, SubSeq(seq, 1, 0))
    BY <2>1, <2>2, <2>3, <2>4
  <2>6. HasRead(g, Unwritten, seq, 0)
    <3>1. 0 \in Nat
      OBVIOUS
    <3> QED
      BY <2>4, <2>5, <3>1, Zenon DEF HasRead
  <2> QED
    BY <2>1, <2>6
<1>5. ASSUME NEW i \in 1 .. n, \A h \in 0 .. i - 1 : Reads(h) PROVE Reads(i)
  <2> HIDE DEF Reads
  <2> SUFFICES ASSUME Stands(c.bits, 1, table[i + 1].bits) PROVE HasRead(g, table[i + 1], seq, i)
    BY DEF Reads
  <2>1. IsWay(seq, i, nodes[i + 1]) /\ i \in 1 .. Len(seq)
    OBVIOUS
  <2>2. PICK m \in 0 .. i - 1 : m = nodes[i + 1].prev
    <3>1. nodes[i + 1].prev \in 0 .. i - 1
      BY <2>1 DEF IsWay, CanGo
    <3> QED
      BY <3>1
  <2>3. PICK w \in State : w = table[m + 1] /\ IsList(w.list)
    <3>1. m \in 0 .. n /\ m + 1 \in 1 .. Len(table)
      BY <1>3
    <3>2. table[m + 1] \in State /\ IsList(table[m + 1].list)
      BY <1>3, <3>1
    <3> QED
      BY <3>2
  <2>4. PICK e : e = table[i + 1] /\ e = Onward(seq, nodes, i, w)
    BY <1>3, <2>2, <2>3
  <2>5. /\ Stands(c.bits, 1, w.bits) /\ Len(w.bits) \in Nat /\ Len(e.bits) \in Nat
        /\ Len(w.bits) + 6 <= Len(e.bits) /\ Len(e.bits) <= StreamEnd(c)
        /\ ReadChunk(c, Reading(1 + Len(w.bits), w.list, SubSeq(seq, 1, nodes[i + 1].prev))) =
               Reading(1 + Len(e.bits), e.list, SubSeq(seq, 1, i))
    <3>2. e = Onward(seq, nodes, i, w) /\ IsList(w.list) /\ IsStream(c, seq)
      BY <2>3, <2>4
    <3>3. Stands(c.bits, 1, Onward(seq, nodes, i, w).bits)
      BY <2>4
    <3>4. IsReadOn(c, seq, nodes[i + 1].prev, i, w, Onward(seq, nodes, i, w))
      BY <2>1, <3>2, <3>3, ChunkIsRead, Zenon
    <3>5. IsReadOn(c, seq, nodes[i + 1].prev, i, w, e)
      BY <2>4, <3>4
    <3> QED
      BY <3>5, Zenon DEF IsReadOn
  <2>6. HasRead(g, w, seq, m)
    <3>1. Reads(m)
      BY <1>5
    <3> QED
      BY <2>3, <2>5, <3>1 DEF Reads
  <2>7. PICK r \in Nat : 6 * r <= Len(w.bits) /\ g[r] = Reading(1 + Len(w.bits), w.list, SubSeq(seq, 1, m))
    BY <2>6 DEF HasRead
  <2>8. 6 * (r + 1) <= Len(e.bits) /\ r + 1 \in 0 .. rounds /\ r + 1 # 0 /\ (r + 1) - 1 = r
    <3>1. PICK x \in Nat, y \in Nat : x = Len(w.bits) /\ y = Len(e.bits) /\ 6 * r <= x /\ x + 6 <= y
             /\ y <= v
      BY <1>1, <2>5, <2>7
    <3> QED
      BY <1>1, <3>1, SMTT(30)
  <2>9. g[r + 1] = ReadChunk(c, g[r])
    BY <1>2, <2>8
  <2>10. g[r + 1] = Reading(1 + Len(e.bits), e.list, SubSeq(seq, 1, i))
    BY <2>2, <2>5, <2>7, <2>9
  <2>11. r + 1 \in Nat
    OBVIOUS
  <2>12. HasRead(g, e, seq, i)
    BY <2>8, <2>10, <2>11, Zenon DEF HasRead
  <2> QED
    BY <2>4, <2>12
<1> HIDE DEF Reads
<1>6. 0 \in Good
  <2>1. \A i \in 0 .. 0 : i = 0
    OBVIOUS
  <2> QED
    BY <1>4, <2>1
<1>7. ASSUME NEW k \in Nat, k \in Good PROVE k + 1 \in Good
  <2> SUFFICES ASSUME NEW i \in 0 .. k + 1, i <= n PROVE Reads(i)
    OBVIOUS
  <2>1. CASE i \in 0 .. k
    BY <1>7, <2>1
  <2>2. CASE i \notin 0 .. k
    <3>1. i \in 1 .. n /\ \A h \in 0 .. i - 1 : h \in 0 .. k /\ h <= n
      BY <2>2
    <3>2. \A h \in 0 .. i - 1 : Reads(h)
      BY <1>7, <3>1
    <3> QED
      BY <1>5, <3>1, <3>2
  <2> QED
    BY <2>1, <2>2
<1>8. Nat \subseteq Good
  <2> HIDE DEF Good
  <2> QED
    BY <1>6, <1>7, Counting
<1>9. ASSUME NEW i \in 0 .. n PROVE Reads(i)
  <2>1. n \in Good
    BY <1>8
  <2> QED
    BY <2>1
<1> QED
  BY <1>9 DEF Reads

\* When all of the text is there, the other rounds change nothing.
LEMMA StreamIsRead ==
  ASSUME NEW seq \in Seq(Char), NEW nodes, Len(nodes) = Len(seq) + 1,
         \A j \in 1 .. Len(seq) : IsWay(seq, j, nodes[j + 1]),
         NEW c, IsStream(c, seq), c.bits = Written(seq, nodes)[Len(nodes)].bits
  PROVE  ReadPxa(c) = seq
<1>1. PICK n \in Nat : n = Len(seq) /\ Len(nodes) = n + 1
  OBVIOUS
<1>2. PICK table : table = Written(seq, nodes) /\ IsTable(seq, nodes, table, n)
  BY <1>1, WrittenIsTable
<1>3. PICK rounds \in Nat : rounds = StreamEnd(c) \div 6 + 1
  <2>1. StreamEnd(c) \in Nat
    BY DEF IsStream
  <2> QED
    BY <2>1
<1>4. PICK g : IsRead(g, c, rounds) /\ ReadPxa(c) = g[rounds].text
  BY <1>3, PxaIsRead
<1>5. Stands(c.bits, 1, table[n + 1].bits) /\ Len(c.bits) \in Nat
  <2>1. PICK b \in Seq(Bit) : b = c.bits
    BY DEF IsStream
  <2>2. b = table[n + 1].bits
    BY <1>1, <1>2, <2>1
  <2>3. 1 + Len(b) <= Len(b) + 1 /\ \A k \in 1 .. Len(b) : 1 + k - 1 = k /\ k <= Len(b)
    OBVIOUS
  <2>4. Stands(b, 1, b)
    BY <2>3 DEF Stands, BitAt
  <2> QED
    BY <2>1, <2>2, <2>4
<1>6. HasRead(g, table[n + 1], seq, n)
  <2>1. IsRead(g, c, StreamEnd(c) \div 6 + 1) /\ \A j \in 1 .. n : IsWay(seq, j, nodes[j + 1])
    BY <1>1, <1>3, <1>4
  <2>2. n \in 0 .. n
    OBVIOUS
  <2> QED
    BY <1>1, <1>2, <1>5, <2>1, <2>2, PathIsRead
<1>7. PICK final : final = table[n + 1]
  OBVIOUS
<1>8. PICK r \in Nat : 6 * r <= Len(final.bits)
         /\ g[r] = Reading(1 + Len(final.bits), final.list, SubSeq(seq, 1, n))
  BY <1>6, <1>7 DEF HasRead
<1>9. r <= rounds
  <2>1. final.bits = c.bits /\ Len(c.bits) <= StreamEnd(c) /\ StreamEnd(c) \in Nat
    BY <1>1, <1>2, <1>7 DEF IsStream
  <2>2. PICK x \in Nat, v \in Nat : x = Len(final.bits) /\ v = StreamEnd(c) /\ x <= v /\ 6 * r <= x
    BY <1>5, <1>8, <2>1
  <2>3. rounds = v \div 6 + 1
    BY <1>3, <2>2
  <2> QED
    BY <2>2, <2>3
<1>10. \A k \in 1 .. rounds : g[k] = ReadChunk(c, g[k - 1])
  BY <1>4 DEF IsRead
<1>11. SubSeq(seq, 1, n) = seq
  BY <1>1
<1> DEFINE end == g[r]
<1>12. end.text = seq
  BY <1>8, <1>11 DEF Reading
<1> HIDE DEF end
<1>13. ReadChunk(c, end) = end
  <2>1. Len(end.text) >= c.length
    BY <1>1, <1>12 DEF IsStream
  <2> QED
    BY <2>1 DEF ReadChunk
<1> DEFINE Good == {k \in Nat : r + k <= rounds => g[r + k] = end}
<1>14. 0 \in Good
  <2>1. r + 0 = r
    OBVIOUS
  <2> QED
    BY <2>1 DEF end
<1>15. ASSUME NEW k \in Nat, k \in Good PROVE k + 1 \in Good
  <2> SUFFICES ASSUME r + (k + 1) <= rounds PROVE g[r + (k + 1)] = end
    OBVIOUS
  <2>1. r + (k + 1) \in 1 .. rounds /\ (r + (k + 1)) - 1 = r + k /\ r + k <= rounds
    OBVIOUS
  <2>2. g[r + k] = end
    BY <1>15, <2>1
  <2>3. g[r + (k + 1)] = ReadChunk(c, g[r + k])
    BY <1>10, <2>1
  <2> QED
    BY <1>13, <2>2, <2>3
<1>16. Nat \subseteq Good
  <2> HIDE DEF Good
  <2> QED
    BY <1>14, <1>15, Counting
<1>17. g[rounds] = end
  <2>1. rounds - r \in Nat /\ r + (rounds - r) = rounds
    BY <1>9
  <2>2. rounds - r \in Good
    BY <1>16, <2>1
  <2> QED
    BY <2>1, <2>2
<1> QED
  BY <1>4, <1>12, <1>17

\* Every node of the graph has a way into it.
LEMMA GraphHasWays ==
  ASSUME NEW seq \in Seq(Char), IsShort(seq)
  PROVE  Len(Graph(seq)) = Len(seq) + 1 /\ \A j \in 1 .. Len(seq) : IsWay(seq, j, Graph(seq)[j + 1])
<1>1. PICK n \in 0 .. Len(seq) : n = Len(seq)
  OBVIOUS
<1>2. PICK nodes : nodes = Relaxed(seq)[n].nodes
  OBVIOUS
<1>3. IsReached(seq, nodes, n)
  BY <1>2, RoundsReach
<1>4. \A j \in 1 .. n : IsWay(seq, j, nodes[j + 1])
  BY <1>1, <1>3, ReachedHaveWays
<1>5. Len(nodes) = Len(seq) + 1
  BY <1>3 DEF IsReached, IsGraph
<1>6. Graph(seq) = nodes
  BY <1>1, <1>2 DEF Graph
<1> QED
  BY <1>1, <1>4, <1>5, <1>6

\* The size in the header tells the end of the stream, for one that fits the cart.
LEMMA StreamSizes ==
  ASSUME NEW n \in Nat, NEW size, size = 8 + (n + 7) \div 8, size <= CodeSize
  PROVE  8 * ((size % 65536) - 8) \in Nat /\ n <= 8 * ((size % 65536) - 8)
<1>1. PICK q \in Nat : q = (n + 7) \div 8 /\ n <= 8 * q
  OBVIOUS
<1>2. size \in Nat /\ size < 65536 /\ size = 8 + q
  BY <1>1 DEF CodeSize
<1>3. size % 65536 = size
  BY <1>2
<1>4. 8 * ((size % 65536) - 8) = 8 * q
  BY <1>2, <1>3
<1> QED
  BY <1>1, <1>4

\* The pxa stream of a text that fits a cart is read as that text.
LEMMA PxaTextIsRead ==
  ASSUME NEW seq \in Seq(Char), IsShort(seq), PxaCompress(seq).size <= CodeSize
  PROVE  Decompress(PxaCompress(seq)) = seq
<1>1. PICK nodes : nodes = Graph(seq)
  OBVIOUS
<1>2. Len(nodes) = Len(seq) + 1 /\ \A j \in 1 .. Len(seq) : IsWay(seq, j, nodes[j + 1])
  BY <1>1, GraphHasWays
<1>3. PICK bits : bits = Written(seq, nodes)[Len(nodes)].bits
  OBVIOUS
<1>4. PICK c : c = PxaCompress(seq)
  OBVIOUS
<1>5. c = [format |-> "pxa", length |-> Len(seq) % 65536, size |-> 8 + (Len(bits) + 7) \div 8, bits |-> bits]
  BY <1>1, <1>3, <1>4 DEF PxaCompress
<1>6. /\ c.format = "pxa" /\ c.length = Len(seq) % 65536 /\ c.size = 8 + (Len(bits) + 7) \div 8
         /\ c.bits = bits
      /\ c.size <= CodeSize
  BY <1>4, <1>5
<1>7. bits \in Seq(Bit)
  <2>1. PICK n \in Nat : n = Len(seq) /\ Len(nodes) = n + 1
    BY <1>2
  <2>2. IsTable(seq, nodes, Written(seq, nodes), n)
    BY <1>2, <2>1, WrittenIsTable
  <2>3. Written(seq, nodes) \in Seq(State) /\ Len(Written(seq, nodes)) = n + 1
    BY <2>2 DEF IsTable
  <2>4. Written(seq, nodes)[n + 1] \in State
    BY <2>3
  <2> QED
    BY <1>3, <2>1, <2>4 DEF State
<1>8. c.length = Len(seq)
  <2>1. Len(seq) \in Nat /\ Len(seq) < 65536
    BY DEF IsShort, Shift
  <2> QED
    BY <1>6, <2>1
<1>9. StreamEnd(c) \in Nat /\ Len(bits) <= StreamEnd(c)
  <2>1. Len(bits) \in Nat
    BY <1>7
  <2>2. StreamEnd(c) = 8 * ((c.size % 65536) - 8)
    BY DEF StreamEnd
  <2> QED
    BY <1>6, <2>1, <2>2, StreamSizes
<1>10. IsStream(c, seq)
  BY <1>6, <1>7, <1>8, <1>9 DEF IsStream
<1>11. ReadPxa(c) = seq
  <2>1. c.bits = Written(seq, nodes)[Len(nodes)].bits
    BY <1>3, <1>6
  <2> QED
    BY <1>2, <1>10, <2>1, StreamIsRead, Zenon
<1> QED
  BY <1>4, <1>6, <1>11 DEF Decompress

-----------------------------------------------------------------------------
(* The older format.                                                       *)

\* The common bytes of the text from i and from j before it, at most as many as are between.
LEMMA OldCommonIs ==
  ASSUME NEW seq \in Seq(Char), NEW i \in 0 .. Len(seq) - 1, NEW j \in 0 .. i - 1
  PROVE  /\ OldCommon(seq, i, j) \in 0 .. 17 /\ OldCommon(seq, i, j) <= i - j
         /\ \A h \in 1 .. OldCommon(seq, i, j) : i + h <= Len(seq) /\ seq[j + h] = seq[i + h]
<1>1. PICK top \in 0 .. 17 : top = Shorter(Shorter(Len(seq) - j, 17), i - j) /\ top <= i - j
  BY DEF Shorter
<1> DEFINE S == {k \in 0 .. top : \A h \in 1 .. k : i + h <= Len(seq) /\ seq[j + h] = seq[i + h]}
<1>2. OldCommon(seq, i, j) = Max(S)
  BY <1>1 DEF OldCommon
<1>3. S # {}
  <2>1. 0 \in 0 .. top /\ \A h \in 1 .. 0 : FALSE
    BY <1>1, SMTT(30)
  <2>2. 0 \in S
    BY <2>1
  <2> QED
    BY <2>2
<1>4. IsFiniteSet(S) /\ S \in SUBSET Int
  <2>1. IsFiniteSet(0 .. top)
    BY FS_Interval
  <2>2. S \subseteq 0 .. top
    OBVIOUS
  <2>3. IsFiniteSet(S)
    <3> HIDE DEF S
    <3> QED
      BY <2>1, <2>2, FS_Subset
  <2>4. 0 .. top \subseteq Int
    OBVIOUS
  <2> QED
    BY <2>2, <2>3, <2>4
<1>5. Max(S) \in S
  <2> HIDE DEF S
  <2> QED
    BY <1>3, <1>4, MaxIsIn
<1>6. PICK k \in S : k = OldCommon(seq, i, j)
  BY <1>2, <1>5
<1>7. k \in 0 .. top /\ \A h \in 1 .. k : i + h <= Len(seq) /\ seq[j + h] = seq[i + h]
  BY <1>6
<1>8. k \in 0 .. 17 /\ k <= i - j
  BY <1>1, <1>7, SMTT(30)
<1> QED
  BY <1>6, <1>7, <1>8

\* A copy worth two bytes: it is there, and does not reach into the text itself.
IsOldCopy(seq, i, back, len) ==
    /\ back \in 1 .. i /\ len \in 2 .. 17 /\ len <= back /\ i + len <= Len(seq)
    /\ \A h \in 1 .. len : seq[i + h] = seq[(i - back) + h]

\* A copy found for the older format.
LEMMA OldCopyIs ==
  ASSUME NEW seq \in Seq(Char), NEW i \in 0 .. Len(seq) - 1
  PROVE  /\ OldCopy(seq, i).len \in 0 .. 17
         /\ OldCopy(seq, i).len >= 2 => IsOldCopy(seq, i, i - OldCopy(seq, i).from, OldCopy(seq, i).len)
<1> DEFINE froms == Longer(i - 3135, 0) .. i - 1
           Lengths == {OldCommon(seq, i, j) : j \in froms}
           best == Max(Lengths)
           Froms == {j \in froms : OldCommon(seq, i, j) = best}
<1>1. OldCopy(seq, i) = IF froms = {} THEN [from |-> 0, len |-> 0] ELSE [from |-> Max(Froms), len |-> best]
  BY DEF OldCopy
<1>2. froms \subseteq 0 .. i - 1 /\ froms \subseteq Int
  BY DEF Longer
<1>3. IsFiniteSet(froms)
  <2>1. Longer(i - 3135, 0) \in Int /\ i - 1 \in Int
    BY DEF Longer
  <2> QED
    BY <2>1, FS_Interval
<1> HIDE DEF froms
<1>4. \A j \in froms : OldCommon(seq, i, j) \in 0 .. 17
  BY <1>2, OldCommonIs
<1>5. CASE froms = {}
  <2>1. OldCopy(seq, i).len = 0
    BY <1>1, <1>5
  <2> QED
    BY <2>1
<1>6. CASE froms # {}
  <2>1. OldCopy(seq, i).from = Max(Froms) /\ OldCopy(seq, i).len = best
    BY <1>1, <1>6
  <2>2. Lengths # {} /\ Lengths \in SUBSET Int /\ Lengths \subseteq 0 .. 17
    BY <1>4, <1>6, SMTT(30)
  <2>3. IsFiniteSet(Lengths)
    <3>1. IsFiniteSet(0 .. 17)
      <4>1. PICK a \in Int, b \in Int : a = 0 /\ b = 17
        OBVIOUS
      <4>2. IsFiniteSet(a .. b)
        BY FS_Interval
      <4> QED
        BY <4>1, <4>2
    <3> HIDE DEF Lengths
    <3> QED
      BY <2>2, <3>1, FS_Subset
  <2>4. best \in Lengths
    <3> HIDE DEF Lengths
    <3> QED
      BY <2>2, <2>3, MaxIsIn
  <2>5. PICK j \in froms : best = OldCommon(seq, i, j)
    BY <2>4
  <2> HIDE DEF best, Lengths
  <2>6. Froms # {} /\ Froms \subseteq froms /\ Froms \in SUBSET Int
    BY <1>2, <2>5
  <2>7. IsFiniteSet(Froms)
    <3> HIDE DEF Froms
    <3> QED
      BY <1>3, <2>6, FS_Subset
  <2>8. Max(Froms) \in Froms
    <3> HIDE DEF Froms
    <3> QED
      BY <2>6, <2>7, MaxIsIn
  <2>9. PICK m \in 0 .. i - 1 : m = Max(Froms) /\ OldCommon(seq, i, m) = best
    BY <1>2, <2>8
  <2>10. PICK n : n = OldCommon(seq, i, m)
    OBVIOUS
  <2>11. n \in 0 .. 17 /\ n <= i - m /\ \A h \in 1 .. n : i + h <= Len(seq) /\ seq[m + h] = seq[i + h]
    BY <2>10, OldCommonIs
  <2>12. ASSUME n >= 2 PROVE IsOldCopy(seq, i, i - m, n)
    <3>1. i - m \in 1 .. i /\ i - (i - m) = m /\ n \in 1 .. n
      BY <2>11, <2>12
    <3>2. i + n <= Len(seq) /\ n \in 2 .. 17
      BY <2>11, <2>12, <3>1
    <3> QED
      BY <2>11, <3>1, <3>2 DEF IsOldCopy
  <2> QED
    BY <2>1, <2>9, <2>10, <2>11, <2>12
<1> QED
  BY <1>5, <1>6

\* The two numbers of a copy.
LEMMA OldNumbers ==
  /\ \A n \in Nat : n \div 16 \in Nat /\ n % 16 \in 0 .. 15 /\ n = (n \div 16) * 16 + (n % 16)
  /\ \A low, high \in 0 .. 15 : (low + high * 16) % 16 = low /\ (low + high * 16) \div 16 = high
<1>1. ASSUME NEW n \in Nat PROVE n \div 16 \in Nat /\ n % 16 \in 0 .. 15 /\ n = (n \div 16) * 16 + (n % 16)
  <2>1. n \div 16 \in Nat
    OBVIOUS
  <2>2. n % 16 \in 0 .. 15
    OBVIOUS
  <2>3. n = (n \div 16) * 16 + (n % 16)
    OBVIOUS
  <2> QED
    BY <2>1, <2>2, <2>3
<1>2. ASSUME NEW low \in 0 .. 15, NEW high \in 0 .. 15
      PROVE  (low + high * 16) % 16 = low /\ (low + high * 16) \div 16 = high
  OBVIOUS
<1> QED
  BY <1>1, <1>2

\* What a round writes for the bytes from i to j: a code, a copy, or a byte as it is.
IsOldPiece(seq, i, j, piece) ==
    \/ \E k \in 1 .. 59 : piece = <<k>> /\ DecompressLut[k] = seq[i + 1] /\ j = i + 1
    \/ \E back \in Nat, len \in Nat :
          /\ IsOldCopy(seq, i, back, len) /\ j = i + len
          /\ piece = <<60 + back \div 16, (back % 16) + (len - 2) * 16>>
    \/ piece = <<0, seq[i + 1]>> /\ j = i + 1

IsOldRound(seq, e, f, piece) ==
    /\ piece \in Seq(Nat) /\ Len(piece) \in 1 .. 2
    /\ f.i \in e.i + 1 .. Len(seq) /\ f.bytes = e.bytes \o piece
    /\ IsOldPiece(seq, e.i, f.i, piece)

\* A round of the older compressor.
LEMMA OldChunkIs ==
  ASSUME NEW seq \in Seq(Char), NEW e, e.i \in 0 .. Len(seq) - 1, e.bytes \in Seq(Nat)
  PROVE  \E piece : IsOldRound(seq, e, OldChunk(seq, e), piece)
<1>1. PICK i \in 0 .. Len(seq) - 1 : i = e.i
  OBVIOUS
<1>2. PICK copy : copy = OldCopy(seq, i)
  OBVIOUS
<1>3. copy.len \in 0 .. 17 /\ (copy.len >= 2 => IsOldCopy(seq, i, i - copy.from, copy.len))
  BY <1>2, OldCopyIs
<1>4. PICK b \in Char : b = seq[i + 1]
  OBVIOUS
<1>5. PICK bytes \in Seq(Nat) : bytes = e.bytes
  OBVIOUS
<1> DEFINE f == OldChunk(seq, e)
<1>6. f = IF Codes(b) # {} /\ copy.len <= 2
          THEN [i |-> i + 1, bytes |-> Append(bytes, CHOOSE k \in Codes(b) : TRUE)]
          ELSE IF copy.len >= 2
          THEN [i |-> i + copy.len,
                bytes |-> bytes \o <<60 + (i - copy.from) \div 16, ((i - copy.from) % 16) + (copy.len - 2) * 16>>]
          ELSE [i |-> i + 1, bytes |-> bytes \o <<0, b>>]
  <2>1. ~(e.i >= Len(seq))
    BY <1>1
  <2>2. f = IF Codes(seq[e.i + 1]) # {} /\ OldCopy(seq, e.i).len <= 2
            THEN [i |-> e.i + 1, bytes |-> Append(e.bytes, CHOOSE k \in Codes(seq[e.i + 1]) : TRUE)]
            ELSE IF OldCopy(seq, e.i).len >= 2
            THEN [i |-> e.i + OldCopy(seq, e.i).len,
                  bytes |-> e.bytes \o <<60 + (e.i - OldCopy(seq, e.i).from) \div 16,
                                        ((e.i - OldCopy(seq, e.i).from) % 16) + (OldCopy(seq, e.i).len - 2) * 16>>]
            ELSE [i |-> e.i + 1, bytes |-> e.bytes \o <<0, seq[e.i + 1]>>]
    BY <2>1 DEF OldChunk
  <2> HIDE DEF f
  <2> QED
    BY <1>1, <1>2, <1>4, <1>5, <2>2
<1> HIDE DEF f
<1>7. i + 1 \in i + 1 .. Len(seq)
  OBVIOUS
<1>8. CASE Codes(b) # {} /\ copy.len <= 2
  <2>1. PICK k \in 1 .. 59 : k = (CHOOSE x \in Codes(b) : TRUE) /\ DecompressLut[k] = b
    <3>1. (CHOOSE x \in Codes(b) : TRUE) \in Codes(b)
      BY <1>8
    <3> QED
      BY <3>1 DEF Codes
  <2>2. f = [i |-> i + 1, bytes |-> Append(bytes, k)]
    BY <1>6, <1>8, <2>1
  <2>3. f.i = i + 1 /\ f.bytes = bytes \o <<k>>
    BY <2>2
  <2>4. <<k>> \in Seq(Nat) /\ Len(<<k>>) \in 1 .. 2
    OBVIOUS
  <2>5. IsOldPiece(seq, i, i + 1, <<k>>)
    BY <1>4, <2>1 DEF IsOldPiece
  <2>6. IsOldRound(seq, e, f, <<k>>)
    BY <1>1, <1>5, <1>7, <2>3, <2>4, <2>5 DEF IsOldRound
  <2> QED
    BY <2>6 DEF f
<1>9. CASE ~(Codes(b) # {} /\ copy.len <= 2) /\ copy.len >= 2
  <2>1. PICK back \in Nat, len \in Nat : back = i - copy.from /\ len = copy.len
    <3>1. i - copy.from \in 1 .. i
      BY <1>3, <1>9 DEF IsOldCopy
    <3>2. i - copy.from \in Nat
      BY <3>1
    <3>3. copy.len \in Nat
      <4>1. \A n \in 0 .. 17 : n \in Nat
        OBVIOUS
      <4> QED
        BY <1>3, <4>1
    <3> QED
      BY <3>2, <3>3
  <2>2. IsOldCopy(seq, i, back, len)
    BY <1>3, <1>9, <2>1
  <2>3. PICK x \in Nat, y \in Nat : x = 60 + back \div 16 /\ y = (back % 16) + (len - 2) * 16
    <3>1. len \in 2 .. 17
      BY <2>2 DEF IsOldCopy
    <3>2. 60 + back \div 16 \in Nat /\ (back % 16) + (len - 2) * 16 \in Nat
      BY <3>1
    <3> QED
      BY <3>2
  <2>4. f = [i |-> i + len, bytes |-> bytes \o <<x, y>>]
    BY <1>6, <1>9, <2>1, <2>3
  <2>5. f.i = i + len /\ f.bytes = bytes \o <<x, y>>
    BY <2>4
  <2>6. <<x, y>> \in Seq(Nat) /\ Len(<<x, y>>) \in 1 .. 2
    OBVIOUS
  <2>7. IsOldPiece(seq, i, i + len, <<x, y>>)
    BY <2>2, <2>3 DEF IsOldPiece
  <2>8. i + len \in i + 1 .. Len(seq)
    BY <2>2 DEF IsOldCopy
  <2>9. IsOldRound(seq, e, f, <<x, y>>)
    BY <1>1, <1>5, <2>5, <2>6, <2>7, <2>8 DEF IsOldRound
  <2> QED
    BY <2>9 DEF f
<1>10. CASE ~(Codes(b) # {} /\ copy.len <= 2) /\ ~(copy.len >= 2)
  <2>1. f = [i |-> i + 1, bytes |-> bytes \o <<0, b>>]
    BY <1>6, <1>10
  <2>2. f.i = i + 1 /\ f.bytes = bytes \o <<0, b>>
    BY <2>1
  <2>3. <<0, b>> \in Seq(Nat) /\ Len(<<0, b>>) \in 1 .. 2
    BY CharIs
  <2>4. IsOldPiece(seq, i, i + 1, <<0, b>>)
    BY <1>4 DEF IsOldPiece
  <2>5. IsOldRound(seq, e, f, <<0, b>>)
    BY <1>1, <1>5, <1>7, <2>2, <2>3, <2>4 DEF IsOldRound
  <2> QED
    BY <2>5 DEF f
<1> QED
  BY <1>8, <1>9, <1>10

\* The bytes of the older format, when they fit a cart.
IsOldStream(c, seq) ==
    c.bytes \in Seq(Nat) /\ c.length = Len(seq) /\ 8 + Len(c.bytes) <= CodeSize

\* What a round of the older compressor writes is read as what it took.
LEMMA OldPieceIsRead ==
  ASSUME NEW seq \in Seq(Char), NEW i \in 0 .. Len(seq) - 1, NEW j \in i + 1 .. Len(seq),
         NEW piece, Len(piece) \in 1 .. 2, IsOldPiece(seq, i, j, piece),
         NEW c, IsOldStream(c, seq), NEW p \in Nat, p + Len(piece) <= Len(c.bytes),
         \A k \in 1 .. Len(piece) : c.bytes[p + k] = piece[k]
  PROVE  ReadOldChunk(c, [i |-> 1 + p, text |-> SubSeq(seq, 1, i)]) =
            [i |-> 1 + (p + Len(piece)), text |-> SubSeq(seq, 1, j)]
<1> DEFINE before == SubSeq(seq, 1, i)
           s == [i |-> 1 + p, text |-> before]
<1>1. Len(before) = i /\ i < Len(seq)
  BY Firsts
<1>2. Append(before, seq[i + 1]) = SubSeq(seq, 1, i + 1)
  BY <1>1, Firsts
<1> HIDE DEF before
<1>3. s.i = 1 + p /\ s.text = before
  OBVIOUS
<1> HIDE DEF s
<1>4. PICK bytes \in Seq(Nat) : bytes = c.bytes /\ c.length = Len(seq) /\ 8 + Len(bytes) <= CodeSize
  BY DEF IsOldStream
<1>5. PICK a, b : a = bytes[1 + p] /\ b = bytes[(1 + p) + 1]
  OBVIOUS
<1>6. PICK z \in 1 .. 2 : z = Len(piece) /\ p + z <= Len(bytes)
  BY <1>4
<1>7. a = piece[1] /\ (z = 2 => b = piece[2])
  <2>1. 1 + p = p + 1 /\ (1 + p) + 1 = p + 2 /\ 1 \in 1 .. z
    OBVIOUS
  <2>2. bytes[p + 1] = piece[1]
    BY <1>4, <1>6, <2>1
  <2>3. ASSUME z = 2 PROVE bytes[p + 2] = piece[2]
    <3>1. 2 \in 1 .. z
      BY <2>3
    <3> QED
      BY <1>4, <1>6, <3>1
  <2> QED
    BY <1>5, <2>1, <2>2, <2>3
<1>8. ReadOldChunk(c, s) =
         IF a >= 60
         THEN [i |-> (1 + p) + 2,
               text |-> IF Len(before) >= (a - 60) * 16 + (b % 16)
                        THEN CopyBack(before, (a - 60) * 16 + (b % 16), b \div 16 + 2) ELSE before]
         ELSE IF a > 0 THEN [i |-> (1 + p) + 1, text |-> Append(before, DecompressLut[a])]
         ELSE [i |-> (1 + p) + 2, text |-> Append(before, b)]
  <2>1. ~(Len(s.text) >= c.length \/ s.i > Len(c.bytes) \/ s.i + 7 >= CodeSize)
    <3>1. ~(Len(s.text) >= c.length)
      BY <1>1, <1>3, <1>4
    <3>2. ~(1 + p > Len(bytes)) /\ ~((1 + p) + 7 >= CodeSize)
      <4>1. PICK q \in Nat, v \in Nat : q = Len(bytes) /\ v = CodeSize
        BY DEF CodeSize
      <4>2. p + z <= q /\ 8 + q <= v
        BY <1>4, <1>6, <4>1
      <4>3. ~(1 + p > q) /\ ~((1 + p) + 7 >= v)
        BY <4>2
      <4> QED
        BY <4>1, <4>3
    <3> QED
      BY <1>3, <1>4, <3>1, <3>2
  <2>2. ReadOldChunk(c, s) =
           IF c.bytes[s.i] >= 60
           THEN [i |-> s.i + 2,
                 text |-> IF Len(s.text) >= (c.bytes[s.i] - 60) * 16 + (c.bytes[s.i + 1] % 16)
                          THEN CopyBack(s.text, (c.bytes[s.i] - 60) * 16 + (c.bytes[s.i + 1] % 16),
                                        c.bytes[s.i + 1] \div 16 + 2)
                          ELSE s.text]
           ELSE IF c.bytes[s.i] > 0 THEN [i |-> s.i + 1, text |-> Append(s.text, DecompressLut[c.bytes[s.i]])]
           ELSE [i |-> s.i + 2, text |-> Append(s.text, c.bytes[s.i + 1])]
    BY <2>1 DEF ReadOldChunk
  <2> QED
    BY <1>3, <1>4, <1>5, <2>2
<1> DEFINE next == [i |-> 1 + (p + z), text |-> SubSeq(seq, 1, j)]
<1>9. ASSUME NEW k \in 1 .. 59, piece = <<k>>, DecompressLut[k] = seq[i + 1], j = i + 1
      PROVE  ReadOldChunk(c, s) = next
  <2>1. a = k /\ z = 1 /\ ~(a >= 60) /\ a > 0
    BY <1>6, <1>7, <1>9
  <2>2. ReadOldChunk(c, s) = [i |-> (1 + p) + 1, text |-> Append(before, DecompressLut[a])]
    BY <1>8, <2>1
  <2>3. (1 + p) + 1 = 1 + (p + z)
    BY <2>1
  <2> QED
    BY <1>2, <1>9, <2>1, <2>2, <2>3
<1>10. ASSUME NEW back \in Nat, NEW len \in Nat, IsOldCopy(seq, i, back, len), j = i + len,
              piece = <<60 + back \div 16, (back % 16) + (len - 2) * 16>>
       PROVE  ReadOldChunk(c, s) = next
  <2>1. /\ back \in 1 .. i /\ len \in 2 .. 17 /\ i + len <= Len(seq)
        /\ \A h \in 1 .. len : seq[i + h] = seq[(i - back) + h]
    BY <1>10 DEF IsOldCopy
  <2>2. PICK x \in Nat, y \in 0 .. 15 : x = back \div 16 /\ y = back % 16 /\ back = x * 16 + y
    <3>1. back \div 16 \in Nat /\ back % 16 \in 0 .. 15 /\ back = (back \div 16) * 16 + (back % 16)
      BY OldNumbers
    <3> QED
      BY <3>1
  <2>3. PICK l \in 0 .. 15 : l = len - 2
    BY <2>1
  <2>4. z = 2 /\ a = 60 + x /\ b = y + l * 16
    BY <1>6, <1>7, <1>10, <2>2, <2>3
  <2>5. a >= 60 /\ b % 16 = y /\ b \div 16 = l
    <3>1. (y + l * 16) % 16 = y /\ (y + l * 16) \div 16 = l
      BY OldNumbers
    <3>2. 60 + x >= 60
      OBVIOUS
    <3> QED
      BY <2>4, <3>1, <3>2
  <2>6. (a - 60) * 16 + (b % 16) = back /\ b \div 16 + 2 = len
    BY <2>2, <2>3, <2>4, <2>5
  <2>7. ReadOldChunk(c, s) =
          [i |-> (1 + p) + 2, text |-> IF Len(before) >= back THEN CopyBack(before, back, len) ELSE before]
    BY <1>8, <2>5, <2>6
  <2>8. Len(before) >= back
    BY <1>1, <2>1
  <2>9. CopyBack(before, back, len) = SubSeq(seq, 1, i + len)
    <3>1. i \in 0 .. Len(seq)
      OBVIOUS
    <3> QED
      BY <2>1, <3>1, CopyIsRead DEF before
  <2>10. (1 + p) + 2 = 1 + (p + z)
    BY <2>4
  <2> QED
    BY <1>10, <2>7, <2>8, <2>9, <2>10
<1>11. ASSUME piece = <<0, seq[i + 1]>>, j = i + 1
       PROVE  ReadOldChunk(c, s) = next
  <2>1. a = 0 /\ z = 2 /\ b = seq[i + 1] /\ ~(a >= 60) /\ ~(a > 0)
    BY <1>6, <1>7, <1>11
  <2>2. ReadOldChunk(c, s) = [i |-> (1 + p) + 2, text |-> Append(before, b)]
    BY <1>8, <2>1
  <2>3. (1 + p) + 2 = 1 + (p + z)
    BY <2>1
  <2> QED
    BY <1>2, <1>11, <2>1, <2>2, <2>3
<1> HIDE DEF next
<1>12. ReadOldChunk(c, s) = next
  BY <1>9, <1>10, <1>11 DEF IsOldPiece
<1> QED
  BY <1>6, <1>12 DEF s, before, next

\* The rounds of writing the older format, and of reading it.
IsOldWritten(g, seq, n) ==
    g = [k \in 0 .. n |-> IF k = 0 THEN [i |-> 0, bytes |-> << >>] ELSE OldChunk(seq, g[k - 1])]

LEMMA OldWrittenExists == ASSUME NEW seq, NEW n \in Nat PROVE \E g : IsOldWritten(g, seq, n)
<1> DEFINE S == {m \in Nat : \E g : IsOldWritten(g, seq, m)}
<1>1. 0 \in S
  <2> DEFINE g == [k \in 0 .. 0 |-> [i |-> 0, bytes |-> << >>]]
  <2>1. \A k \in 0 .. 0 : k = 0
    OBVIOUS
  <2>2. g = [k \in 0 .. 0 |-> IF k = 0 THEN [i |-> 0, bytes |-> << >>] ELSE OldChunk(seq, g[k - 1])]
    BY <2>1
  <2> QED
    BY <2>2 DEF IsOldWritten
<1>2. ASSUME NEW m \in Nat, m \in S PROVE m + 1 \in S
  <2>1. PICK g : IsOldWritten(g, seq, m)
    BY <1>2
  <2> DEFINE h == [k \in 0 .. m + 1 |-> IF k = m + 1 THEN OldChunk(seq, g[m]) ELSE g[k]]
  <2>2. \A k \in 0 .. m : g[k] = IF k = 0 THEN [i |-> 0, bytes |-> << >>] ELSE OldChunk(seq, g[k - 1])
    BY <2>1 DEF IsOldWritten
  <2>3. \A k \in 0 .. m + 1 : h[k] = IF k = 0 THEN [i |-> 0, bytes |-> << >>] ELSE OldChunk(seq, h[k - 1])
    <3> TAKE k \in 0 .. m + 1
    <3>1. CASE k = m + 1
      <4>1. k - 1 = m /\ k # 0 /\ h[m] = g[m]
        BY <3>1
      <4> QED
        BY <3>1, <4>1
    <3>2. CASE k # m + 1
      <4>1. k \in 0 .. m /\ h[k] = g[k] /\ (k # 0 => h[k - 1] = g[k - 1])
        BY <3>2
      <4> QED
        BY <2>2, <4>1
    <3> QED
      BY <3>1, <3>2
  <2>4. h = [k \in 0 .. m + 1 |-> h[k]]
    OBVIOUS
  <2> HIDE DEF h
  <2>5. IsOldWritten(h, seq, m + 1)
    BY <2>3, <2>4 DEF IsOldWritten
  <2> QED
    BY <2>5
<1>3. Nat \subseteq S
  <2> HIDE DEF S
  <2> QED
    BY <1>1, <1>2, Counting
<1> QED
  BY <1>3

IsOldRead(g, c, n) ==
    g = [k \in 0 .. n |-> IF k = 0 THEN [i |-> 1, text |-> << >>] ELSE ReadOldChunk(c, g[k - 1])]

LEMMA OldReadExists == ASSUME NEW c, NEW n \in Nat PROVE \E g : IsOldRead(g, c, n)
<1> DEFINE S == {m \in Nat : \E g : IsOldRead(g, c, m)}
<1>1. 0 \in S
  <2> DEFINE g == [k \in 0 .. 0 |-> [i |-> 1, text |-> << >>]]
  <2>1. \A k \in 0 .. 0 : k = 0
    OBVIOUS
  <2>2. g = [k \in 0 .. 0 |-> IF k = 0 THEN [i |-> 1, text |-> << >>] ELSE ReadOldChunk(c, g[k - 1])]
    BY <2>1
  <2> QED
    BY <2>2 DEF IsOldRead
<1>2. ASSUME NEW m \in Nat, m \in S PROVE m + 1 \in S
  <2>1. PICK g : IsOldRead(g, c, m)
    BY <1>2
  <2> DEFINE h == [k \in 0 .. m + 1 |-> IF k = m + 1 THEN ReadOldChunk(c, g[m]) ELSE g[k]]
  <2>2. \A k \in 0 .. m : g[k] = IF k = 0 THEN [i |-> 1, text |-> << >>] ELSE ReadOldChunk(c, g[k - 1])
    BY <2>1 DEF IsOldRead
  <2>3. \A k \in 0 .. m + 1 : h[k] = IF k = 0 THEN [i |-> 1, text |-> << >>] ELSE ReadOldChunk(c, h[k - 1])
    <3> TAKE k \in 0 .. m + 1
    <3>1. CASE k = m + 1
      <4>1. k - 1 = m /\ k # 0 /\ h[m] = g[m]
        BY <3>1
      <4> QED
        BY <3>1, <4>1
    <3>2. CASE k # m + 1
      <4>1. k \in 0 .. m /\ h[k] = g[k] /\ (k # 0 => h[k - 1] = g[k - 1])
        BY <3>2
      <4> QED
        BY <2>2, <4>1
    <3> QED
      BY <3>1, <3>2
  <2>4. h = [k \in 0 .. m + 1 |-> h[k]]
    OBVIOUS
  <2> HIDE DEF h
  <2>5. IsOldRead(h, c, m + 1)
    BY <2>3, <2>4 DEF IsOldRead
  <2> QED
    BY <2>5
<1>3. Nat \subseteq S
  <2> HIDE DEF S
  <2> QED
    BY <1>1, <1>2, Counting
<1> QED
  BY <1>3

LEMMA OldWrittenIs ==
  ASSUME NEW seq, NEW n \in Nat, n = Len(seq)
  PROVE  IsOldWritten(OldWritten(seq), seq, n)
<1>1. \E g : IsOldWritten(g, seq, n)
  BY OldWrittenExists
<1> DEFINE round == CHOOSE g : g = [k \in 0 .. n |-> IF k = 0 THEN [i |-> 0, bytes |-> << >>]
       ELSE OldChunk(seq, g[k - 1])]
<1>2. OldWritten(seq) = round
  BY DEF OldWritten
<1>3. round = CHOOSE g : IsOldWritten(g, seq, n)
  BY Zenon DEF IsOldWritten
<1> HIDE DEF round
<1> QED
  BY <1>1, <1>2, <1>3

LEMMA OldReadIs ==
  ASSUME NEW c, NEW n \in Nat, n = Len(c.bytes)
  PROVE  \E g : IsOldRead(g, c, n) /\ ReadOld(c) = WithoutJunk(CString(g[n].text))
<1>1. \E g : IsOldRead(g, c, n)
  BY OldReadExists
<1> DEFINE round == CHOOSE g : g = [k \in 0 .. n |-> IF k = 0 THEN [i |-> 1, text |-> << >>]
       ELSE ReadOldChunk(c, g[k - 1])]
<1>2. ReadOld(c) = WithoutJunk(CString(round[n].text))
  BY DEF ReadOld
<1>3. round = CHOOSE g : IsOldRead(g, c, n)
  BY Zenon DEF IsOldRead
<1> HIDE DEF round
<1> QED
  BY <1>1, <1>2, <1>3

\* Each round takes a byte of the text or more, and only adds to what is written.
IsOldState(seq, e) == e.i \in 0 .. Len(seq) /\ e.bytes \in Seq(Nat)

\* The older compressor goes on through the text,
LEMMA OldStates ==
  ASSUME NEW seq \in Seq(Char), NEW e, IsOldWritten(e, seq, Len(seq))
  PROVE  \A k \in 0 .. Len(seq) : IsOldState(seq, e[k]) /\ e[k].i >= k
<1>1. PICK n \in Nat : n = Len(seq)
  OBVIOUS
<1>2. \A k \in 0 .. n : e[k] = IF k = 0 THEN [i |-> 0, bytes |-> << >>] ELSE OldChunk(seq, e[k - 1])
  BY <1>1 DEF IsOldWritten
<1> DEFINE Good == {k \in Nat : k <= n => IsOldState(seq, e[k]) /\ e[k].i >= k}
<1>3. 0 \in Good
  <2>1. e[0] = [i |-> 0, bytes |-> << >>]
    BY <1>2
  <2>2. e[0].i = 0 /\ e[0].bytes = << >> /\ << >> \in Seq(Nat) /\ 0 \in 0 .. Len(seq)
    BY <1>1, <2>1
  <2>3. e[0].i \in 0 .. Len(seq) /\ e[0].bytes \in Seq(Nat) /\ e[0].i >= 0
    BY <2>2
  <2> QED
    BY <2>3 DEF IsOldState
<1>4. ASSUME NEW k \in Nat, k \in Good PROVE k + 1 \in Good
  <2> SUFFICES ASSUME k + 1 <= n PROVE IsOldState(seq, e[k + 1]) /\ e[k + 1].i >= k + 1
    OBVIOUS
  <2>1. PICK d : d = e[k]
    OBVIOUS
  <2>2. PICK i \in 0 .. n : i = d.i /\ i >= k
    BY <1>1, <1>4, <2>1 DEF IsOldState
  <2>3. d.bytes \in Seq(Nat) /\ IsOldState(seq, d)
    BY <1>4, <2>1 DEF IsOldState
  <2>4. e[k + 1] = OldChunk(seq, d)
    <3>1. k + 1 \in 0 .. n /\ k + 1 # 0 /\ (k + 1) - 1 = k
      OBVIOUS
    <3> QED
      BY <1>2, <2>1, <3>1
  <2>5. CASE i = n
    <3>1. OldChunk(seq, d) = d
      BY <1>1, <2>2, <2>5 DEF OldChunk
    <3>2. i >= k + 1
      BY <2>5
    <3> QED
      BY <2>2, <2>3, <2>4, <3>1, <3>2
  <2>6. CASE i # n
    <3>1. d.i \in 0 .. Len(seq) - 1
      BY <1>1, <2>2, <2>6
    <3>2. PICK piece : IsOldRound(seq, d, OldChunk(seq, d), piece)
      BY <2>3, <3>1, OldChunkIs
    <3>3. piece \in Seq(Nat) /\ OldChunk(seq, d).i \in i + 1 .. n
             /\ OldChunk(seq, d).bytes = d.bytes \o piece
      BY <1>1, <2>2, <3>2 DEF IsOldRound
    <3>4. d.bytes \o piece \in Seq(Nat)
      <4>1. PICK a \in Seq(Nat) : a = d.bytes
        BY <2>3
      <4>2. a \o piece \in Seq(Nat)
        BY <3>3
      <4> QED
        BY <4>1, <4>2
    <3>5. OldChunk(seq, d).i \in 0 .. n /\ OldChunk(seq, d).i >= k + 1
      BY <2>2, <3>3
    <3> QED
      BY <1>1, <2>4, <3>3, <3>4, <3>5 DEF IsOldState
  <2> QED
    BY <2>5, <2>6
<1>5. Nat \subseteq Good
  <2> HIDE DEF Good
  <2> QED
    BY <1>3, <1>4, Counting
<1>6. ASSUME NEW k \in 0 .. n PROVE IsOldState(seq, e[k]) /\ e[k].i >= k
  <2>1. k \in Good
    BY <1>5
  <2> QED
    BY <2>1
<1> QED
  BY <1>1, <1>6

Begins(bytes, part) == Len(part) <= Len(bytes) /\ \A k \in 1 .. Len(part) : bytes[k] = part[k]

HasReadOld(g, seq, e) ==
    \E r \in Nat : r <= Len(e.bytes) /\ g[r] = [i |-> 1 + Len(e.bytes), text |-> SubSeq(seq, 1, e.i)]

\* A round of the reading undoes a round of the writing.
LEMMA OldRoundIsRead ==
  ASSUME NEW seq \in Seq(Char), NEW e, IsOldState(seq, e), e.i < Len(seq),
         NEW c, IsOldStream(c, seq), Begins(c.bytes, OldChunk(seq, e).bytes)
  PROVE  LET f == OldChunk(seq, e)
         IN  /\ Begins(c.bytes, e.bytes) /\ Len(e.bytes) + 1 <= Len(f.bytes)
             /\ ReadOldChunk(c, [i |-> 1 + Len(e.bytes), text |-> SubSeq(seq, 1, e.i)]) =
                   [i |-> 1 + Len(f.bytes), text |-> SubSeq(seq, 1, f.i)]
<1> DEFINE f == OldChunk(seq, e)
<1>1. PICK i \in 0 .. Len(seq) - 1 : i = e.i
  BY DEF IsOldState
<1>2. PICK a \in Seq(Nat) : a = e.bytes
  BY DEF IsOldState
<1>3. PICK piece : IsOldRound(seq, e, f, piece)
  BY <1>1, <1>2, OldChunkIs
<1>0. Begins(c.bytes, f.bytes)
  OBVIOUS
<1> HIDE DEF f
<1>4. /\ piece \in Seq(Nat) /\ Len(piece) \in 1 .. 2 /\ f.i \in i + 1 .. Len(seq)
      /\ f.bytes = a \o piece /\ IsOldPiece(seq, i, f.i, piece)
  BY <1>1, <1>2, <1>3 DEF IsOldRound
<1>5. PICK bytes \in Seq(Nat) : bytes = c.bytes
  BY DEF IsOldStream
<1>6. PICK p \in Nat, z \in 1 .. 2 : p = Len(a) /\ z = Len(piece)
  BY <1>4
<1>7. /\ Len(a \o piece) = p + z
      /\ \A k \in 1 .. p : (a \o piece)[k] = a[k]
      /\ \A k \in 1 .. z : (a \o piece)[p + k] = piece[k]
  <2>1. piece \in Seq(Nat)
    BY <1>4
  <2>2. /\ Len(a \o piece) = Len(a) + Len(piece)
        /\ \A k \in 1 .. Len(a) : (a \o piece)[k] = a[k]
        /\ \A k \in 1 .. Len(piece) : (a \o piece)[Len(a) + k] = piece[k]
    BY <2>1, JoinedSequences
  <2> QED
    BY <1>6, <2>2
<1>8. p + z <= Len(bytes) /\ \A k \in 1 .. p + z : bytes[k] = (a \o piece)[k]
  BY <1>0, <1>4, <1>5, <1>7 DEF Begins
<1>9. Begins(c.bytes, e.bytes)
  <2>1. p <= Len(bytes)
    BY <1>8
  <2>2. \A k \in 1 .. p : k \in 1 .. p + z
    OBVIOUS
  <2>3. \A k \in 1 .. p : bytes[k] = a[k]
    BY <1>7, <1>8, <2>2
  <2> QED
    BY <1>2, <1>5, <1>6, <2>1, <2>3 DEF Begins
<1>10. \A k \in 1 .. Len(piece) : c.bytes[p + k] = piece[k]
  <2>1. \A k \in 1 .. z : p + k \in 1 .. p + z
    OBVIOUS
  <2> QED
    BY <1>5, <1>6, <1>7, <1>8, <2>1
<1>11. PICK j \in i + 1 .. Len(seq) : j = f.i
  BY <1>4
<1>12. ReadOldChunk(c, [i |-> 1 + p, text |-> SubSeq(seq, 1, i)]) =
          [i |-> 1 + (p + Len(piece)), text |-> SubSeq(seq, 1, j)]
  <2>1. p + Len(piece) <= Len(c.bytes) /\ IsOldPiece(seq, i, j, piece)
    BY <1>4, <1>5, <1>6, <1>8, <1>11
  <2> QED
    BY <1>4, <1>10, <2>1, OldPieceIsRead, ZenonT(60)
<1>13. p + Len(piece) = Len(f.bytes)
  BY <1>4, <1>6, <1>7
<1>14. Len(e.bytes) + 1 <= Len(f.bytes)
  BY <1>2, <1>4, <1>6, <1>7
<1>15. ReadOldChunk(c, [i |-> 1 + Len(e.bytes), text |-> SubSeq(seq, 1, e.i)]) =
          [i |-> 1 + Len(f.bytes), text |-> SubSeq(seq, 1, f.i)]
  BY <1>1, <1>2, <1>6, <1>11, <1>12, <1>13
<1> QED
  BY <1>9, <1>14, <1>15 DEF f

\* and each of its rounds is read in one round of the reader.
LEMMA OldPathIsRead ==
  ASSUME NEW seq \in Seq(Char), NEW e, IsOldWritten(e, seq, Len(seq)),
         NEW c, IsOldStream(c, seq), NEW g, IsOldRead(g, c, Len(c.bytes))
  PROVE  \A k \in 0 .. Len(seq) : Begins(c.bytes, e[k].bytes) => HasReadOld(g, seq, e[k])
<1>1. PICK n \in Nat : n = Len(seq)
  OBVIOUS
<1>2. PICK rounds \in Nat : rounds = Len(c.bytes)
  BY DEF IsOldStream
<1>3. \A k \in 0 .. n : e[k] = IF k = 0 THEN [i |-> 0, bytes |-> << >>] ELSE OldChunk(seq, e[k - 1])
  BY <1>1 DEF IsOldWritten
<1>4. \A k \in 0 .. rounds : g[k] = IF k = 0 THEN [i |-> 1, text |-> << >>] ELSE ReadOldChunk(c, g[k - 1])
  BY <1>2 DEF IsOldRead
<1> DEFINE Good == {k \in Nat : k <= n => (Begins(c.bytes, e[k].bytes) => HasReadOld(g, seq, e[k]))}
<1>5. 0 \in Good
  <2>1. e[0] = [i |-> 0, bytes |-> << >>] /\ g[0] = [i |-> 1, text |-> << >>]
    BY <1>3, <1>4
  <2>2. e[0].i = 0 /\ Len(e[0].bytes) = 0 /\ SubSeq(seq, 1, 0) = << >> /\ 1 + 0 = 1
    BY <2>1
  <2>3. 0 <= Len(e[0].bytes) /\ g[0] = [i |-> 1 + Len(e[0].bytes), text |-> SubSeq(seq, 1, e[0].i)]
           /\ 0 \in Nat
    BY <2>1, <2>2
  <2>4. HasReadOld(g, seq, e[0])
    BY <2>3, Zenon DEF HasReadOld
  <2> QED
    BY <2>4
<1>6. ASSUME NEW k \in Nat, k \in Good PROVE k + 1 \in Good
  <2> SUFFICES ASSUME k + 1 <= n, Begins(c.bytes, e[k + 1].bytes) PROVE HasReadOld(g, seq, e[k + 1])
    OBVIOUS
  <2>1. PICK d : d = e[k]
    OBVIOUS
  <2>2. e[k + 1] = OldChunk(seq, d)
    <3>1. k + 1 \in 0 .. n /\ k + 1 # 0 /\ (k + 1) - 1 = k
      OBVIOUS
    <3> QED
      BY <1>3, <2>1, <3>1
  <2>3. k \in 0 .. Len(seq) /\ k <= n
    BY <1>1
  <2>4. IsOldState(seq, d)
    BY <2>1, <2>3, OldStates
  <2>5. Begins(c.bytes, d.bytes) => HasReadOld(g, seq, d)
    BY <1>6, <2>1, <2>3
  <2>6. PICK i \in 0 .. Len(seq) : i = d.i
    BY <2>4 DEF IsOldState
  <2>7. CASE i = Len(seq)
    <3>1. OldChunk(seq, d) = d
      BY <2>6, <2>7 DEF OldChunk
    <3> QED
      BY <2>2, <2>5, <3>1
  <2>8. CASE i # Len(seq)
    <3> DEFINE f == OldChunk(seq, d)
    <3>1. d.i < Len(seq)
      BY <2>6, <2>8
    <3>2. Begins(c.bytes, f.bytes)
      BY <2>2
    <3>3. /\ Begins(c.bytes, d.bytes) /\ Len(d.bytes) + 1 <= Len(f.bytes)
          /\ ReadOldChunk(c, [i |-> 1 + Len(d.bytes), text |-> SubSeq(seq, 1, d.i)]) =
                   [i |-> 1 + Len(f.bytes), text |-> SubSeq(seq, 1, f.i)]
      BY <2>4, <3>1, <3>2, OldRoundIsRead
    <3> HIDE DEF f
    <3>4. PICK r \in Nat : r <= Len(d.bytes)
             /\ g[r] = [i |-> 1 + Len(d.bytes), text |-> SubSeq(seq, 1, d.i)]
      BY <2>5, <3>3 DEF HasReadOld
    <3>5. r + 1 <= Len(f.bytes) /\ r + 1 \in 0 .. rounds /\ r + 1 # 0 /\ (r + 1) - 1 = r
      <4>1. Len(f.bytes) <= rounds
        BY <1>2, <3>2 DEF Begins
      <4>2. Len(d.bytes) \in Nat /\ Len(f.bytes) \in Nat
        <5>1. k + 1 \in 0 .. Len(seq)
          BY <1>1
        <5>2. IsOldState(seq, e[k + 1])
          BY <5>1, OldStates
        <5>3. f.bytes \in Seq(Nat) /\ d.bytes \in Seq(Nat)
          BY <2>2, <2>4, <5>2 DEF IsOldState, f
        <5> QED
          BY <5>3
      <4>3. PICK x \in Nat, y \in Nat : x = Len(d.bytes) /\ y = Len(f.bytes)
        BY <4>2
      <4>4. r <= x /\ x + 1 <= y /\ y <= rounds
        BY <3>3, <3>4, <4>1, <4>3
      <4> QED
        BY <4>3, <4>4
    <3>6. g[r + 1] = ReadOldChunk(c, g[r])
      BY <1>4, <3>5
    <3>7. g[r + 1] = [i |-> 1 + Len(f.bytes), text |-> SubSeq(seq, 1, f.i)]
      BY <3>3, <3>4, <3>6
    <3>8. r + 1 \in Nat
      OBVIOUS
    <3>9. HasReadOld(g, seq, f)
      BY <3>5, <3>7, <3>8, Zenon DEF HasReadOld
    <3> QED
      BY <2>2, <3>9 DEF f
  <2> QED
    BY <2>7, <2>8
<1>7. Nat \subseteq Good
  <2> HIDE DEF Good
  <2> QED
    BY <1>5, <1>6, Counting
<1>8. ASSUME NEW k \in 0 .. n PROVE Begins(c.bytes, e[k].bytes) => HasReadOld(g, seq, e[k])
  <2>1. k \in Good
    BY <1>7
  <2> QED
    BY <2>1
<1> QED
  BY <1>1, <1>8

\* What it wrote of a whole text is read as that text.
LEMMA OldStreamIsRead ==
  ASSUME NEW seq \in Seq(Char), NEW c, IsOldStream(c, seq), c.bytes = OldWritten(seq)[Len(seq)].bytes
  PROVE  ReadOld(c) = WithoutJunk(CString(seq))
<1>1. PICK n \in Nat : n = Len(seq)
  OBVIOUS
<1>2. PICK e : e = OldWritten(seq) /\ IsOldWritten(e, seq, Len(seq))
  BY <1>1, OldWrittenIs
<1>3. PICK rounds \in Nat : rounds = Len(c.bytes)
  BY DEF IsOldStream
<1>4. PICK g : IsOldRead(g, c, rounds) /\ ReadOld(c) = WithoutJunk(CString(g[rounds].text))
  BY <1>3, OldReadIs
<1>5. PICK final : final = e[n]
  OBVIOUS
<1>6. IsOldState(seq, final) /\ final.i >= n
  BY <1>1, <1>2, <1>5, OldStates
<1>7. final.i = n /\ final.bytes = c.bytes
  BY <1>1, <1>2, <1>5, <1>6 DEF IsOldState
<1>8. Begins(c.bytes, final.bytes)
  BY <1>3, <1>7 DEF Begins
<1>9. HasReadOld(g, seq, final)
  <2>1. IsOldRead(g, c, Len(c.bytes)) /\ n \in 0 .. Len(seq)
    BY <1>1, <1>3, <1>4
  <2>2. Begins(c.bytes, e[n].bytes) => HasReadOld(g, seq, e[n])
    BY <1>2, <2>1, OldPathIsRead
  <2> QED
    BY <1>5, <1>8, <2>2
<1>10. PICK r \in Nat : r <= rounds /\ g[r] = [i |-> 1 + rounds, text |-> SubSeq(seq, 1, n)]
  BY <1>3, <1>7, <1>9 DEF HasReadOld
<1>11. SubSeq(seq, 1, n) = seq
  BY <1>1
<1> DEFINE end == g[r]
<1>12. end.text = seq
  BY <1>10, <1>11
<1> HIDE DEF end
<1>13. ReadOldChunk(c, end) = end
  <2>1. Len(end.text) >= c.length
    BY <1>1, <1>12 DEF IsOldStream
  <2> QED
    BY <2>1 DEF ReadOldChunk
<1>14. \A k \in 1 .. rounds : g[k] = ReadOldChunk(c, g[k - 1])
  BY <1>4 DEF IsOldRead
<1> DEFINE Good == {k \in Nat : r + k <= rounds => g[r + k] = end}
<1>15. 0 \in Good
  <2>1. r + 0 = r
    OBVIOUS
  <2> QED
    BY <2>1 DEF end
<1>16. ASSUME NEW k \in Nat, k \in Good PROVE k + 1 \in Good
  <2> SUFFICES ASSUME r + (k + 1) <= rounds PROVE g[r + (k + 1)] = end
    OBVIOUS
  <2>1. r + (k + 1) \in 1 .. rounds /\ (r + (k + 1)) - 1 = r + k /\ r + k <= rounds
    OBVIOUS
  <2>2. g[r + k] = end
    BY <1>16, <2>1
  <2>3. g[r + (k + 1)] = ReadOldChunk(c, g[r + k])
    BY <1>14, <2>1
  <2> QED
    BY <1>13, <2>2, <2>3
<1>17. Nat \subseteq Good
  <2> HIDE DEF Good
  <2> QED
    BY <1>15, <1>16, Counting
<1>18. g[rounds] = end
  <2>1. rounds - r \in Nat /\ r + (rounds - r) = rounds
    BY <1>10
  <2>2. rounds - r \in Good
    BY <1>17, <2>1
  <2> QED
    BY <2>1, <2>2
<1> QED
  BY <1>4, <1>12, <1>18

-----------------------------------------------------------------------------
(* What is read is what was written.                                       *)

LEMMA WiderSequence ==
  ASSUME NEW A, NEW B, A \subseteq B, NEW seq \in Seq(A)
  PROVE  seq \in Seq(B)
  OBVIOUS

\* A text is bytes.
LEMMA TextIsNumbers == ASSUME NEW seq \in Seq(Char) PROVE seq \in Seq(Nat)
<1>1. Char \subseteq Nat
  BY CharIs
<1> QED
  BY <1>1, WiderSequence

\* A text has no NUL.
LEMMA TextIsCString ==
  ASSUME NEW seq \in Seq(Char)
  PROVE  CString(seq) = seq
<1>1. \A k \in DOMAIN seq : seq[k] # 0
  <2> TAKE k \in DOMAIN seq
  <2>1. seq[k] \in Char
    OBVIOUS
  <2> QED
    BY <2>1, CharIs
<1>2. {k \in DOMAIN seq : seq[k] = 0} = {}
  BY <1>1
<1> QED
  BY <1>2 DEF CString

\* The older format of a text that fits a cart is read as that text, without its junk.
LEMMA OldTextIsRead ==
  ASSUME NEW seq \in Seq(Char), IsShort(seq), LegacyCompress(seq).size <= CodeSize
  PROVE  Decompress(LegacyCompress(seq)) = WithoutJunk(seq)
<1>1. PICK bytes : bytes = OldWritten(seq)[Len(seq)].bytes
  OBVIOUS
<1>2. PICK c : c = LegacyCompress(seq)
  OBVIOUS
<1>3. c = [format |-> "legacy", length |-> Len(seq) % 65536, size |-> 8 + Len(bytes), bytes |-> bytes]
  BY <1>1, <1>2 DEF LegacyCompress
<1>4. /\ c.format = "legacy" /\ c.length = Len(seq) % 65536 /\ c.size = 8 + Len(bytes) /\ c.bytes = bytes
      /\ c.size <= CodeSize
  BY <1>2, <1>3
<1>5. bytes \in Seq(Nat)
  <2>1. PICK n \in Nat : n = Len(seq)
    OBVIOUS
  <2>2. IsOldWritten(OldWritten(seq), seq, Len(seq))
    BY <2>1, OldWrittenIs
  <2>3. n \in 0 .. Len(seq)
    BY <2>1
  <2>4. IsOldState(seq, OldWritten(seq)[n])
    BY <2>2, <2>3, OldStates
  <2> QED
    BY <1>1, <2>1, <2>4 DEF IsOldState
<1>6. c.length = Len(seq)
  <2>1. Len(seq) \in Nat /\ Len(seq) < 65536
    BY DEF IsShort, Shift
  <2> QED
    BY <1>4, <2>1
<1>7. IsOldStream(c, seq)
  BY <1>4, <1>5, <1>6 DEF IsOldStream
<1>8. ReadOld(c) = WithoutJunk(CString(seq))
  BY <1>1, <1>4, <1>7, OldStreamIsRead
<1>9. Decompress(c) = ReadOld(c)
  BY <1>4 DEF Decompress
<1> QED
  BY <1>2, <1>8, <1>9, TextIsCString

\* A text as it is ends before its NUL.
LEMMA PlainTextIsRead ==
  ASSUME NEW seq \in Seq(Char), AsItIs(seq).size <= CodeSize
  PROVE  Decompress(AsItIs(seq)) = seq
<1>1. PICK n \in Nat : n = Len(seq)
  OBVIOUS
<1>2. PICK bytes : bytes = Append(seq, 0)
  OBVIOUS
<1>3. /\ bytes \in Seq(Nat) /\ Len(bytes) = n + 1 /\ bytes[n + 1] = 0
      /\ \A k \in 1 .. n : bytes[k] = seq[k]
  <2>1. seq \in Seq(Nat)
    BY TextIsNumbers
  <2> QED
    BY <1>1, <1>2, <2>1
<1>4. \A k \in 1 .. n : bytes[k] # 0
  <2> TAKE k \in 1 .. n
  <2>1. seq[k] \in Char
    BY <1>1
  <2> QED
    BY <1>3, <2>1, CharIs
<1>5. {k \in DOMAIN bytes : bytes[k] = 0} = {n + 1}
  <2>1. DOMAIN bytes = 1 .. n + 1
    BY <1>3
  <2>2. \A k \in 1 .. n + 1 : k = n + 1 \/ k \in 1 .. n
    OBVIOUS
  <2>3. n + 1 \in 1 .. n + 1
    OBVIOUS
  <2> QED
    BY <1>3, <1>4, <2>1, <2>2, <2>3
<1>6. Min({n + 1}) = n + 1
  BY DEF Min
<1>7. CString(bytes) = SubSeq(bytes, 1, n)
  <2>1. {n + 1} # {} /\ (n + 1) - 1 = n
    OBVIOUS
  <2> QED
    BY <1>5, <1>6, <2>1 DEF CString
<1>8. SubSeq(bytes, 1, n) = seq
  <2> DEFINE part == SubSeq(bytes, 1, n)
  <2>1. part \in Seq(Nat) /\ Len(part) = n /\ \A k \in 1 .. n : part[k] = bytes[k]
    BY <1>3
  <2> HIDE DEF part
  <2>2. seq \in Seq(Nat) /\ \A k \in 1 .. n : part[k] = seq[k]
    BY <1>3, <2>1, TextIsNumbers
  <2>3. part = seq
    BY <1>1, <2>1, <2>2
  <2> QED
    BY <2>3 DEF part
<1>9. Shorter(n, CodeSize) = n
  <2>1. PICK v \in Nat : v = CodeSize
    BY DEF CodeSize
  <2>2. AsItIs(seq).size = n + 1
    BY <1>1 DEF AsItIs
  <2>3. n + 1 <= v
    BY <2>1, <2>2
  <2>4. Shorter(n, v) = n
    BY <2>3 DEF Shorter
  <2> QED
    BY <2>1, <2>4
<1>10. SubSeq(seq, 1, n) = seq
  BY <1>1
<1>11. AsItIs(seq).format = "store" /\ AsItIs(seq).bytes = bytes
  BY <1>2 DEF AsItIs
<1>12. Decompress(AsItIs(seq)) = SubSeq(CString(bytes), 1, Shorter(Len(CString(bytes)), CodeSize))
  BY <1>11 DEF Decompress
<1> QED
  BY <1>1, <1>7, <1>8, <1>9, <1>10, <1>12

\* Every text of a size the header can state is read as it was written, in each
\* format that fits the cart.
LEMMA TextRoundTrips ==
  ASSUME NEW seq \in Seq(Char), IsShort(seq), NEW c \in {PxaCompress(seq), LegacyCompress(seq), Best(seq)},
         c.size <= CodeSize
  PROVE  Decompress(c) = IF c.format = "legacy" THEN WithoutJunk(seq) ELSE seq
<1>1. PxaCompress(seq).format = "pxa" /\ LegacyCompress(seq).format = "legacy"
         /\ AsItIs(seq).format = "store"
  BY DEF PxaCompress, LegacyCompress, AsItIs
<1>2. c \in {PxaCompress(seq), LegacyCompress(seq), AsItIs(seq)}
  BY DEF Best
<1>3. CASE c = PxaCompress(seq)
  <2>1. Decompress(c) = seq /\ c.format # "legacy"
    BY <1>1, <1>3, PxaTextIsRead
  <2> QED
    BY <2>1
<1>4. CASE c = LegacyCompress(seq)
  <2>1. Decompress(c) = WithoutJunk(seq) /\ c.format = "legacy"
    BY <1>1, <1>4, OldTextIsRead
  <2> QED
    BY <2>1
<1>5. CASE c = AsItIs(seq)
  <2>1. Decompress(c) = seq /\ c.format # "legacy"
    BY <1>1, <1>5, PlainTextIsRead
  <2> QED
    BY <2>1
<1> QED
  BY <1>2, <1>3, <1>4, <1>5

\* What is saved is a text without NULs, no longer than the header can say.
IsText == text \in Seq(Char) /\ Len(text) <= MaxLength

\* The bounds of the model keep a text to what the header has room for.
LEMMA TextsAreShort == ASSUME IsText PROVE IsShort(text)
<1>1. Len(text) \in Nat /\ Len(text) <= MaxLength
  BY DEF IsText
<1>2. MaxLength \in Nat /\ MaxLength <= 65535
  BY CodecBounds, SMTT(30)
<1>3. Shift(16) = 65536
  BY DEF Shift
<1>4. Len(text) < 65536
  <2>1. PICK n \in Nat, m \in Nat : n = Len(text) /\ m = MaxLength
    BY <1>1, <1>2, SMT
  <2>2. n <= m /\ m <= 65535
    BY <1>1, <1>2, <2>1, SMT
  <2>3. n < 65536
    BY <2>2, SMT
  <2> QED
    BY <2>1, <2>3, SMT
<1> QED
  BY <1>1, <1>3, <1>4 DEF IsShort

\* Every text of a few words is one.
LEMMA TextsAreTexts == CodecSpec => []IsText
<1>1. CodecInit => IsText
  <2>1. MaxLength \in Nat
    BY CodecBounds, SMTT(30)
  <2>2. << >> \in Seq(Char) /\ Len(<< >>) = 0
    OBVIOUS
  <2> QED
    BY <2>1, <2>2 DEF CodecInit, IsText
<1>2. IsText /\ [CodecNext]_<<text, words>> => IsText'
  <2> SUFFICES ASSUME IsText, [CodecNext]_<<text, words>> PROVE IsText'
    OBVIOUS
  <2>1. ASSUME NEW w \in Words, Write(w) PROVE IsText'
    <3>1. w \in Seq(Char) /\ text \in Seq(Char)
      BY CodecWords, Zenon DEF IsText
    <3>2. text' = text \o w /\ Len(text \o w) <= MaxLength
      BY <2>1 DEF Write
    <3>3. text \o w \in Seq(Char)
      BY <3>1
    <3> QED
      BY <3>2, <3>3 DEF IsText
  <2>2. CASE UNCHANGED <<text, words>>
    BY <2>2 DEF IsText
  <2> QED
    BY <2>1, <2>2 DEF CodecNext
<1> QED
  BY <1>1, <1>2, PTL DEF CodecSpec

\* What the decompressor reads is what the compressors wrote, for every text (code.cpp).
THEOREM TextsRoundTrip == CodecSpec => []RoundTrip
<1>1. IsText => RoundTrip
  <2> SUFFICES ASSUME IsText PROVE RoundTrip
    OBVIOUS
  <2>1. text \in Seq(Char) /\ IsShort(text)
    BY TextsAreShort DEF IsText
  <2> SUFFICES ASSUME NEW c \in {PxaCompress(text), LegacyCompress(text), Best(text)}, c.size <= CodeSize
               PROVE  Decompress(c) = IF c.format = "legacy" THEN WithoutJunk(text) ELSE text
    BY DEF RoundTrip
  <2> QED
    BY <2>1, TextRoundTrips
<1> QED
  BY <1>1, TextsAreTexts, PTL

-----------------------------------------------------------------------------
(* The list of recent bytes, rolled back to the best way.                  *)

\* The first byte of a list moves back to place n.
TurnBack(seq, n) == (SubSeq(seq, 2, n + 1) \o <<seq[1]>>) \o SubSeq(seq, n + 2, Len(seq))

\* Moving an element back from the front undoes moving it there.
LEMMA TurnedBack ==
  ASSUME NEW S, NEW seq \in Seq(S), NEW n \in 0 .. Len(seq) - 1,
         NEW r \in Seq(S), Len(r) = Len(seq), r[1] = seq[n + 1],
         \A k \in 2 .. n + 1 : r[k] = seq[k - 1], \A k \in n + 2 .. Len(seq) : r[k] = seq[k]
  PROVE  TurnBack(r, n) = seq
<1> DEFINE a == SubSeq(r, 2, n + 1)
           b == <<r[1]>>
           c == SubSeq(r, n + 2, Len(r))
<1>0. PICK z \in Nat : z = Len(seq) /\ z = Len(r) /\ n \in 0 .. z - 1
  OBVIOUS
<1>1. a \in Seq(S) /\ Len(a) = n /\ \A k \in 1 .. n : a[k] = seq[k]
  <2>1. a \in Seq(S) /\ Len(a) = n /\ \A k \in 1 .. n : a[k] = r[k + 1]
    BY <1>0
  <2>2. \A k \in 1 .. n : k + 1 \in 2 .. n + 1 /\ (k + 1) - 1 = k
    OBVIOUS
  <2> HIDE DEF a
  <2> QED
    BY <2>1, <2>2
<1>2. b \in Seq(S) /\ Len(b) = 1 /\ b[1] = seq[n + 1]
  <2>1. r[1] \in S
    BY <1>0
  <2> QED
    BY <2>1
<1>3. c \in Seq(S) /\ Len(c) = z - (n + 1) /\ \A k \in 1 .. z - (n + 1) : c[k] = seq[n + 1 + k]
  <2>1. c \in Seq(S) /\ Len(c) = z - (n + 1) /\ \A k \in 1 .. z - (n + 1) : c[k] = r[n + 1 + k]
    <3>1. c = SubSeq(r, n + 2, z) /\ n + 2 \in 1 .. z + 1
      BY <1>0
    <3>2. SubSeq(r, n + 2, z) \in Seq(S) /\ Len(SubSeq(r, n + 2, z)) = z - (n + 1)
      BY <1>0, <3>1
    <3>3. \A k \in 1 .. z - (n + 1) : SubSeq(r, n + 2, z)[k] = r[n + 1 + k]
      BY <1>0, <3>1
    <3> QED
      BY <3>1, <3>2, <3>3, Zenon
  <2>2. \A k \in 1 .. z - (n + 1) : n + 1 + k \in n + 2 .. z
    BY <1>0
  <2> HIDE DEF c
  <2> QED
    BY <1>0, <2>1, <2>2
<1> HIDE DEF a, b, c
<1> DEFINE d == a \o b
<1>4. d \in Seq(S) /\ Len(d) = n + 1 /\ \A k \in 1 .. n + 1 : d[k] = seq[k]
  <2>1. /\ d \in Seq(S) /\ Len(d) = Len(a) + Len(b)
        /\ \A k \in 1 .. Len(a) : d[k] = a[k]
        /\ \A k \in 1 .. Len(b) : d[Len(a) + k] = b[k]
    <3>1. a \in Seq(S) /\ b \in Seq(S)
      BY <1>1, <1>2
    <3> QED
      BY <3>1, JoinedSequences
  <2> HIDE DEF d
  <2>2. d[n + 1] = seq[n + 1]
    <3>1. 1 \in 1 .. Len(b)
      BY <1>2
    <3> QED
      BY <1>1, <1>2, <2>1, <3>1
  <2>3. ASSUME NEW k \in 1 .. n + 1 PROVE d[k] = seq[k]
    <3>1. CASE k = n + 1
      BY <2>2, <3>1
    <3>2. CASE k # n + 1
      <4>1. k \in 1 .. n
        BY <3>2
      <4> QED
        BY <1>1, <2>1, <4>1
    <3> QED
      BY <3>1, <3>2
  <2> QED
    BY <1>1, <1>2, <2>1, <2>3
<1> DEFINE e == d \o c
<1>5. TurnBack(r, n) = e
  BY DEF TurnBack, a, b, c
<1> HIDE DEF d
<1>6. /\ e \in Seq(S) /\ Len(e) = Len(d) + Len(c)
      /\ \A k \in 1 .. Len(d) : e[k] = d[k]
      /\ \A k \in 1 .. Len(c) : e[Len(d) + k] = c[k]
  <2>1. d \in Seq(S) /\ c \in Seq(S)
    BY <1>3, <1>4
  <2> QED
    BY <2>1, JoinedSequences
<1> HIDE DEF e
<1>7. Len(e) = z
  BY <1>0, <1>3, <1>4, <1>6
<1>8. ASSUME NEW k \in 1 .. z PROVE e[k] = seq[k]
  <2>1. CASE k <= n + 1
    <3>1. k \in 1 .. n + 1
      BY <2>1
    <3> QED
      BY <1>4, <1>6, <3>1
  <2>2. CASE k > n + 1
    <3>1. PICK h \in 1 .. z - (n + 1) : k = n + 1 + h
      <4>1. k - (n + 1) \in 1 .. z - (n + 1) /\ k = n + 1 + (k - (n + 1))
        BY <1>0, <2>2
      <4> QED
        BY <4>1
    <3>2. h \in 1 .. Len(c) /\ Len(d) = n + 1
      BY <1>3, <1>4, <3>1
    <3>3. e[n + 1 + h] = c[h]
      BY <1>6, <3>2
    <3> QED
      BY <1>3, <3>1, <3>3
  <2> QED
    BY <2>1, <2>2
<1>9. e = seq
  BY <1>0, <1>6, <1>7, <1>8
<1> QED
  BY <1>5, <1>9

\* A list and the moves that made it, the last first.
IsMtf(m) == m = [list |-> m.list, ops |-> m.ops] /\ IsList(m.list) /\ m.ops \in Seq(Nat)

LEMMA FreshIsMtf == IsMtf(FreshMtf)
<1>1. FreshMtf = [list |-> FreshMtf.list, ops |-> FreshMtf.ops] /\ FreshMtf.ops = << >>
  BY DEF FreshMtf
<1>2. << >> \in Seq(Nat)
  OBVIOUS
<1> QED
  BY <1>1, <1>2, FreshIsList DEF IsMtf

\* A move keeps the list whole.
LEMMA PushIsMtf ==
  ASSUME NEW m, IsMtf(m), NEW b \in Octet
  PROVE  IsMtf(PushOp(m, b))
<1>1. IsList(m.list) /\ m.ops \in Seq(Nat)
  BY DEF IsMtf
<1>2. PICK n \in 0 .. 255 : n = Find(m.list, b) /\ IsList(Rotate(m.list, n))
  BY <1>1, FoundMovesToFront
<1>3. PushOp(m, b) = [list |-> Rotate(m.list, n), ops |-> <<n>> \o m.ops]
  BY <1>2 DEF PushOp
<1>4. <<n>> \o m.ops \in Seq(Nat)
  BY <1>1
<1> QED
  BY <1>2, <1>3, <1>4 DEF IsMtf

\* A move undone.
LEMMA PopUndoesPush ==
  ASSUME NEW m, IsMtf(m), NEW b \in Octet
  PROVE  PopOp(PushOp(m, b)) = m
<1>1. PICK list : list = m.list /\ IsList(list)
  BY DEF IsMtf
<1>2. PICK ops \in Seq(Nat) : ops = m.ops
  BY DEF IsMtf
<1>3. PICK n \in 0 .. Len(list) - 1 : n = Find(list, b)
  BY <1>1, FindIs, Zenon
<1>4. PICK r : r = Rotate(list, n)
  OBVIOUS
<1>5. PICK p : p = PushOp(m, b)
  OBVIOUS
<1>6. p = [list |-> r, ops |-> <<n>> \o ops]
  BY <1>1, <1>2, <1>3, <1>4, <1>5 DEF PushOp
<1>7. p.list = r /\ p.ops = <<n>> \o ops
  BY <1>6
<1>8. Head(p.ops) = n /\ Tail(p.ops) = ops
  <2>1. n \in Nat /\ ops \in Seq(Nat)
    OBVIOUS
  <2>2. Head(<<n>> \o ops) = n /\ Tail(<<n>> \o ops) = ops
    BY <2>1
  <2> QED
    BY <1>7, <2>2
<1>9. list \in Seq(Octet) /\ Len(list) = 256
  BY <1>1 DEF IsList
<1>10. /\ r \in Seq(Octet) /\ Len(r) = Len(list) /\ r[1] = list[n + 1]
       /\ \A k \in 2 .. n + 1 : r[k] = list[k - 1]
       /\ \A k \in n + 2 .. Len(list) : r[k] = list[k]
  BY <1>1, <1>4, Rotated, Zenon
<1>11. TurnBack(r, n) = list
  <2>1. list \in Seq(Octet)
    BY <1>9
  <2> QED
    BY <1>10, <2>1, TurnedBack, Zenon
<1>12. PopOp(p) = [list |-> (SubSeq(r, 2, n + 1) \o <<r[1]>>) \o SubSeq(r, n + 2, 256), ops |-> ops]
  BY <1>7, <1>8 DEF PopOp
<1>13. (SubSeq(r, 2, n + 1) \o <<r[1]>>) \o SubSeq(r, n + 2, 256) = TurnBack(r, n)
  BY <1>9, <1>10 DEF TurnBack
<1>14. PopOp(p) = [list |-> list, ops |-> ops]
  BY <1>11, <1>12, <1>13
<1> QED
  BY <1>1, <1>2, <1>5, <1>14 DEF IsMtf

\* Each of the first nodes has one before it.
HasPath(nodes, n) == \A j \in 1 .. n : nodes[j + 1].prev \in 0 .. j - 1

\* The list, and its moves, on the best way to each of the first nodes.
WayOn(seq, nodes, ways, j) ==
    IF Single(nodes, j) THEN PushOp(ways[nodes[j + 1].prev], seq[j]) ELSE ways[nodes[j + 1].prev]
AreWays(seq, nodes, ways, n) == ways[0] = FreshMtf /\ \A j \in 1 .. n : ways[j] = WayOn(seq, nodes, ways, j)

\* The list on the best way to each node, from the list at the node before it on that way.
LEMMA WaysExist ==
  ASSUME NEW seq, NEW nodes, NEW n \in Nat, HasPath(nodes, n)
  PROVE  \E ways : AreWays(seq, nodes, ways, n)
<1> DEFINE Good == {m \in Nat : m <= n => \E ways : AreWays(seq, nodes, ways, m)}
<1>1. 0 \in Good
  <2> DEFINE ways == [j \in 0 .. 0 |-> FreshMtf]
  <2>1. ways[0] = FreshMtf /\ \A j \in 1 .. 0 : FALSE
    OBVIOUS
  <2> HIDE DEF ways
  <2>2. AreWays(seq, nodes, ways, 0)
    BY <2>1 DEF AreWays
  <2> QED
    BY <2>2
<1>2. ASSUME NEW m \in Nat, m \in Good PROVE m + 1 \in Good
  <2> SUFFICES ASSUME m + 1 <= n PROVE \E ways : AreWays(seq, nodes, ways, m + 1)
    OBVIOUS
  <2>1. PICK old : AreWays(seq, nodes, old, m)
    BY <1>2
  <2> DEFINE new == [j \in 0 .. m + 1 |-> IF j = m + 1 THEN WayOn(seq, nodes, old, m + 1) ELSE old[j]]
  <2>2. new[m + 1] = WayOn(seq, nodes, old, m + 1) /\ \A j \in 0 .. m : new[j] = old[j]
    OBVIOUS
  <2> HIDE DEF new
  <2>3. ASSUME NEW j \in 1 .. m + 1 PROVE new[j] = WayOn(seq, nodes, new, j)
    <3>1. nodes[j + 1].prev \in 0 .. j - 1
      BY DEF HasPath
    <3>2. nodes[j + 1].prev \in 0 .. m
      BY <3>1
    <3>3. new[nodes[j + 1].prev] = old[nodes[j + 1].prev]
      BY <2>2, <3>2
    <3>4. WayOn(seq, nodes, new, j) = WayOn(seq, nodes, old, j)
      BY <3>3 DEF WayOn
    <3>5. CASE j = m + 1
      BY <2>2, <3>4, <3>5
    <3>6. CASE j # m + 1
      <4>1. j \in 1 .. m /\ j \in 0 .. m
        BY <3>6
      <4>2. old[j] = WayOn(seq, nodes, old, j)
        BY <2>1, <4>1 DEF AreWays
      <4> QED
        BY <2>2, <3>4, <4>1, <4>2
    <3> QED
      BY <3>5, <3>6
  <2>4. new[0] = FreshMtf
    BY <2>1, <2>2 DEF AreWays
  <2>5. AreWays(seq, nodes, new, m + 1)
    BY <2>3, <2>4 DEF AreWays
  <2> QED
    BY <2>5
<1>3. Nat \subseteq Good
  <2> HIDE DEF Good
  <2> QED
    BY <1>1, <1>2, Counting
<1>4. n \in Good
  BY <1>3
<1> QED
  BY <1>4

\* Those lists are whole.
LEMMA WaysAreMtf ==
  ASSUME NEW seq \in Seq(Char), NEW nodes, NEW n \in 0 .. Len(seq), HasPath(nodes, n),
         NEW ways, AreWays(seq, nodes, ways, n)
  PROVE  \A j \in 0 .. n : IsMtf(ways[j])
<1> DEFINE Good == {k \in Nat : \A j \in 0 .. k : j <= n => IsMtf(ways[j])}
<1>1. 0 \in Good
  <2>1. IsMtf(ways[0])
    BY FreshIsMtf DEF AreWays
  <2>2. \A j \in 0 .. 0 : j = 0
    OBVIOUS
  <2> QED
    BY <2>1, <2>2
<1>2. ASSUME NEW k \in Nat, k \in Good PROVE k + 1 \in Good
  <2> SUFFICES ASSUME NEW j \in 0 .. k + 1, j <= n PROVE IsMtf(ways[j])
    OBVIOUS
  <2>1. CASE j \in 0 .. k
    BY <1>2, <2>1
  <2>2. CASE j \notin 0 .. k
    <3>1. j = k + 1 /\ j \in 1 .. n
      BY <2>2
    <3>2. PICK m \in 0 .. k : m = nodes[j + 1].prev /\ m <= n
      <4>1. nodes[j + 1].prev \in 0 .. j - 1
        BY <3>1 DEF HasPath
      <4> QED
        BY <3>1, <4>1
    <3>3. IsMtf(ways[m])
      BY <1>2, <3>2
    <3>4. seq[j] \in Octet
      <4>1. seq[j] \in Char
        BY <3>1
      <4> QED
        BY <4>1, CharIs
    <3>5. IsMtf(PushOp(ways[m], seq[j]))
      BY <3>3, <3>4, PushIsMtf
    <3>6. ways[j] = PushOp(ways[m], seq[j]) \/ ways[j] = ways[m]
      BY <3>1, <3>2 DEF AreWays, WayOn
    <3> QED
      BY <3>3, <3>5, <3>6
  <2> QED
    BY <2>1, <2>2
<1>3. Nat \subseteq Good
  <2> HIDE DEF Good
  <2> QED
    BY <1>1, <1>2, Counting
<1>4. n \in Good
  BY <1>3
<1> QED
  BY <1>4

\* The nodes in back lead from left to i.
IsChain(nodes, i, left, back) ==
    /\ back \in Seq(Nat)
    /\ IF Len(back) = 0 THEN left = i ELSE back[Len(back)] = i
    /\ \A h \in 1 .. Len(back) :
          back[h] \in 1 .. i /\ nodes[back[h] + 1].prev = IF h = 1 THEN left ELSE back[h - 1]

\* The nodes kept on the way back are a chain: each is the node before the next.
LEMMA ChainGrows ==
  ASSUME NEW nodes, NEW i \in Nat, NEW left \in 1 .. i, NEW back, IsChain(nodes, i, left, back)
  PROVE  IsChain(nodes, i, nodes[left + 1].prev, <<left>> \o back)
<1>1. PICK b \in Seq(Nat), n \in Nat : b = back /\ n = Len(b)
  BY DEF IsChain
<1>2. PICK one : one = <<left>> \o b
  OBVIOUS
<1>3. one \in Seq(Nat) /\ Len(one) = n + 1 /\ one[1] = left /\ \A h \in 1 .. n : one[1 + h] = b[h]
  <2>1. <<left>> \in Seq(Nat) /\ Len(<<left>>) = 1 /\ <<left>>[1] = left
    OBVIOUS
  <2>2. PICK a : a = <<left>>
    OBVIOUS
  <2>3. a \in Seq(Nat) /\ b \in Seq(Nat)
    BY <2>1, <2>2
  <2>4. /\ a \o b \in Seq(Nat) /\ Len(a \o b) = Len(a) + Len(b)
        /\ \A k \in 1 .. Len(a) : (a \o b)[k] = a[k]
        /\ \A k \in 1 .. Len(b) : (a \o b)[Len(a) + k] = b[k]
    BY <2>3, JoinedSequences
  <2>5. Len(a) = 1 /\ a[1] = left /\ one = a \o b
    BY <1>2, <2>1, <2>2
  <2> QED
    BY <1>1, <2>4, <2>5
<1>4. /\ IF n = 0 THEN left = i ELSE b[n] = i
      /\ \A h \in 1 .. n : b[h] \in 1 .. i /\ nodes[b[h] + 1].prev = IF h = 1 THEN left ELSE b[h - 1]
  BY <1>1 DEF IsChain
<1>5. Len(one) # 0 /\ one[Len(one)] = i
  <2>1. CASE n = 0
    BY <1>3, <1>4, <2>1
  <2>2. CASE n # 0
    <3>1. n \in 1 .. n /\ 1 + n = n + 1
      BY <2>2
    <3> QED
      BY <1>3, <1>4, <2>2, <3>1
  <2> QED
    BY <2>1, <2>2
<1>6. ASSUME NEW h \in 1 .. n + 1
      PROVE  one[h] \in 1 .. i /\ nodes[one[h] + 1].prev = IF h = 1 THEN nodes[left + 1].prev
                ELSE one[h - 1]
  <2>1. CASE h = 1
    BY <1>3, <2>1
  <2>2. CASE h # 1
    <3>1. PICK k \in 1 .. n : h = 1 + k
      <4>1. h - 1 \in 1 .. n /\ h = 1 + (h - 1)
        BY <2>2
      <4> QED
        BY <4>1
    <3>2. one[h] = b[k] /\ h - 1 = k
      BY <1>3, <3>1
    <3>3. one[k] = IF k = 1 THEN left ELSE b[k - 1]
      <4>1. CASE k = 1
        BY <1>3, <4>1
      <4>2. CASE k # 1
        <5>1. k - 1 \in 1 .. n /\ 1 + (k - 1) = k
          BY <4>2
        <5>2. one[1 + (k - 1)] = b[k - 1]
          BY <1>3, <5>1
        <5> QED
          BY <4>2, <5>1, <5>2
      <4> QED
        BY <4>1, <4>2
    <3>4. b[k] \in 1 .. i /\ nodes[b[k] + 1].prev = IF k = 1 THEN left ELSE b[k - 1]
      BY <1>4
    <3> QED
      BY <2>2, <3>2, <3>3, <3>4
  <2> QED
    BY <2>1, <2>2
<1>7. IsChain(nodes, i, nodes[left + 1].prev, one)
  BY <1>3, <1>5, <1>6 DEF IsChain
<1> QED
  BY <1>1, <1>2, <1>7

\* The rounds of Unwind, and of Replay.
IsUnwound(g, nodes, i, mtf, n) ==
    g = [k \in 0 .. n |-> IF k = 0 THEN [left |-> i, right |-> i - 1, mtf |-> PopOp(mtf), back |-> << >>]
           ELSE StepBack(nodes, i, g[k - 1])]

LEMMA UnwoundExists == ASSUME NEW nodes, NEW i, NEW mtf, NEW n \in Nat
  PROVE \E g : IsUnwound(g, nodes, i, mtf, n)
<1> DEFINE S == {m \in Nat : \E g : IsUnwound(g, nodes, i, mtf, m)}
<1>1. 0 \in S
  <2> DEFINE g == [k \in 0 .. 0 |-> [left |-> i, right |-> i - 1, mtf |-> PopOp(mtf), back |-> << >>]]
  <2>1. \A k \in 0 .. 0 : k = 0
    OBVIOUS
  <2>2. g = [k \in 0 .. 0 |-> IF k = 0 THEN [left |-> i, right |-> i - 1, mtf |-> PopOp(mtf), back |-> << >>] ELSE StepBack(nodes, i, g[k - 1])]
    BY <2>1
  <2> QED
    BY <2>2 DEF IsUnwound
<1>2. ASSUME NEW m \in Nat, m \in S PROVE m + 1 \in S
  <2>1. PICK g : IsUnwound(g, nodes, i, mtf, m)
    BY <1>2
  <2> DEFINE h == [k \in 0 .. m + 1 |-> IF k = m + 1 THEN StepBack(nodes, i, g[m]) ELSE g[k]]
  <2>2. \A k \in 0 .. m : g[k] = IF k = 0 THEN [left |-> i, right |-> i - 1, mtf |-> PopOp(mtf), back |-> << >>] ELSE StepBack(nodes, i, g[k - 1])
    BY <2>1 DEF IsUnwound
  <2>3. \A k \in 0 .. m + 1 : h[k] = IF k = 0 THEN [left |-> i, right |-> i - 1, mtf |-> PopOp(mtf), back |-> << >>] ELSE StepBack(nodes, i, h[k - 1])
    <3> TAKE k \in 0 .. m + 1
    <3>1. CASE k = m + 1
      <4>1. k - 1 = m /\ k # 0 /\ h[m] = g[m]
        BY <3>1
      <4> QED
        BY <3>1, <4>1
    <3>2. CASE k # m + 1
      <4>1. k \in 0 .. m /\ h[k] = g[k] /\ (k # 0 => h[k - 1] = g[k - 1])
        BY <3>2
      <4> QED
        BY <2>2, <4>1
    <3> QED
      BY <3>1, <3>2
  <2>4. h = [k \in 0 .. m + 1 |-> h[k]]
    OBVIOUS
  <2> HIDE DEF h
  <2>5. IsUnwound(h, nodes, i, mtf, m + 1)
    BY <2>3, <2>4 DEF IsUnwound
  <2> QED
    BY <2>5
<1>3. Nat \subseteq S
  <2> HIDE DEF S
  <2> QED
    BY <1>1, <1>2, Counting
<1> QED
  BY <1>3

ReplayOn(seq, back, n, r) ==
    [node |-> back[n], mtf |-> IF back[n] = r.node + 1 THEN PushOp(r.mtf, seq[r.node + 1]) ELSE r.mtf]
IsReplayed(g, seq, node, back, mtf, n) ==
    g = [k \in 0 .. n |-> IF k = 0 THEN [node |-> node, mtf |-> mtf] ELSE ReplayOn(seq, back, k, g[k - 1])]

LEMMA ReplayedExists == ASSUME NEW seq, NEW node, NEW back, NEW mtf, NEW n \in Nat
  PROVE \E g : IsReplayed(g, seq, node, back, mtf, n)
<1> DEFINE S == {m \in Nat : \E g : IsReplayed(g, seq, node, back, mtf, m)}
<1>1. 0 \in S
  <2> DEFINE g == [k \in 0 .. 0 |-> [node |-> node, mtf |-> mtf]]
  <2>1. \A k \in 0 .. 0 : k = 0
    OBVIOUS
  <2>2. g = [k \in 0 .. 0 |-> IF k = 0 THEN [node |-> node, mtf |-> mtf]
           ELSE ReplayOn(seq, back, k, g[k - 1])]
    BY <2>1
  <2> QED
    BY <2>2 DEF IsReplayed
<1>2. ASSUME NEW m \in Nat, m \in S PROVE m + 1 \in S
  <2>1. PICK g : IsReplayed(g, seq, node, back, mtf, m)
    BY <1>2
  <2> DEFINE h == [k \in 0 .. m + 1 |-> IF k = m + 1 THEN ReplayOn(seq, back, m + 1, g[m]) ELSE g[k]]
  <2>2. \A k \in 0 .. m : g[k] = IF k = 0 THEN [node |-> node, mtf |-> mtf]
           ELSE ReplayOn(seq, back, k, g[k - 1])
    BY <2>1 DEF IsReplayed
  <2>3. \A k \in 0 .. m + 1 : h[k] = IF k = 0 THEN [node |-> node, mtf |-> mtf]
           ELSE ReplayOn(seq, back, k, h[k - 1])
    <3> TAKE k \in 0 .. m + 1
    <3>1. CASE k = m + 1
      <4>1. k - 1 = m /\ k # 0 /\ h[m] = g[m]
        BY <3>1
      <4> QED
        BY <3>1, <4>1
    <3>2. CASE k # m + 1
      <4>1. k \in 0 .. m /\ h[k] = g[k] /\ (k # 0 => h[k - 1] = g[k - 1])
        BY <3>2
      <4> QED
        BY <2>2, <4>1
    <3> QED
      BY <3>1, <3>2
  <2>4. h = [k \in 0 .. m + 1 |-> h[k]]
    OBVIOUS
  <2> HIDE DEF h
  <2>5. IsReplayed(h, seq, node, back, mtf, m + 1)
    BY <2>3, <2>4 DEF IsReplayed
  <2> QED
    BY <2>5
<1>3. Nat \subseteq S
  <2> HIDE DEF S
  <2> QED
    BY <1>1, <1>2, Counting
<1> QED
  BY <1>3

\* The rounds of the way back, and of the way forward.
LEMMA UnwindIs ==
  ASSUME NEW nodes, NEW i \in Nat, NEW mtf
  PROVE  \E g : IsUnwound(g, nodes, i, mtf, 2 * i) /\ Unwind(nodes, i, mtf) = g[2 * i]
<1>1. \E g : IsUnwound(g, nodes, i, mtf, 2 * i)
  <2>1. 2 * i \in Nat
    OBVIOUS
  <2> QED
    BY <2>1, UnwoundExists
<1> DEFINE round == CHOOSE g : g = [k \in 0 .. 2 * i |->
                       IF k = 0 THEN [left |-> i, right |-> i - 1, mtf |-> PopOp(mtf), back |-> << >>]
                       ELSE StepBack(nodes, i, g[k - 1])]
<1>2. Unwind(nodes, i, mtf) = round[2 * i]
  BY DEF Unwind
<1>3. round = CHOOSE g : IsUnwound(g, nodes, i, mtf, 2 * i)
  BY Zenon DEF IsUnwound
<1> HIDE DEF round
<1> QED
  BY <1>1, <1>2, <1>3

LEMMA ReplayIs ==
  ASSUME NEW seq, NEW node, NEW back, NEW mtf, Len(back) \in Nat
  PROVE  \E g : IsReplayed(g, seq, node, back, mtf, Len(back))
            /\ Replay(seq, node, back, mtf) = g[Len(back)].mtf
<1>1. \E g : IsReplayed(g, seq, node, back, mtf, Len(back))
  BY ReplayedExists
<1> DEFINE round == CHOOSE g : g = [k \in 0 .. Len(back) |->
                       IF k = 0 THEN [node |-> node, mtf |-> mtf]
                       ELSE [node |-> back[k],
                             mtf |-> IF back[k] = g[k - 1].node + 1
                                     THEN PushOp(g[k - 1].mtf, seq[g[k - 1].node + 1]) ELSE g[k - 1].mtf]]
<1>2. Replay(seq, node, back, mtf) = round[Len(back)].mtf
  BY DEF Replay
<1>3. round = CHOOSE g : IsReplayed(g, seq, node, back, mtf, Len(back))
  BY Zenon DEF IsReplayed, ReplayOn
<1> HIDE DEF round
<1> QED
  BY <1>1, <1>2, <1>3

IsSteppedBack(nodes, left, right, mtf, back, v) ==
    /\ left > right =>
          v = [left |-> nodes[left + 1].prev, right |-> right, mtf |-> mtf, back |-> <<left>> \o back]
    /\ left < right /\ Single(nodes, right) =>
          v = [left |-> left, right |-> right - 1, mtf |-> PopOp(mtf), back |-> back]
    /\ left < right /\ ~Single(nodes, right) =>
          v = [left |-> left, right |-> nodes[right + 1].prev, mtf |-> mtf, back |-> back]
    /\ left = right => v = [left |-> left, right |-> right, mtf |-> mtf, back |-> back]

\* One step back keeps what is known: the way to the left node, and the list at the right one.
LEMMA StepBackIs ==
  ASSUME NEW nodes, NEW i, NEW left \in Int, NEW right \in Int, NEW mtf, NEW back,
         NEW u, u = [left |-> left, right |-> right, mtf |-> mtf, back |-> back]
  PROVE  IsSteppedBack(nodes, left, right, mtf, back, StepBack(nodes, i, u))
<1>1. u.left = left /\ u.right = right /\ u.mtf = mtf /\ u.back = back
  OBVIOUS
<1> DEFINE v == StepBack(nodes, i, u)
<1>2. v = IF left = right THEN u
          ELSE IF left > right THEN [u EXCEPT !.left = nodes[left + 1].prev, !.back = <<left>> \o back]
          ELSE IF Single(nodes, right) THEN [u EXCEPT !.right = right - 1, !.mtf = PopOp(mtf)]
          ELSE [u EXCEPT !.right = nodes[right + 1].prev]
  BY <1>1 DEF StepBack
<1> HIDE DEF v
<1>3. PICK m, more, popped : m = nodes[left + 1].prev /\ more = <<left>> \o back /\ popped = PopOp(mtf)
  OBVIOUS
<1>4. ASSUME left > right PROVE v = [left |-> m, right |-> right, mtf |-> mtf, back |-> more]
  <2>1. v = [u EXCEPT !.left = m, !.back = more]
    BY <1>2, <1>3, <1>4
  <2> QED
    BY <2>1
<1>5. ASSUME left < right, Single(nodes, right)
      PROVE  v = [left |-> left, right |-> right - 1, mtf |-> popped, back |-> back]
  <2>1. v = [u EXCEPT !.right = right - 1, !.mtf = popped]
    BY <1>2, <1>3, <1>5
  <2> QED
    BY <2>1
<1>6. ASSUME left < right, ~Single(nodes, right)
      PROVE  v = [left |-> left, right |-> nodes[right + 1].prev, mtf |-> mtf, back |-> back]
  <2>1. v = [u EXCEPT !.right = nodes[right + 1].prev]
    BY <1>2, <1>6
  <2> QED
    BY <2>1
<1>7. left = right => v = u
  BY <1>2
<1>8. IsSteppedBack(nodes, left, right, mtf, back, v)
  BY <1>3, <1>4, <1>5, <1>6, <1>7 DEF IsSteppedBack
<1> QED
  BY <1>8 DEF v

\* What is known after k rounds of Unwind.
IsUnwinding(nodes, ways, i, k, u) ==
    \E left \in 0 .. i, right \in 0 .. i - 1, back \in Seq(Nat) :
        /\ u = [left |-> left, right |-> right, mtf |-> ways[right], back |-> back]
        /\ IsChain(nodes, i, left, back)
        /\ left = right \/ left + right + k <= 2 * i - 1

\* Each step brings one of the two nodes back.
LEMMA UnwindingGoesOn ==
  ASSUME NEW seq \in Seq(Char), NEW nodes, NEW i \in 1 .. Len(seq), HasPath(nodes, i),
         NEW ways, AreWays(seq, nodes, ways, i), NEW k \in Nat, NEW u, IsUnwinding(nodes, ways, i, k, u)
  PROVE  IsUnwinding(nodes, ways, i, k + 1, StepBack(nodes, i, u))
<1>1. PICK left \in 0 .. i, right \in 0 .. i - 1, back \in Seq(Nat) :
          /\ u = [left |-> left, right |-> right, mtf |-> ways[right], back |-> back]
          /\ IsChain(nodes, i, left, back)
          /\ left = right \/ left + right + k <= 2 * i - 1
  BY DEF IsUnwinding
<1> DEFINE v == StepBack(nodes, i, u)
<1>2. IsSteppedBack(nodes, left, right, ways[right], back, v)
  <2>1. left \in Int /\ right \in Int
    OBVIOUS
  <2> QED
    BY <1>1, <2>1, StepBackIs, Zenon
<1>3. CASE left = right
  <2>1. v = [left |-> left, right |-> right, mtf |-> ways[right], back |-> back]
    BY <1>2, <1>3 DEF IsSteppedBack
  <2> QED
    BY <1>1, <1>3, <2>1, Zenon DEF IsUnwinding
<1>4. CASE left > right
  <2>1. left \in 1 .. i
    BY <1>4
  <2>2. PICK m \in 0 .. left - 1 : m = nodes[left + 1].prev
    <3>1. nodes[left + 1].prev \in 0 .. left - 1
      BY <2>1 DEF HasPath
    <3> QED
      BY <3>1
  <2>3. PICK more : more = <<left>> \o back
    OBVIOUS
  <2>4. IsChain(nodes, i, m, more)
    BY <1>1, <2>1, <2>2, <2>3, ChainGrows
  <2>5. more \in Seq(Nat)
    BY <2>4 DEF IsChain
  <2>6. m \in 0 .. i /\ m + right + (k + 1) <= 2 * i - 1
    BY <1>1, <1>4, <2>1
  <2>7. v = [left |-> m, right |-> right, mtf |-> ways[right], back |-> more]
    BY <1>2, <1>4, <2>2, <2>3 DEF IsSteppedBack
  <2> QED
    BY <2>4, <2>5, <2>6, <2>7, Zenon DEF IsUnwinding
<1>5. CASE left < right
  <2>1. right \in 1 .. i
    BY <1>5
  <2>2. PICK m \in 0 .. right - 1 : m = nodes[right + 1].prev
    <3>1. nodes[right + 1].prev \in 0 .. right - 1
      BY <2>1 DEF HasPath
    <3> QED
      BY <3>1
  <2>3. ways[right] = IF Single(nodes, right) THEN PushOp(ways[m], seq[right]) ELSE ways[m]
    BY <2>1, <2>2 DEF AreWays, WayOn
  <2>4. v = [left |-> left, right |-> m, mtf |-> ways[m], back |-> back]
    <3>1. CASE Single(nodes, right)
      <4>1. right - 1 = m
        BY <2>2, <3>1 DEF Single
      <4>2. PopOp(ways[right]) = ways[m]
        <5>1. IsMtf(ways[m])
          <6>1. i \in 0 .. Len(seq) /\ m \in 0 .. i
            BY <2>1
          <6> QED
            BY <6>1, WaysAreMtf
        <5>2. seq[right] \in Octet
          <6>1. seq[right] \in Char
            BY <2>1
          <6> QED
            BY <6>1, CharIs
        <5>3. PopOp(PushOp(ways[m], seq[right])) = ways[m]
          BY <5>1, <5>2, PopUndoesPush
        <5> QED
          BY <2>3, <3>1, <5>3
      <4> QED
        BY <1>2, <1>5, <3>1, <4>1, <4>2 DEF IsSteppedBack
    <3>2. CASE ~Single(nodes, right)
      BY <1>2, <1>5, <2>2, <2>3, <3>2 DEF IsSteppedBack
    <3> QED
      BY <3>1, <3>2
  <2>5. m \in 0 .. i - 1 /\ left + m + (k + 1) <= 2 * i - 1
    BY <1>1, <1>5, <2>1
  <2> QED
    BY <1>1, <2>4, <2>5, Zenon DEF IsUnwinding
<1> QED
  BY <1>3, <1>4, <1>5 DEF v

\* The moves are undone back to a node on the best way to i.
LEMMA UnwindMeets ==
  ASSUME NEW seq \in Seq(Char), NEW nodes, NEW i \in 1 .. Len(seq), HasPath(nodes, i),
         NEW ways, AreWays(seq, nodes, ways, i)
  PROVE  LET u == Unwind(nodes, i, PushOp(ways[i - 1], seq[i]))
         IN  u.left \in 0 .. i /\ IsChain(nodes, i, u.left, u.back) /\ u.mtf = ways[u.left]
<1> DEFINE mtf == PushOp(ways[i - 1], seq[i])
<1>0. i \in Nat
  OBVIOUS
<1>1. PICK g : IsUnwound(g, nodes, i, mtf, 2 * i) /\ Unwind(nodes, i, mtf) = g[2 * i]
  BY <1>0, UnwindIs
<1>2. PopOp(mtf) = ways[i - 1]
  <2>1. IsMtf(ways[i - 1])
    <3>1. i \in 0 .. Len(seq) /\ i - 1 \in 0 .. i
      OBVIOUS
    <3> QED
      BY <3>1, WaysAreMtf
  <2>2. seq[i] \in Octet
    <3>1. seq[i] \in Char
      OBVIOUS
    <3> QED
      BY <3>1, CharIs
  <2> QED
    BY <2>1, <2>2, PopUndoesPush
<1>3. \A k \in 0 .. 2 * i : g[k] = IF k = 0 THEN [left |-> i, right |-> i - 1, mtf |-> PopOp(mtf), back |-> << >>]
                                   ELSE StepBack(nodes, i, g[k - 1])
  BY <1>1 DEF IsUnwound
<1> HIDE DEF mtf
<1> DEFINE Good == {k \in Nat : k <= 2 * i => IsUnwinding(nodes, ways, i, k, g[k])}
<1>4. 0 \in Good
  <2>1. g[0] = [left |-> i, right |-> i - 1, mtf |-> ways[i - 1], back |-> << >>]
    BY <1>2, <1>3
  <2>2. << >> \in Seq(Nat) /\ Len(<< >>) = 0
    OBVIOUS
  <2>3. IsChain(nodes, i, i, << >>)
    BY <2>2 DEF IsChain
  <2>4. i \in 0 .. i /\ i - 1 \in 0 .. i - 1 /\ i + (i - 1) + 0 <= 2 * i - 1
    OBVIOUS
  <2>5. IsUnwinding(nodes, ways, i, 0, g[0])
    BY <2>1, <2>2, <2>3, <2>4 DEF IsUnwinding
  <2> QED
    BY <2>5
<1>5. ASSUME NEW k \in Nat, k \in Good PROVE k + 1 \in Good
  <2> SUFFICES ASSUME k + 1 <= 2 * i PROVE IsUnwinding(nodes, ways, i, k + 1, g[k + 1])
    OBVIOUS
  <2>1. IsUnwinding(nodes, ways, i, k, g[k])
    BY <1>5
  <2>2. g[k + 1] = StepBack(nodes, i, g[k])
    <3>1. k + 1 \in 0 .. 2 * i /\ k + 1 # 0 /\ (k + 1) - 1 = k
      OBVIOUS
    <3> QED
      BY <1>3, <3>1
  <2> QED
    BY <2>1, <2>2, UnwindingGoesOn
<1>6. Nat \subseteq Good
  <2> HIDE DEF Good
  <2> QED
    BY <1>4, <1>5, Counting
<1>7. IsUnwinding(nodes, ways, i, 2 * i, g[2 * i])
  <2>1. 2 * i \in Nat /\ 2 * i \in Good
    BY <1>6
  <2> QED
    BY <2>1
<1>8. PICK left \in 0 .. i, right \in 0 .. i - 1, back \in Seq(Nat) :
          /\ g[2 * i] = [left |-> left, right |-> right, mtf |-> ways[right], back |-> back]
          /\ IsChain(nodes, i, left, back)
          /\ left = right \/ left + right + 2 * i <= 2 * i - 1
  BY <1>7 DEF IsUnwinding
<1>9. left = right
  BY <1>8
<1> DEFINE u == Unwind(nodes, i, PushOp(ways[i - 1], seq[i]))
<1>10. u = g[2 * i]
  BY <1>1 DEF mtf
<1> HIDE DEF u
<1>11. u.left = left /\ u.back = back /\ u.mtf = ways[left]
  BY <1>8, <1>9, <1>10
<1>12. u.left \in 0 .. i /\ IsChain(nodes, i, u.left, u.back) /\ u.mtf = ways[u.left]
  BY <1>8, <1>11
<1> QED
  BY <1>12 DEF u

\* The moves of the rest of the way are made.
LEMMA ReplayArrives ==
  ASSUME NEW seq, NEW nodes, NEW i \in Nat, NEW ways, AreWays(seq, nodes, ways, i),
         NEW left \in 0 .. i, NEW back, IsChain(nodes, i, left, back)
  PROVE  Replay(seq, left, back, ways[left]) = ways[i]
<1>1. PICK n \in Nat : n = Len(back)
  BY DEF IsChain
<1>2. PICK g : IsReplayed(g, seq, left, back, ways[left], n)
         /\ Replay(seq, left, back, ways[left]) = g[n].mtf
  BY <1>1, ReplayIs
<1>3. \A k \in 0 .. n : g[k] = IF k = 0 THEN [node |-> left, mtf |-> ways[left]]
         ELSE ReplayOn(seq, back, k, g[k - 1])
  BY <1>2 DEF IsReplayed
<1>4. /\ IF n = 0 THEN left = i ELSE back[n] = i
      /\ \A h \in 1 .. n : back[h] \in 1 .. i /\ nodes[back[h] + 1].prev = IF h = 1 THEN left
             ELSE back[h - 1]
  BY <1>1 DEF IsChain
<1> DEFINE Stop(k) == IF k = 0 THEN left ELSE back[k]
           Good == {k \in Nat : k <= n => g[k] = [node |-> Stop(k), mtf |-> ways[Stop(k)]]}
<1>5. 0 \in Good
  BY <1>3
<1>6. ASSUME NEW k \in Nat, k \in Good PROVE k + 1 \in Good
  <2> SUFFICES ASSUME k + 1 <= n PROVE g[k + 1] = [node |-> Stop(k + 1), mtf |-> ways[Stop(k + 1)]]
    OBVIOUS
  <2>1. PICK m : m = Stop(k)
    OBVIOUS
  <2>2. g[k] = [node |-> m, mtf |-> ways[m]]
    BY <1>6, <2>1
  <2>3. k + 1 \in 1 .. n /\ k + 1 \in 0 .. n /\ k + 1 # 0 /\ (k + 1) - 1 = k /\ (k + 1 = 1 <=> k = 0)
    OBVIOUS
  <2>4. g[k + 1] = ReplayOn(seq, back, k + 1, g[k])
    BY <1>3, <2>3
  <2>5. PICK j \in 1 .. i : j = back[k + 1] /\ nodes[j + 1].prev = m
    BY <1>4, <2>1, <2>3
  <2>6. Stop(k + 1) = j
    BY <2>3, <2>5
  <2>7. ways[j] = IF j = m + 1 THEN PushOp(ways[m], seq[j]) ELSE ways[m]
    BY <2>5 DEF AreWays, WayOn, Single
  <2>8. g[k].node = m /\ g[k].mtf = ways[m]
    BY <2>2
  <2>9. g[k + 1] = [node |-> j, mtf |-> IF j = m + 1 THEN PushOp(ways[m], seq[m + 1]) ELSE ways[m]]
    BY <2>4, <2>5, <2>8 DEF ReplayOn
  <2>10. g[k + 1] = [node |-> j, mtf |-> ways[j]]
    BY <2>7, <2>9
  <2> QED
    BY <2>6, <2>10
<1>7. Nat \subseteq Good
  <2> HIDE DEF Good
  <2> QED
    BY <1>5, <1>6, Counting
<1>8. g[n] = [node |-> Stop(n), mtf |-> ways[Stop(n)]]
  BY <1>7
<1>9. Stop(n) = i
  BY <1>4
<1> QED
  BY <1>2, <1>8, <1>9

\* Rolled back, the list is what the best way to i makes of it.
LEMMA RollbackIs ==
  ASSUME NEW seq \in Seq(Char), NEW nodes, NEW i \in 1 .. Len(seq), HasPath(nodes, i),
         NEW ways, AreWays(seq, nodes, ways, i)
  PROVE  Rollback(seq, nodes, i, PushOp(ways[i - 1], seq[i])) = ways[i]
<1> DEFINE mtf == PushOp(ways[i - 1], seq[i])
<1>1. CASE Single(nodes, i)
  <2>1. nodes[i + 1].prev = i - 1
    <3>1. nodes[i + 1].prev \in 0 .. i - 1 /\ i = nodes[i + 1].prev + 1
      BY <1>1 DEF HasPath, Single
    <3> QED
      BY <3>1
  <2>2. ways[i] = PushOp(ways[nodes[i + 1].prev], seq[i])
    BY <1>1 DEF AreWays, WayOn
  <2> QED
    BY <1>1, <2>1, <2>2 DEF Rollback
<1>2. CASE ~Single(nodes, i)
  <2> DEFINE u == Unwind(nodes, i, mtf)
  <2>1. u.left \in 0 .. i /\ IsChain(nodes, i, u.left, u.back) /\ u.mtf = ways[u.left]
    BY UnwindMeets
  <2>2. Rollback(seq, nodes, i, mtf) = Replay(seq, u.left, u.back, u.mtf)
    <3>1. i # 0
      OBVIOUS
    <3> QED
      BY <1>2, <3>1 DEF Rollback
  <2> HIDE DEF u
  <2>3. i \in Nat
    OBVIOUS
  <2>4. Replay(seq, u.left, u.back, ways[u.left]) = ways[i]
    BY <2>1, <2>3, ReplayArrives
  <2> QED
    BY <2>1, <2>2, <2>4
<1> QED
  BY <1>1, <1>2

-----------------------------------------------------------------------------
(* The costs of the graph.                                                 *)

\* The rounds of the search, one after another.
LEMMA RoundIsStep ==
  ASSUME NEW seq, IsShort(seq), NEW i \in 0 .. Len(seq) - 1
  PROVE  /\ IsStep(seq, i, FoundAt(seq, i, Relaxed(seq)[i]), Relaxed(seq)[i].nodes[i + 1].weight,
                   Relaxed(seq)[i].nodes, Relaxed(seq)[i + 1].nodes)
         /\ Relaxed(seq)[i + 1].mtf = PushOp(Here(seq, i, Relaxed(seq)[i]), seq[i + 1])
<1>0. Len(seq) \in Nat
  BY DEF IsShort
<1>1. PICK r, s : r = Relaxed(seq)[i] /\ s = Relaxed(seq)[i + 1]
  OBVIOUS
<1>2. s = Relax(seq, i, r)
  <2>1. IsRelaxed(Relaxed(seq), seq, Len(seq))
    BY <1>0, RelaxedIs
  <2>2. i + 1 \in 0 .. Len(seq) /\ i + 1 # 0 /\ (i + 1) - 1 = i
    BY <1>0
  <2>3. \A g : IsRelaxed(g, seq, Len(seq)) => g[i + 1] = Relax(seq, i, g[i])
    BY <2>2 DEF IsRelaxed
  <2> QED
    BY <1>1, <2>1, <2>3
<1>3. i \in 0 .. Len(seq)
  BY <1>0
<1>4. IsRound(r) /\ IsReached(seq, r.nodes, i)
  BY <1>1, <1>3, RoundsReach
<1>5. IsGraph(seq, r.nodes)
  BY <1>4 DEF IsReached
<1>6. i # 0 => IsWay(seq, i, r.nodes[i + 1])
  <2> SUFFICES ASSUME i # 0 PROVE IsWay(seq, i, r.nodes[i + 1])
    OBVIOUS
  <2>1. i \in 1 .. i
    BY <1>0
  <2> QED
    BY <1>3, <1>4, <2>1, ReachedHaveWays
<1>7. /\ IsStep(seq, i, FoundAt(seq, i, r), r.nodes[i + 1].weight, r.nodes, Relax(seq, i, r).nodes)
      /\ Relax(seq, i, r).mtf = PushOp(Here(seq, i, r), seq[i + 1])
  BY <1>0, <1>4, <1>5, <1>6, RelaxIsStep, Zenon
<1> QED
  BY <1>1, <1>2, <1>7

\* The first nodes of a round are those of the graph.
LEMMA NodesAreSettled ==
  ASSUME NEW seq, IsShort(seq), NEW i \in 0 .. Len(seq), NEW j \in 0 .. i
  PROVE  Same(Relaxed(seq)[i].nodes[j + 1], Graph(seq)[j + 1])
<1>0. PICK n \in Nat : n = Len(seq)
  BY DEF IsShort
<1> DEFINE N(k) == Relaxed(seq)[k].nodes[j + 1]
           Good == {k \in Nat : i + k <= n => Same(N(i), N(i + k))}
<1>1. 0 \in Good
  <2>1. i + 0 = i
    BY <1>0
  <2> QED
    BY <2>1 DEF Same
<1>2. ASSUME NEW k \in Nat, k \in Good PROVE k + 1 \in Good
  <2> SUFFICES ASSUME i + (k + 1) <= n PROVE Same(N(i), N(i + (k + 1)))
    OBVIOUS
  <2>1. PICK m \in 0 .. Len(seq) - 1 : m = i + k /\ m + 1 = i + (k + 1) /\ j \in 0 .. m
    <3>1. i + k \in 0 .. Len(seq) - 1 /\ (i + k) + 1 = i + (k + 1) /\ j \in 0 .. i + k
      BY <1>0
    <3> QED
      BY <3>1
  <2>2. IsStep(seq, m, FoundAt(seq, m, Relaxed(seq)[m]), Relaxed(seq)[m].nodes[m + 1].weight,
               Relaxed(seq)[m].nodes, Relaxed(seq)[m + 1].nodes)
    BY RoundIsStep, Zenon
  <2>3. Same(N(m), N(m + 1))
    BY <2>1, <2>2 DEF IsStep
  <2>4. Same(N(i), N(m))
    <3>1. m <= n
      BY <1>0
    <3> QED
      BY <1>2, <2>1, <3>1
  <2> QED
    BY <2>1, <2>3, <2>4 DEF Same
<1>3. Nat \subseteq Good
  <2> HIDE DEF Good
  <2> QED
    BY <1>1, <1>2, Counting
<1>4. Same(N(i), N(n))
  <2>1. n - i \in Nat /\ i + (n - i) = n
    BY <1>0
  <2>2. n - i \in Good
    BY <1>3, <2>1
  <2> QED
    BY <2>1, <2>2
<1>5. Graph(seq)[j + 1] = N(n)
  BY <1>0 DEF Graph
<1> QED
  BY <1>4, <1>5

\* The nodes before each other lead to the origin.
LEMMA GraphHasPath ==
  ASSUME NEW seq \in Seq(Char), IsShort(seq)
  PROVE  HasPath(Graph(seq), Len(seq))
<1> SUFFICES ASSUME NEW j \in 1 .. Len(seq) PROVE Graph(seq)[j + 1].prev \in 0 .. j - 1
  BY DEF HasPath
<1>1. IsWay(seq, j, Graph(seq)[j + 1])
  BY GraphHasWays
<1> QED
  BY <1>1 DEF IsWay, CanGo

\* "This is the correct cost because we properly rolled back the MtF state just before":
\* in each round the list is the one of the best way.
LEMMA HereIs ==
  ASSUME NEW seq \in Seq(Char), IsShort(seq), NEW ways, AreWays(seq, Graph(seq), ways, Len(seq))
  PROVE  \A i \in 0 .. Len(seq) - 1 : Here(seq, i, Relaxed(seq)[i]) = ways[i]
<1>0. PICK n \in Nat : n = Len(seq)
  OBVIOUS
<1> DEFINE R == Relaxed(seq)
           Good == {k \in Nat : k < n => Here(seq, k, R[k]) = ways[k]}
<1>1. ASSUME 0 < n PROVE Here(seq, 0, R[0]) = ways[0]
  <2>1. IsRelaxed(R, seq, Len(seq))
    BY <1>0, RelaxedIs
  <2>2. 0 \in 0 .. Len(seq)
    BY <1>0
  <2>3. \A g : IsRelaxed(g, seq, Len(seq)) => g[0] = [nodes |-> FreshNodes(seq), mtf |-> FreshMtf]
    BY <2>2 DEF IsRelaxed
  <2>4. R[0].mtf = FreshMtf
    BY <2>1, <2>3
  <2> HIDE DEF R
  <2>5. Here(seq, 0, R[0]) = FreshMtf
    BY <2>4 DEF Here, Rollback
  <2> QED
    BY <2>5 DEF AreWays
<1> HIDE DEF R
<1>2. ASSUME NEW k \in Nat, k \in Good PROVE k + 1 \in Good
  <2> SUFFICES ASSUME k + 1 < n PROVE Here(seq, k + 1, R[k + 1]) = ways[k + 1]
    OBVIOUS
  <2>1. PICK i \in 1 .. Len(seq) : i = k + 1 /\ k = i - 1 /\ k \in 0 .. Len(seq) - 1 /\ i \in 0 .. Len(seq)
    <3>1. k + 1 \in 1 .. Len(seq) /\ k = (k + 1) - 1 /\ k \in 0 .. Len(seq) - 1 /\ k + 1 \in 0 .. Len(seq)
      BY <1>0
    <3> QED
      BY <3>1
  <2>2. Here(seq, k, R[k]) = ways[k]
    <3>1. k < n
      OBVIOUS
    <3> QED
      BY <1>2, <3>1
  <2>3. R[i].mtf = PushOp(ways[i - 1], seq[i])
    <3>1. R[k + 1].mtf = PushOp(Here(seq, k, R[k]), seq[k + 1])
      BY <2>1, RoundIsStep, Zenon DEF R
    <3> QED
      BY <2>1, <2>2, <3>1
  <2> DEFINE nodes == R[i].nodes
  <2>4. \A j \in 1 .. i : nodes[j + 1].prev = Graph(seq)[j + 1].prev
    <3> TAKE j \in 1 .. i
    <3>1. j \in 0 .. i
      OBVIOUS
    <3>2. Same(nodes[j + 1], Graph(seq)[j + 1])
      BY <2>1, <3>1, NodesAreSettled DEF R
    <3> QED
      BY <3>2 DEF Same
  <2> HIDE DEF nodes
  <2>5. \A j \in 1 .. i : j \in 1 .. Len(seq)
    OBVIOUS
  <2>6. HasPath(nodes, i)
    BY <2>4, <2>5, GraphHasPath DEF HasPath
  <2>7. AreWays(seq, nodes, ways, i)
    BY <2>4, <2>5 DEF AreWays, WayOn, Single
  <2>8. Rollback(seq, nodes, i, PushOp(ways[i - 1], seq[i])) = ways[i]
    BY <2>6, <2>7, RollbackIs
  <2>9. Here(seq, i, R[i]) = ways[i]
    BY <2>3, <2>8 DEF Here, nodes
  <2> QED
    BY <2>1, <2>9
<1>3. 0 \in Good
  BY <1>1
<1>4. Nat \subseteq Good
  <2> HIDE DEF Good
  <2> QED
    BY <1>2, <1>3, Counting
<1>5. ASSUME NEW i \in 0 .. Len(seq) - 1 PROVE Here(seq, i, R[i]) = ways[i]
  <2>1. i \in Nat /\ i < n
    BY <1>0
  <2>2. i \in Good
    BY <1>4, <2>1
  <2> QED
    BY <2>1, <2>2
<1> QED
  BY <1>5 DEF R

\* The way into node j costs what the list of the best way makes it cost.
IsPaid(seq, nodes, ways, t) ==
    HasCost(t.prev, Find(ways[t.prev].list, seq[t.prev + 1]), t.prev, t.length, t.offset,
            t.weight - nodes[t.prev + 1].weight)
IsCosted(seq, nodes, ways, i) ==
    \A j \in 1 .. Len(seq) :
        \/ nodes[j + 1].weight = Unreached
        \/ nodes[j + 1].length > 1 /\ nodes[j + 1].offset = -1
        \/ nodes[j + 1].prev \in 0 .. i - 1 /\ IsPaid(seq, nodes, ways, nodes[j + 1])

\* A step keeps the ways paid for on the lists of the best ways.
LEMMA StepIsCosted ==
  ASSUME NEW seq, NEW n \in Nat, n = Len(seq), NEW i \in 0 .. n - 1, NEW ways, NEW old, NEW new, NEW w,
         w = old[i + 1].weight, IsStep(seq, i, Find(ways[i].list, seq[i + 1]), w, old, new),
         IsCosted(seq, old, ways, i)
  PROVE  IsCosted(seq, new, ways, i + 1)
<1>1. \A j \in 0 .. i : Same(old[j + 1], new[j + 1])
  BY DEF IsStep
<1>2. ASSUME NEW j \in 1 .. n, Same(old[j + 1], new[j + 1])
      PROVE  \/ new[j + 1].weight = Unreached
             \/ new[j + 1].length > 1 /\ new[j + 1].offset = -1
             \/ new[j + 1].prev \in 0 .. i /\ IsPaid(seq, new, ways, new[j + 1])
  <2>1. PICK t, u : t = old[j + 1] /\ u = new[j + 1]
    OBVIOUS
  <2>2. t.prev = u.prev /\ t.length = u.length /\ t.offset = u.offset /\ t.weight = u.weight
    BY <1>2, <2>1 DEF Same
  <2>3. \/ t.weight = Unreached
        \/ t.length > 1 /\ t.offset = -1
        \/ t.prev \in 0 .. i - 1 /\ IsPaid(seq, old, ways, t)
    BY <2>1 DEF IsCosted
  <2>4. ASSUME t.prev \in 0 .. i - 1, IsPaid(seq, old, ways, t)
        PROVE  u.prev \in 0 .. i /\ IsPaid(seq, new, ways, u)
    <3>1. PICK m \in 0 .. i : m = t.prev /\ m = u.prev
      BY <2>2, <2>4
    <3>2. old[m + 1].weight = new[m + 1].weight
      BY <1>1 DEF Same
    <3>3. HasCost(m, Find(ways[m].list, seq[m + 1]), m, u.length, u.offset, u.weight - new[m + 1].weight)
      BY <2>2, <2>4, <3>1, <3>2 DEF IsPaid
    <3>4. IsPaid(seq, new, ways, u)
      BY <3>1, <3>3 DEF IsPaid
    <3> QED
      BY <3>1, <3>4
  <2> QED
    BY <2>1, <2>2, <2>3, <2>4
<1>3. ASSUME NEW j \in 1 .. n, IsWayFrom(seq, i, Find(ways[i].list, seq[i + 1]), w, j, new[j + 1])
      PROVE  \/ new[j + 1].length > 1 /\ new[j + 1].offset = -1
             \/ new[j + 1].prev \in 0 .. i /\ IsPaid(seq, new, ways, new[j + 1])
  <2>1. PICK u : u = new[j + 1]
    OBVIOUS
  <2>2. HasCost(i, Find(ways[i].list, seq[i + 1]), u.prev, u.length, u.offset, u.weight - w)
    BY <1>3, <2>1 DEF IsWayFrom
  <2>3. w = new[i + 1].weight
    <3>1. i \in 0 .. i
      OBVIOUS
    <3> QED
      BY <1>1, <3>1 DEF Same
  <2>4. (u.length > 1 /\ u.offset = -1) \/ u.prev = i
    BY <2>2, Zenon DEF HasCost
  <2>5. ASSUME u.prev = i PROVE u.prev \in 0 .. i /\ IsPaid(seq, new, ways, u)
    <3>1. i \in 0 .. i
      OBVIOUS
    <3>2. HasCost(u.prev, Find(ways[u.prev].list, seq[u.prev + 1]), u.prev, u.length, u.offset,
                  u.weight - new[u.prev + 1].weight)
      BY <2>2, <2>3, <2>5
    <3>3. IsPaid(seq, new, ways, u)
      BY <3>2 DEF IsPaid
    <3> QED
      BY <2>5, <3>1, <3>3
  <2> QED
    BY <2>1, <2>4, <2>5
<1>4. (i + 1) - 1 = i
  OBVIOUS
<1>5. ASSUME NEW j \in 1 .. n
      PROVE  Same(old[j + 1], new[j + 1]) \/ IsWayFrom(seq, i, Find(ways[i].list, seq[i + 1]), w, j, new[j + 1])
  <2>1. CASE j <= i
    <3>1. j \in 0 .. i
      BY <2>1
    <3> QED
      BY <1>1, <3>1
  <2>2. CASE j > i
    <3>1. j \in i + 1 .. Len(seq)
      BY <2>2
    <3> QED
      BY <3>1 DEF IsStep
  <2> QED
    BY <2>1, <2>2
<1> QED
  BY <1>2, <1>3, <1>4, <1>5 DEF IsCosted

\* All nodes but the origin start unreached.
LEMMA FreshNodesAre ==
  ASSUME NEW seq, Len(seq) \in Nat
  PROVE  \A j \in 1 .. Len(seq) : FreshNodes(seq)[j + 1] = FreshNode
<1> DEFINE first == <<[FreshNode EXCEPT !.weight = 0]>>
           rest == [n \in 1 .. Len(seq) |-> FreshNode]
<1>1. PICK origin : origin = [FreshNode EXCEPT !.weight = 0]
  OBVIOUS
<1>2. PICK a, b : a = first /\ b = rest
  OBVIOUS
<1>3. PICK S : S = {origin, FreshNode}
  OBVIOUS
<1>4. a \in Seq(S) /\ Len(a) = 1 /\ b \in Seq(S) /\ Len(b) = Len(seq)
         /\ \A j \in 1 .. Len(seq) : b[j] = FreshNode
  <2>1. origin \in S /\ FreshNode \in S
    BY <1>3
  <2>2. <<origin>> \in Seq(S) /\ Len(<<origin>>) = 1
    BY <2>1
  <2>3. a = <<origin>>
    BY <1>1, <1>2
  <2>4. PICK node : node = FreshNode
    OBVIOUS
  <2>5. [n \in 1 .. Len(seq) |-> node] \in Seq(S) /\ Len([n \in 1 .. Len(seq) |-> node]) = Len(seq)
    BY <2>1, <2>4
  <2>6. b = [n \in 1 .. Len(seq) |-> node]
    BY <1>2, <2>4
  <2> QED
    BY <2>2, <2>3, <2>4, <2>5, <2>6
<1>5. \A k \in 1 .. Len(b) : (a \o b)[Len(a) + k] = b[k]
  <2>1. a \in Seq(S) /\ b \in Seq(S)
    BY <1>4
  <2> QED
    BY <2>1, JoinedSequences
<1>6. FreshNodes(seq) = a \o b
  BY <1>2 DEF FreshNodes
<1>7. ASSUME NEW j \in 1 .. Len(seq) PROVE (a \o b)[j + 1] = FreshNode
  <2>1. j \in 1 .. Len(b) /\ Len(a) + j = j + 1
    BY <1>4
  <2> QED
    BY <1>4, <1>5, <2>1
<1> QED
  BY <1>6, <1>7

\* In the end every way is paid for so.
LEMMA GraphIsCosted ==
  ASSUME NEW seq \in Seq(Char), IsShort(seq), NEW ways, AreWays(seq, Graph(seq), ways, Len(seq))
  PROVE  IsCosted(seq, Graph(seq), ways, Len(seq))
<1>0. PICK n \in Nat : n = Len(seq)
  OBVIOUS
<1> DEFINE R == Relaxed(seq)
           Good == {k \in Nat : k <= n => IsCosted(seq, R[k].nodes, ways, k)}
<1>1. IsCosted(seq, R[0].nodes, ways, 0)
  <2>1. IsRelaxed(R, seq, Len(seq))
    BY <1>0, RelaxedIs
  <2>2. 0 \in 0 .. Len(seq)
    BY <1>0
  <2>3. \A g : IsRelaxed(g, seq, Len(seq)) => g[0] = [nodes |-> FreshNodes(seq), mtf |-> FreshMtf]
    BY <2>2 DEF IsRelaxed
  <2>4. R[0].nodes = FreshNodes(seq)
    BY <2>1, <2>3
  <2> HIDE DEF R
  <2>5. \A j \in 1 .. Len(seq) : FreshNodes(seq)[j + 1] = FreshNode
    BY FreshNodesAre
  <2>6. FreshNode.weight = Unreached
    BY DEF FreshNode
  <2> QED
    BY <2>4, <2>5, <2>6 DEF IsCosted
<1> HIDE DEF R
<1>2. ASSUME NEW k \in Nat, k \in Good PROVE k + 1 \in Good
  <2> SUFFICES ASSUME k + 1 <= n PROVE IsCosted(seq, R[k + 1].nodes, ways, k + 1)
    OBVIOUS
  <2>1. PICK i \in 0 .. n - 1 : i = k
    OBVIOUS
  <2>2. IsCosted(seq, R[i].nodes, ways, i)
    BY <1>2, <2>1
  <2>3. i \in 0 .. Len(seq) - 1
    BY <1>0
  <2>4. IsStep(seq, i, FoundAt(seq, i, R[i]), R[i].nodes[i + 1].weight, R[i].nodes, R[i + 1].nodes)
    BY <2>3, RoundIsStep, Zenon DEF R
  <2>5. FoundAt(seq, i, R[i]) = Find(ways[i].list, seq[i + 1])
    <3>1. Here(seq, i, R[i]) = ways[i]
      BY <2>3, HereIs DEF R
    <3> QED
      BY <3>1 DEF FoundAt
  <2>6. IsStep(seq, i, Find(ways[i].list, seq[i + 1]), R[i].nodes[i + 1].weight, R[i].nodes, R[i + 1].nodes)
    BY <2>4, <2>5
  <2>7. IsCosted(seq, R[i + 1].nodes, ways, i + 1)
    BY <1>0, <2>2, <2>6, StepIsCosted
  <2> QED
    BY <2>1, <2>7
<1>3. 0 \in Good
  BY <1>1
<1>4. Nat \subseteq Good
  <2> HIDE DEF Good
  <2> QED
    BY <1>2, <1>3, Counting
<1>5. IsCosted(seq, R[n].nodes, ways, n)
  BY <1>4
<1> QED
  BY <1>0, <1>5 DEF Graph, R

\* A reference costs ten times the bits of its offset, and of the first group of its length.
LEMMA OffsetCost ==
  ASSUME NEW offset \in Nat, offset >= 1
  PROVE  RefCost(offset) = 10 * Len(OffsetBits(offset - 1)) + 30
<1>1. CASE offset <= 32
  <2>1. RefCost(offset) = 110
    BY <1>1 DEF RefCost, RefClass
  <2>2. OffsetBits(offset - 1) = PutBits(8, 6 + 8 * (offset - 1))
    BY <1>1 DEF OffsetBits
  <2>3. Len(PutBits(8, 6 + 8 * (offset - 1))) = 8
    BY PutBitsAreBits
  <2>4. Len(OffsetBits(offset - 1)) = 8
    BY <2>2, <2>3, Zenon
  <2>5. 10 * 8 + 30 = 110
    OBVIOUS
  <2> QED
    BY <2>1, <2>4, <2>5, Zenon
<1>2. CASE offset > 32 /\ offset <= 1024
  <2>1. RefCost(offset) = 160
    BY <1>2 DEF RefCost, RefClass
  <2>2. OffsetBits(offset - 1) = PutBits(13, 2 + 8 * (offset - 1))
    BY <1>2 DEF OffsetBits
  <2>3. Len(PutBits(13, 2 + 8 * (offset - 1))) = 13
    BY PutBitsAreBits
  <2>4. Len(OffsetBits(offset - 1)) = 13
    BY <2>2, <2>3, Zenon
  <2>5. 10 * 13 + 30 = 160
    OBVIOUS
  <2> QED
    BY <2>1, <2>4, <2>5, Zenon
<1>3. CASE offset > 1024
  <2>1. RefCost(offset) = 200
    BY <1>3 DEF RefCost, RefClass
  <2>2. OffsetBits(offset - 1) = PutBits(17, 4 * (offset - 1))
    BY <1>3 DEF OffsetBits
  <2>3. Len(PutBits(17, 4 * (offset - 1))) = 17
    BY PutBitsAreBits
  <2>4. Len(OffsetBits(offset - 1)) = 17
    BY <2>2, <2>3, Zenon
  <2>5. 10 * 17 + 30 = 200
    OBVIOUS
  <2> QED
    BY <2>1, <2>4, <2>5, Zenon
<1> QED
  BY <1>1, <1>2, <1>3

\* A way that is paid for on a list costs ten times the bits that are written on it.
LEMMA PaidAsWritten ==
  ASSUME NEW seq \in Seq(Char), NEW nodes, NEW j \in 1 .. Len(seq),
         NEW t, t = nodes[j + 1], IsWay(seq, j, t),
         NEW list, IsList(list), ~ (t.length > 1 /\ t.offset = -1),
         NEW cost, HasCost(t.prev, Find(list, seq[t.prev + 1]), t.prev, t.length, t.offset, cost)
  PROVE  cost = 10 * Len(Piece(seq, nodes, j, list))
<1>1. PICK piece : piece = Piece(seq, nodes, j, list)
  OBVIOUS
<1>2. /\ t.prev \in 0 .. j - 1 /\ t.prev + t.length = j
      /\ IsByteWay(seq, j, t, list, piece) \/ IsBlockWay(seq, j, t, piece) \/ IsCopyWay(seq, j, t, piece)
  BY <1>1, WaysIn
<1>3. CASE IsByteWay(seq, j, t, list, piece)
  <2>1. PICK n \in 0 .. 255 : n = Find(list, seq[j]) /\ piece = ByteBits(n)
    BY <1>3 DEF IsByteWay
  <2>2. t.length = 1
    BY <1>3 DEF IsByteWay
  <2>3. t.prev + 1 = j
    BY <1>2, <2>2
  <2>4. n = Find(list, seq[t.prev + 1])
    BY <2>1, <2>3
  <2>5. cost = 20 * CompressBits(n) - 20
    <3>1. ~ t.length > 1
      BY <2>2
    <3> QED
      BY <2>4, <3>1, Zenon DEF HasCost
  <2>6. Len(piece) = 2 * CompressBits(n) - 2 /\ CompressBits(n) \in 4 .. 8
    BY <2>1, ByteBitsAre
  <2> QED
    BY <1>1, <2>5, <2>6, SMTT(30)
<1>4. CASE IsBlockWay(seq, j, t, piece)
  BY <1>4 DEF IsBlockWay
<1>5. CASE IsCopyWay(seq, j, t, piece)
  <2>1. PICK off \in Nat, len \in Nat : off = t.offset - 1 /\ len = t.length - 3
    BY <1>5 DEF IsCopyWay
  <2>2. off < Shift(15) /\ piece = OffsetBits(off) \o LengthBits(len) /\ t.length # 1 /\ t.offset # -1
    BY <1>5, <2>1 DEF IsCopyWay
  <2>3. cost = RefCost(t.offset) + ((t.length - 3) \div 7) * 30
    BY <1>5, <2>2 DEF HasCost
  <2>4. Len(piece) = Len(OffsetBits(off)) + 3 * (len \div 7 + 1) /\ Len(OffsetBits(off)) \in {8, 13, 17}
    BY <2>2, ReferenceBitsAre
  <2>5. PICK offset \in Nat : offset = t.offset /\ offset >= 1 /\ off = offset - 1
    <3>1. t.offset \in 1 .. t.prev
      BY <1>5 DEF IsCopyWay, IsCopy
    <3>2. t.offset \in Nat /\ t.offset >= 1
      BY <1>2, <3>1
    <3> QED
      BY <2>1, <3>2
  <2>6. RefCost(offset) = 10 * Len(OffsetBits(off)) + 30
    BY <2>5, OffsetCost
  <2>7. cost = 10 * Len(OffsetBits(off)) + 30 + (len \div 7) * 30
    BY <2>1, <2>3, <2>5, <2>6
  <2>8. PICK width \in Nat, groups \in Nat : width = Len(OffsetBits(off)) /\ groups = len \div 7
    BY <2>1, <2>4
  <2> QED
    BY <1>1, <2>4, <2>7, <2>8
<1> QED
  BY <1>2, <1>3, <1>4, <1>5

\* The list the writer has at a node is the one of the best way there.
LEMMA ListsAgree ==
  ASSUME NEW seq \in Seq(Char), NEW nodes, \A j \in 1 .. Len(seq) : IsWay(seq, j, nodes[j + 1]),
         NEW table, IsTable(seq, nodes, table, Len(seq)), NEW ways, AreWays(seq, nodes, ways, Len(seq))
  PROVE  \A j \in 0 .. Len(seq) : table[j + 1].list = ways[j].list
<1>0. PICK n \in Nat : n = Len(seq)
  OBVIOUS
<1> DEFINE Good == {k \in Nat : \A j \in 0 .. n : j <= k => table[j + 1].list = ways[j].list}
<1>1. 0 \in Good
  <2>1. table[0 + 1].list = ways[0].list
    BY DEF IsTable, AreWays, Unwritten
  <2>2. \A j \in 0 .. n : j <= 0 => j = 0
    BY <1>0
  <2> QED
    BY <2>1, <2>2
<1>2. ASSUME NEW k \in Nat, k \in Good PROVE k + 1 \in Good
  <2> SUFFICES ASSUME NEW j \in 0 .. n, j = k + 1 PROVE table[j + 1].list = ways[j].list
    <3>1. \A j \in 0 .. n : j <= k + 1 => j <= k \/ j = k + 1
      OBVIOUS
    <3> QED
      BY <1>2, <3>1
  <2>1. j \in 1 .. Len(seq) /\ j \in 1 .. n
    BY <1>0
  <2>2. PICK t : t = nodes[j + 1] /\ IsWay(seq, j, t)
    BY <2>1
  <2>3. PICK m \in 0 .. n : m = t.prev /\ m <= k /\ t.length \in Nat /\ m + t.length = j
    <3>1. t.prev \in 0 .. Len(seq) /\ t.length \in 1 .. Len(seq) - t.prev /\ t.prev + t.length = j
      BY <2>2 DEF IsWay, CanGo
    <3>2. t.prev \in 0 .. n /\ t.prev <= k /\ t.length \in Nat
      BY <1>0, <2>1, <3>1
    <3> QED
      BY <3>1, <3>2
  <2>4. PICK from : from = table[m + 1]
    OBVIOUS
  <2>5. from.list = ways[m].list
    BY <1>2, <2>3, <2>4
  <2>6. from \in State /\ IsList(from.list)
    <3>1. table \in Seq(State) /\ Len(table) = Len(seq) + 1
      BY DEF IsTable
    <3>2. m + 1 \in 1 .. Len(table) /\ m \in 0 .. Len(seq)
      BY <1>0, <3>1
    <3>3. table[m + 1] \in State
      BY <3>1, <3>2
    <3>4. IsList(table[m + 1].list)
      BY <3>2 DEF IsTable
    <3> QED
      BY <2>4, <3>3, <3>4
  <2>7. table[j + 1] = Onward(seq, nodes, j, from)
    <3>1. table[j + 1] = Onward(seq, nodes, j, table[nodes[j + 1].prev + 1])
      BY <2>1 DEF IsTable
    <3> QED
      BY <2>2, <2>3, <2>4, <3>1
  <2>8. table[j + 1].list = NextList(seq, nodes, j, from.list)
    <3>1. IsWay(seq, j, nodes[j + 1])
      BY <2>2
    <3>2. Onward(seq, nodes, j, from).list = NextList(seq, nodes, j, from.list)
      BY <2>1, <2>6, <3>1, OnwardIs, Zenon
    <3> QED
      BY <2>7, <3>2
  <2>9. ways[j] = IF Single(nodes, j) THEN PushOp(ways[m], seq[j]) ELSE ways[m]
    <3>1. ways[j] = WayOn(seq, nodes, ways, j)
      BY <2>1 DEF AreWays
    <3> QED
      BY <2>2, <2>3, <3>1 DEF WayOn
  <2>10. Single(nodes, j) <=> t.length = 1
    BY <2>2, <2>3, SMTT(30) DEF Single
  <2>11. PushOp(ways[m], seq[j]).list = Rotate(ways[m].list, Find(ways[m].list, seq[j]))
    BY DEF PushOp
  <2> QED
    BY <2>2, <2>5, <2>8, <2>9, <2>10, <2>11 DEF NextList
<1>3. n \in Good
  <2>1. Nat \subseteq Good
    <3> HIDE DEF Good
    <3> QED
      BY <1>1, <1>2, Counting
  <2> QED
    BY <2>1
<1> QED
  BY <1>0, <1>3

\* No node of the graph is left unreached.
LEMMA GraphIsReached ==
  ASSUME NEW seq, IsShort(seq), NEW j \in 0 .. Len(seq)
  PROVE  Graph(seq)[j + 1].weight # Unreached
<1>0. PICK n \in Nat : n = Len(seq)
  BY DEF IsShort
<1>1. IsReached(seq, Graph(seq), n)
  <2>1. n \in 0 .. Len(seq)
    BY <1>0
  <2>2. IsReached(seq, Relaxed(seq)[n].nodes, n)
    BY <2>1, RoundsReach
  <2> QED
    BY <1>0, <2>2 DEF Graph
<1>2. Graph(seq)[j + 1].weight <= 140 * j
  BY <1>0, <1>1 DEF IsReached
<1>3. Shift(16) = 65536
  BY DEF Shift
<1>4. j \in Nat /\ j < 65536
  BY <1>0, <1>3 DEF IsShort
<1>5. Graph(seq)[j + 1].weight \in Int
  BY <1>0, <1>1, NodeOf DEF IsReached
<1> QED
  BY <1>2, <1>4, <1>5, SMT DEF Unreached

\* The ways of the graph cost ten times what is written on them.
WaysArePaid(seq, nodes, table) ==
    \A i \in 1 .. Len(seq) :
        ~ (nodes[i + 1].length > 1 /\ nodes[i + 1].offset = -1) =>
            nodes[i + 1].weight - nodes[nodes[i + 1].prev + 1].weight =
                10 * Len(Piece(seq, nodes, i, table[nodes[i + 1].prev + 1].list))

\* The costs of a text.
LEMMA CostsOfText ==
  ASSUME NEW seq \in Seq(Char), IsShort(seq)
  PROVE  WaysArePaid(seq, Graph(seq), Written(seq, Graph(seq)))
<1>1. PICK nodes, table : nodes = Graph(seq) /\ table = Written(seq, nodes)
  OBVIOUS
<1>2. Len(nodes) = Len(seq) + 1 /\ \A j \in 1 .. Len(seq) : IsWay(seq, j, nodes[j + 1])
  BY <1>1, GraphHasWays
<1>3. IsTable(seq, nodes, table, Len(seq))
  BY <1>1, <1>2, WrittenIsTable
<1>4. HasPath(nodes, Len(seq))
  BY <1>1, GraphHasPath
<1>5. Len(seq) \in Nat
  OBVIOUS
<1>6. PICK ways : AreWays(seq, nodes, ways, Len(seq))
  BY <1>4, <1>5, WaysExist
<1>7. IsCosted(seq, nodes, ways, Len(seq))
  BY <1>1, <1>6, GraphIsCosted
<1>8. \A j \in 0 .. Len(seq) : table[j + 1].list = ways[j].list
  BY <1>2, <1>3, <1>6, ListsAgree
<1>9. ASSUME NEW i \in 1 .. Len(seq), ~ (nodes[i + 1].length > 1 /\ nodes[i + 1].offset = -1)
      PROVE  nodes[i + 1].weight - nodes[nodes[i + 1].prev + 1].weight =
                 10 * Len(Piece(seq, nodes, i, table[nodes[i + 1].prev + 1].list))
  <2>1. PICK t : t = nodes[i + 1]
    OBVIOUS
  <2>2. IsWay(seq, i, t)
    BY <1>2, <2>1
  <2>3. PICK m \in 0 .. Len(seq) : m = t.prev
    BY <2>2 DEF IsWay, CanGo
  <2>4. PICK list : list = table[m + 1].list
    OBVIOUS
  <2>5. list = ways[m].list /\ IsList(list)
    BY <1>3, <1>8, <2>4 DEF IsTable
  <2>6. t.weight # Unreached
    <3>1. i \in 0 .. Len(seq)
      BY <1>5
    <3> QED
      BY <1>1, <2>1, <3>1, GraphIsReached
  <2>7. IsPaid(seq, nodes, ways, t)
    BY <1>7, <1>9, <2>1, <2>6 DEF IsCosted
  <2>8. PICK cost : cost = t.weight - nodes[m + 1].weight
    OBVIOUS
  <2>9. HasCost(t.prev, Find(list, seq[t.prev + 1]), t.prev, t.length, t.offset, cost)
    BY <2>3, <2>5, <2>7, <2>8 DEF IsPaid
  <2>10. cost = 10 * Len(Piece(seq, nodes, i, list))
    BY <1>9, <2>1, <2>2, <2>5, <2>9, PaidAsWritten
  <2> QED
    BY <2>1, <2>3, <2>4, <2>8, <2>10
<1> QED
  BY <1>1, <1>9 DEF WaysArePaid

\* The way into a node of the graph that is not a stored block costs ten times the bits
\* written for it, on the list that the search has rolled back ("This is the correct cost
\* because we properly rolled back the MtF state just before").
THEOREM CostsAreReal == CodecSpec => []CostIsReal
<1>1. IsText => CostIsReal
  <2> SUFFICES ASSUME IsText PROVE CostIsReal
    OBVIOUS
  <2>1. text \in Seq(Char)
    BY DEF IsText
  <2>2. IsShort(text)
    BY TextsAreShort
  <2>3. WaysArePaid(text, Graph(text), Written(text, Graph(text)))
    BY <2>1, <2>2, CostsOfText
  <2> QED
    BY <2>3, Zenon DEF CostIsReal, WaysArePaid
<1> QED
  BY <1>1, TextsAreTexts, PTL
=============================================================================
