-------------------------- MODULE SoundInvariants --------------------------
(***************************************************************************)
(* The inductive invariants of Sound, from which EngineProofs has          *)
(* OneVoicePerEffect and PatternHasTime.                                   *)
(***************************************************************************)
EXTENDS Sound

\* What the place will hold when the stores of this thread have come to memory.
Seen(t, place) == IF place \in DOMAIN pending[t] THEN pending[t][place] ELSE mem[place]

\* The channel plays an effect for the cart.
Voiced(c) == Whole(c) /\ ~OfMusic(c) /\ Playing(c) # None

\* The stores of a thread are of one channel, or of the music.
OfOnePlace(stores) == \E c : \A p \in DOMAIN stores : p[1] = c

PendingStores ==
  /\ DOMAIN pending = Threads /\ DOMAIN pc = Threads /\ DOMAIN todo = Threads
  /\ \A t \in Threads : OfOnePlace(pending[t])
  /\ pc["cart"] = "once" => play.sfx # None /\ \A c \in Channels : ~Launching("cart", c)

\* Two threads that launch on a channel have met there; the audio thread launches
\* sounds of the music.
Launches ==
  /\ \A c \in Channels : Launching("cart", c) /\ Launching("audio", c) => c \in crossed
  /\ \A c \in Channels :
       <<c, "ofMusic">> \in DOMAIN pending["audio"] => pending["audio"][<<c, "ofMusic">>] = TRUE
  /\ \A c \in Channels \ crossed :
       Launching("audio", c) => Seen("audio", <<c, "ofMusic">>) = TRUE

\* The channels the cart has looked at do not play the effect it is about to play.
StoppedElsewhere ==
  pc["cart"] = "once" =>
    \A c \in Channels \ todo["cart"] :
      Voiced(c) => Playing(c) # play.sfx \/ <<c, "sfx">> \in DOMAIN pending["cart"]

\* What the cart launches plays nowhere else.
LaunchedOnce ==
  \A c \in Channels \ crossed :
    Launching("cart", c) /\ Seen("cart", <<c, "ofMusic">>) # TRUE =>
      /\ <<c, "sfx">> \in DOMAIN pending["cart"] => pending["cart"][<<c, "sfx">>] # None
      /\ \A d \in Channels \ {c} : Voiced(d) => Seen("cart", <<c, "sfx">>) # Playing(d)

OneVoiceInv ==
  PendingStores /\ Launches /\ StoppedElsewhere /\ LaunchedOnce /\ OneVoicePerEffect
-----------------------------------------------------------------------------
(* The music.                                                              *)

\* What the property says of the music, and that its numbers are whole.
Lasts(pattern, offset, length, mask) ==
  /\ offset \in Int /\ length \in Int
  /\ IF pattern = None THEN mask = {} /\ offset = -1
     ELSE pattern \in Patterns /\ 0 <= offset /\ offset < length

MusicLasts == Lasts(Music("pattern"), Music("offset"), Music("length"), Music("mask"))

\* As it will be when the stores of the thread have come to memory.
LastsFor(t) ==
  Lasts(Seen(t, <<None, "pattern">>), Seen(t, <<None, "offset">>), Seen(t, <<None, "length">>),
        Seen(t, <<None, "mask">>))

\* While the audio thread decides, the music is at a pattern, and at the offset that it
\* goes by.
Deciding ==
  /\ Seen("audio", <<None, "pattern">>) \in Patterns
  /\ Seen("audio", <<None, "length">>) \in Int
  /\ Seen("audio", <<None, "offset">>) = beat.offset /\ beat.offset \in Nat

MusicInv ==
  /\ DOMAIN pending = Threads /\ DOMAIN pc = Threads
  /\ ~torn =>
       /\ \A t, u \in Threads : InMusic(t) /\ InMusic(u) => t = u
       /\ (\A t \in Threads : ~InMusic(t)) => MusicLasts
       /\ \A t \in Threads : InMusic(t) /\ pc[t] \notin {"decide", "stop"} => LastsFor(t)
       /\ pc["audio"] = "decide" => Deciding
=============================================================================
