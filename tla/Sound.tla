-------------------------------- MODULE Sound --------------------------------
(***************************************************************************)
(* Effects and music (sfx.cpp).  The cart calls sfx() and music() on the   *)
(* game thread; the audio thread asks for samples (get_audio) and advances *)
(* the music and the channels.  There is no lock between the two, and both *)
(* run set_music_pattern and launch_sfx on what they share.                *)
(*                                                                         *)
(* A step of a thread is the code between two tests: it reads what it      *)
(* tests and computes, and has stores under way, all of one channel or of  *)
(* the music, which come to memory one by one and in any order, before its *)
(* next step.  The other thread may do anything in between.                *)
(*                                                                         *)
(* A tick is the time after which something can change: how long a sound   *)
(* has played (in notes, in the code) is counted in ticks, speed of them   *)
(* to a note.  The waveforms and where in them a sound is are left out.    *)
(***************************************************************************)
EXTENDS Integers, FiniteSets, FiniteSetsExt

CONSTANTS
    Channels,     \* 0 .. 3 in the code
    Sfx,          \* [speed, loopStart, loopEnd, lastNote] of each effect
    Song,         \* [sfx : Channels -> effect or None, start, loop, stop] of each pattern
    Notes,        \* 32: notes in an effect
    Loud,         \* full volume of the music
    MaxCalls,     \* bound: calls of the cart
    Songs,        \* bound: what music() is called with: <<pattern, fades, mask>>
    Shots,        \* bound: what sfx() is called with: <<effect, channel or None, length>>
    Chosen,       \* bound: the channels that sfx(-1) and sfx(-2) may name
    Together      \* bound: the fields whose stores come to memory at once

Effects == DOMAIN Sfx
Patterns == DOMAIN Song
None == -1

ASSUME SoundConstants ==
    /\ Channels # {} /\ Channels \subseteq Nat /\ IsFiniteSet(Channels)
    /\ Effects \subseteq Nat /\ Patterns \subseteq Nat
    /\ Notes \in Nat \ {0} /\ Loud \in Nat \ {0} /\ MaxCalls \in Nat
    /\ \A s \in Effects : /\ Sfx[s].speed \in Nat /\ Sfx[s].lastNote \in Nat
                          /\ Sfx[s].loopStart \in Nat /\ Sfx[s].loopEnd \in Nat
    /\ \A p \in Patterns : Song[p].sfx \in [Channels -> Effects \cup {None}]
    /\ Songs \subseteq Patterns \X BOOLEAN \X SUBSET Channels
    /\ Shots \subseteq Effects \X (Channels \cup {None}) \X Nat /\ Chosen \subseteq Channels

Threads == {"cart", "audio"}
Other(t) == IF t = "cart" THEN "audio" ELSE "cart"

VARIABLES
    mem,     \* what the threads share: <<channel, field>> or <<None, field>>, the music
    pending, \* thread -> its stores that are under way
    pc,      \* thread -> what it does next
    todo,    \* thread -> the channels its loop has not been at
    goal,    \* thread -> the pattern it sets
    play,    \* the cart's sfx(): [sfx, on, length]
    beat,    \* the audio thread's music: [pattern, offset, fade], as it has computed them
    still,   \* is_pause of the audio thread
    paused,  \* the menu or the cart has paused the music
    calls,
    torn,    \* history: the music is of two threads at once
    crossed  \* history: the channels where two launches met

threads == <<pending, pc, todo, goal, play, beat, still>>
vars == <<mem, threads, paused, calls, torn, crossed>>

ChannelFields == {"sfx", "time", "length", "loop", "ofMusic", "waiting"}
MusicFields == {"pattern", "offset", "length", "mask", "fade", "step"}
Places == (Channels \X ChannelFields) \cup ({None} \X MusicFields)

Playing(c) == mem[<<c, "sfx">>]
OfMusic(c) == mem[<<c, "ofMusic">>]
Waiting(c) == mem[<<c, "waiting">>]  \* a sound of the music that an effect keeps waiting
Music(f) == mem[<<None, f>>]

\* The stores that set these fields of a channel, or of the music.
At(c, fields) == [place \in {c} \X DOMAIN fields |-> fields[place[2]]]
NoStores == At(None, << >>)

Silent == [sfx |-> None, time |-> 0, length |-> 0, loop |-> TRUE, ofMusic |-> FALSE, waiting |-> None]
NoMusic == [pattern |-> None, offset |-> -1, length |-> 0, mask |-> {}, fade |-> 0, step |-> 0]

NoPlay == [sfx |-> None, on |-> None, length |-> 0]
NoBeat == [pattern |-> None, offset |-> -1, fade |-> 0]

Init ==
    /\ mem = [place \in Places |->
                 IF place[1] = None THEN NoMusic[place[2]] ELSE Silent[place[2]]]
    /\ pending = [t \in Threads |-> NoStores]
    /\ pc = [t \in Threads |-> IF t = "cart" THEN "idle" ELSE "channel"]
    /\ todo = [t \in Threads |-> {}]
    /\ goal = [t \in Threads |-> None] /\ play = NoPlay /\ beat = NoBeat
    /\ still = FALSE /\ paused = FALSE /\ calls = 0
    /\ torn = FALSE /\ crossed = {}
-----------------------------------------------------------------------------
AtMost(a, b) == IF a < b THEN a ELSE b
AtLeast(a, b) == IF a > b THEN a ELSE b

\* "Speed must be 1-255"
Speed(s) == AtLeast(1, Sfx[s].speed)
LoopRange(s) == Sfx[s].loopEnd - Sfx[s].loopStart

\* The note after which a sound ends, None: it does not.
EndNote(s, len, ofMusic) ==
    LET all == IF len > 0 THEN len ELSE Notes
        cut == ~ofMusic /\ Sfx[s].loopEnd = 0 /\ Sfx[s].loopStart > 0
        short == IF cut THEN AtMost(all, Sfx[s].loopStart) ELSE all
    IN  IF LoopRange(s) <= 0
        THEN IF ofMusic THEN short ELSE AtMost(short, Sfx[s].lastNote)
        ELSE IF len > 0 \/ cut THEN short ELSE None

\* Nothing is compared past this.
Past == (Notes + 1) * Max({Speed(s) : s \in Effects} \cup {1})

\* The length of a pattern: of its first channel that does not loop, or of the
\* slowest of those before it; 0 when there is nothing to play.
PatternLengths ==
    [p \in Patterns |->
        LET heard == {c \in Channels : Song[p].sfx[c] # None}
            s(c) == Song[p].sfx[c]
            straight == {c \in heard : ~(Sfx[s(c)].loopEnd > 0 /\ LoopRange(s(c)) > 0)}
            before == {c \in heard : \A d \in straight : c < d}
            ends(c) == (IF Sfx[s(c)].loopEnd = 0 /\ Sfx[s(c)].loopStart > 0
                        THEN AtMost(Notes, Sfx[s(c)].loopStart) ELSE Notes) * Sfx[s(c)].speed
            end == IF straight = {} THEN 0 ELSE ends(Min(straight))
        IN  IF end > 0 THEN end ELSE Max({0} \cup {Notes * Sfx[s(c)].speed : c \in before})]

\* After a song's last pattern, or one with a stop, nothing; after one with a
\* loop, the last pattern back that starts one, or the first.
NextPattern(p) ==
    IF Song[p].stop THEN None
    ELSE IF Song[p].loop THEN Max({0} \cup {q \in Patterns : q <= p /\ q > 0 /\ Song[q].start})
    ELSE p + 1
-----------------------------------------------------------------------------
(* What both threads do.                                                   *)

\* The thread is at this point, its last stores in memory.
Ready(t, at) == pc[t] = at /\ pending[t] = NoStores
Goes(t, at, chans) == pc' = [pc EXCEPT ![t] = at] /\ todo' = [todo EXCEPT ![t] = chans]
Stores(t, stores) == pending' = [pending EXCEPT ![t] = stores]
First(t, c) == c \in todo[t] /\ \A d \in todo[t] : c <= d

Land(t) ==
    /\ \E word \in Together :
          LET places == {p \in DOMAIN pending[t] : p[2] \in word}
          IN  /\ places # {}
              /\ mem' = [p \in Places |-> IF p \in places THEN pending[t][p] ELSE mem[p]]
              /\ Stores(t, [p \in DOMAIN pending[t] \ places |-> pending[t][p]])
    /\ UNCHANGED <<pc, todo, goal, play, beat, still, paused, calls, torn, crossed>>

\* launch_sfx
Launched(s, len, ofMusic) == [sfx |-> s, time |-> 0, length |-> len, loop |-> TRUE, ofMusic |-> ofMusic]
AndWaiting(fields, s) ==
    [f \in DOMAIN fields \cup {"waiting"} |-> IF f = "waiting" THEN s ELSE fields[f]]

\* The thread has stores of a launch on the channel under way.
Launching(t, c) ==
    \/ <<c, "ofMusic">> \in DOMAIN pending[t]
    \/ <<c, "sfx">> \in DOMAIN pending[t] /\ pending[t][<<c, "sfx">>] # None
Mixes(t, c) == crossed' = IF Launching(Other(t), c) THEN crossed \cup {c} ELSE crossed \ {c}

\* Between its first look at the music and its last store to it, a thread must be alone.
InMusic(t) ==
    \/ pc[t] \in {"decide", "stop"}
    \/ \E f \in {"pattern", "offset", "length", "mask"} : <<None, f>> \in DOMAIN pending[t]

(* set_music_pattern.  It stops the sounds of the music, sets the pattern,  *)
(* and starts those of the new one, or has them wait for an effect.         *)

StopSound(t, c) ==
    /\ Ready(t, "stop") /\ First(t, c)
    /\ Stores(t, IF OfMusic(c) THEN At(c, [sfx |-> None, waiting |-> None]) ELSE NoStores)
    /\ Goes(t, "stop", todo[t] \ {c})
    /\ UNCHANGED <<mem, goal, play, beat, still, paused, calls, torn, crossed>>

\* It has the sounds of the pattern on these channels to start, or returns.
Starts(t, chans) ==
    IF chans # {} THEN Goes(t, "start", chans) /\ UNCHANGED goal
    ELSE /\ IF t = "cart" THEN Goes(t, "idle", {}) ELSE Goes(t, "channel", Channels)
         /\ goal' = [goal EXCEPT ![t] = None]

\* Mutant: a pattern with nothing to play is played.
SetEmptyPattern(t) ==
    /\ Ready(t, "stop") /\ todo[t] = {}
    /\ IF goal[t] \in Patterns
       THEN /\ Stores(t, At(None, [pattern |-> goal[t], offset |-> 0, length |-> PatternLengths[goal[t]]]))
            /\ Starts(t, {c \in Channels : Song[goal[t]].sfx[c] # None})
       ELSE /\ Stores(t, At(None, [pattern |-> None, offset |-> -1, length |-> 0, mask |-> {}]))
            /\ Starts(t, {})
    /\ torn' = InMusic(Other(t))
    /\ UNCHANGED <<mem, play, beat, still, paused, calls, crossed>>

SetPattern(t) ==
    /\ Ready(t, "stop") /\ todo[t] = {}
    /\ IF goal[t] \in Patterns /\ PatternLengths[goal[t]] > 0
       THEN /\ Stores(t, At(None, [pattern |-> goal[t], offset |-> 0, length |-> PatternLengths[goal[t]]]))
            /\ Starts(t, {c \in Channels : Song[goal[t]].sfx[c] # None})
       ELSE /\ Stores(t, At(None, [pattern |-> None, offset |-> -1, length |-> 0, mask |-> {}]))
            /\ Starts(t, {})
    /\ torn' = InMusic(Other(t))
    /\ UNCHANGED <<mem, play, beat, still, paused, calls, crossed>>

StartSound(t, c) ==
    /\ Ready(t, "start") /\ First(t, c)
    /\ IF Playing(c) = None
       THEN Stores(t, At(c, Launched(Song[goal[t]].sfx[c], 0, TRUE))) /\ Mixes(t, c)
       ELSE Stores(t, At(c, [waiting |-> Song[goal[t]].sfx[c]])) /\ UNCHANGED crossed
    /\ Starts(t, todo[t] \ {c})
    /\ UNCHANGED <<mem, play, beat, still, paused, calls, torn>>

SetMusicPattern(t) == SetPattern(t) \/ \E c \in Channels : StopSound(t, c) \/ StartSound(t, c)
-----------------------------------------------------------------------------
(* The cart, on the game thread.                                           *)

Call == Ready("cart", "idle") /\ calls < MaxCalls /\ calls' = calls + 1

\* music(pattern, fade, mask)
MusicPlay(p, fades, mask) ==
    /\ Call
    /\ Stores("cart", At(None, [mask |-> mask, fade |-> IF fades THEN 0 ELSE Loud,
                                step |-> IF fades THEN (Loud + 1) \div 2 ELSE 0]))
    /\ goal' = [goal EXCEPT !["cart"] = p] /\ Goes("cart", "stop", Channels)
    /\ torn' = (torn \/ InMusic("audio"))
    /\ UNCHANGED <<mem, play, beat, still, paused, crossed>>

\* music(-1, fade): the audio thread stops the music when the volume is down.  The
\* step is a part of the volume there is: with no volume yet, no step.
MusicStop(fades) ==
    /\ Call
    /\ Stores("cart", At(None, [step |-> IF fades THEN -((Music("fade") + 1) \div 2) ELSE -Loud]))
    /\ UNCHANGED <<mem, pc, todo, goal, play, beat, still, paused, torn, crossed>>

\* sfx(-1, chan) and sfx(-1), sfx(-2, chan) and sfx(-2)
SfxCall(at, chans) ==
    /\ Call
    /\ Goes("cart", at, chans)
    /\ UNCHANGED <<mem, pending, goal, play, beat, still, paused, torn, crossed>>

\* Of the channels that do not play music, the sound stops, or its loop is let go.
Leave(at, fields) ==
    /\ Ready("cart", at)
    /\ \E c \in Channels :
          /\ First("cart", c)
          /\ Stores("cart", IF OfMusic(c) THEN NoStores ELSE At(c, fields))
          /\ Goes("cart", IF todo["cart"] = {c} THEN "idle" ELSE at, todo["cart"] \ {c})
    /\ UNCHANGED <<mem, goal, play, beat, still, paused, calls, torn, crossed>>

SfxStop == Leave("silence", [sfx |-> None])
SfxRelease == Leave("release", [loop |-> FALSE])

\* The channel an effect is played on when the cart names none: free or playing it
\* already, else one of the music's, else the fastest.  (One that the audio thread has
\* changed while the code looks at the others is one that the cart may name.)
AutoChannel(s) ==
    LET open == Channels \ Music("mask")
        ready == {c \in open : Playing(c) \in {None, s}}
        taken == {c \in open : OfMusic(c)}
        speed(c) == Sfx[Playing(c)].speed
        fastest == {c \in open : Playing(c) # None /\ \A d \in open : Playing(d) # None => speed(c) <= speed(d)}
    IN  IF ready # {} THEN Min(ready)
        ELSE IF taken # {} THEN Min(taken)
        ELSE IF fastest # {} THEN Max(fastest) ELSE None

\* sfx(s, chan, offset, length), chan None: any.
SfxPlay(s, chan, len) ==
    LET c == IF chan = None THEN AutoChannel(s) ELSE chan
    IN  /\ Call
        /\ c \in Channels
        /\ play' = [sfx |-> s, on |-> c, length |-> len]
        /\ Goes("cart", "once", Channels)
        /\ UNCHANGED <<mem, pending, goal, beat, still, paused, torn, crossed>>

\* Mutant: the effect goes on where it plays already.
OnceOrTwice(c) ==
    /\ Ready("cart", "once") /\ First("cart", c)
    /\ Stores("cart", NoStores)
    /\ Goes("cart", "once", todo["cart"] \ {c})
    /\ UNCHANGED <<mem, goal, play, beat, still, paused, calls, torn, crossed>>

\* The effect stops where it plays already ...
Once(c) ==
    /\ Ready("cart", "once") /\ First("cart", c)
    /\ Stores("cart", IF Playing(c) = play.sfx THEN At(c, [sfx |-> None]) ELSE NoStores)
    /\ Goes("cart", "once", todo["cart"] \ {c})
    /\ UNCHANGED <<mem, goal, play, beat, still, paused, calls, torn, crossed>>

\* ... and the music it takes the place of waits.
PlayOn(c) ==
    LET launched == Launched(play.sfx, play.length, FALSE)
    IN  /\ Ready("cart", "once") /\ todo["cart"] = {} /\ c = play.on
        /\ Stores("cart", IF Playing(c) # None /\ OfMusic(c)
                          THEN At(c, AndWaiting(launched, Playing(c))) ELSE At(c, launched))
        /\ Mixes("cart", c)
        /\ Goes("cart", "idle", {}) /\ play' = NoPlay
        /\ UNCHANGED <<mem, goal, beat, still, paused, calls, torn>>

\* The pause menu, or a cart that pauses the music.
Pause ==
    /\ Call
    /\ paused' = ~paused
    /\ UNCHANGED <<mem, threads, torn, crossed>>

\* A cart has at most a few calls in it, and need not make them.
Calls ==
    \/ \E song \in Songs : MusicPlay(song[1], song[2], song[3])
    \/ \E fades \in BOOLEAN : MusicStop(fades)
    \/ \E at \in {"silence", "release"}, chans \in {Channels} \cup {{c} : c \in Chosen} : SfxCall(at, chans)
    \/ \E shot \in Shots : SfxPlay(shot[1], shot[2], shot[3])
    \/ Pause

\* What it has begun it ends.
GoesOn ==
    \/ Land("cart") \/ SetMusicPattern("cart")
    \/ SfxStop \/ SfxRelease
    \/ \E c \in Channels : Once(c) \/ PlayOn(c)
-----------------------------------------------------------------------------
(* The audio thread: for each tick, the music once and each channel.       *)

AdvanceMusic ==
    LET fade == AtLeast(0, AtMost(Loud, Music("fade") + Music("step")))
        offset == Music("offset") + 1
    IN  /\ Ready("audio", "channel") /\ todo["audio"] = {}
        /\ still' = paused
        /\ IF Music("pattern") = None \/ paused
           THEN /\ Goes("audio", "channel", Channels)
                /\ UNCHANGED <<pending, beat, torn>>
           ELSE /\ Stores("audio", At(None, [offset |-> offset, fade |-> fade]))
                /\ beat' = [pattern |-> Music("pattern"), offset |-> offset, fade |-> fade]
                /\ Goes("audio", "decide", {})
                /\ torn' = (torn \/ InMusic("cart"))
        /\ UNCHANGED <<mem, goal, play, paused, calls, crossed>>

\* Mutant: the volume is compared before it is kept at 0.
DecideUnderZero ==
    /\ Ready("audio", "decide")
    /\ IF Music("step") < 0 /\ beat.fade < 0
       THEN goal' = [goal EXCEPT !["audio"] = None] /\ Goes("audio", "stop", Channels)
       ELSE IF beat.offset >= Music("length")
       THEN /\ goal' = [goal EXCEPT !["audio"] = NextPattern(beat.pattern)]
            /\ Goes("audio", "stop", Channels)
       ELSE Goes("audio", "channel", Channels) /\ UNCHANGED goal
    /\ beat' = NoBeat
    /\ UNCHANGED <<mem, pending, play, still, paused, calls, torn, crossed>>

\* The music ends with its volume, or goes on to the next pattern.
Decide ==
    /\ Ready("audio", "decide")
    /\ IF Music("step") < 0 /\ beat.fade <= 0
       THEN goal' = [goal EXCEPT !["audio"] = None] /\ Goes("audio", "stop", Channels)
       ELSE IF beat.offset >= Music("length")
       THEN /\ goal' = [goal EXCEPT !["audio"] = NextPattern(beat.pattern)]
            /\ Goes("audio", "stop", Channels)
       ELSE Goes("audio", "channel", Channels) /\ UNCHANGED goal
    /\ beat' = NoBeat
    /\ UNCHANGED <<mem, pending, play, still, paused, calls, torn, crossed>>

\* A sound that waited starts where it would be by now, unless that is past its end.
Relaunch(c) ==
    LET s == Waiting(c)
        loops == LoopRange(s) > 0 /\ mem[<<c, "loop">>]
    IN  /\ Ready("audio", "channel") /\ First("audio", c)
        /\ Goes("audio", "sound", todo["audio"])
        /\ IF Playing(c) = None /\ s # None /\ ~still
           THEN IF loops \/ Music("offset") <= Notes * Speed(s)
                THEN Stores("audio", At(c, AndWaiting(Launched(s, 0, TRUE), None))) /\ Mixes("audio", c)
                ELSE Stores("audio", At(c, [waiting |-> None])) /\ UNCHANGED crossed
           ELSE UNCHANGED <<pending, crossed>>
        /\ UNCHANGED <<mem, goal, play, beat, still, paused, calls, torn>>

\* Mutant: a sound that ends goes back to its start.
UpdateKeeps(c) ==
    LET s == Playing(c)
        now == AtMost(mem[<<c, "time">>] + 1, Past)
        end == EndNote(s, mem[<<c, "length">>], OfMusic(c))
    IN  /\ Ready("audio", "sound") /\ First("audio", c)
        /\ Goes("audio", "channel", todo["audio"] \ {c})
        /\ Stores("audio", IF s = None \/ still THEN NoStores
                           ELSE IF end # None /\ now >= end * Speed(s)
                           THEN At(c, [time |-> 0]) ELSE At(c, [time |-> now]))
        /\ UNCHANGED <<mem, goal, play, beat, still, paused, calls, torn, crossed>>

\* update_sfx_state: how long the sound has played, and whether it ends, are stored
\* over whatever the cart has set the channel to since.
Update(c) ==
    LET s == Playing(c)
        now == AtMost(mem[<<c, "time">>] + 1, Past)
        end == EndNote(s, mem[<<c, "length">>], OfMusic(c))
    IN  /\ Ready("audio", "sound") /\ First("audio", c)
        /\ Goes("audio", "channel", todo["audio"] \ {c})
        /\ Stores("audio", IF s = None \/ still THEN NoStores
                           ELSE IF end # None /\ now >= end * Speed(s)
                           THEN At(c, [time |-> now, sfx |-> None]) ELSE At(c, [time |-> now]))
        /\ UNCHANGED <<mem, goal, play, beat, still, paused, calls, torn, crossed>>

Audio ==
    \/ Land("audio") \/ AdvanceMusic \/ Decide \/ SetMusicPattern("audio")
    \/ \E c \in Channels : Relaunch(c) \/ Update(c)
-----------------------------------------------------------------------------
Next == Calls \/ GoesOn \/ Audio
Spec == Init /\ [][Next]_vars
\* The device keeps asking for samples; the cart need not call anything, nor end a call
\* soon.
FairSpec == Spec /\ WF_vars(Audio)
-----------------------------------------------------------------------------
(* Properties.                                                             *)

\* What a channel plays is of one launch, which has come to memory.
Whole(c) == c \notin crossed /\ \A t \in Threads : ~Launching(t, c)

\* An effect the cart plays is heard once: whatever channels it names, whichever the
\* code picks, and whatever the audio thread starts, ends or moves on meanwhile, no two
\* channels play the same effect for the cart (the loop over the channels in api_sfx),
\* but where both threads have launched a sound on one channel at the same time.
OneVoicePerEffect ==
    \A c, d \in Channels :
        c # d /\ Whole(c) /\ Whole(d) /\ Playing(c) # None /\ ~OfMusic(c) /\ ~OfMusic(d)
            => Playing(c) # Playing(d)

\* The music is at a pattern of the song that has something to play, and not past its
\* end; when it is at none, no channel is reserved any more.  This holds whenever no
\* thread is setting it, until both do at the same time, and again from the next
\* pattern that one of them sets alone.
PatternHasTime ==
    ~torn /\ (\A t \in Threads : ~InMusic(t))
      => IF Music("pattern") = None THEN Music("mask") = {} /\ Music("offset") = -1
         ELSE Music("pattern") \in Patterns /\ Music("offset") \in 0 .. Music("length") - 1

\* A channel is not lost: effects that do not loop end, once the cart plays no more
\* of them, unless the sound is paused - also when a launch falls between what the
\* audio thread reads and what it stores.
EffectEnds ==
    LET ending(c) == Playing(c) # None /\ LoopRange(Playing(c)) <= 0 /\ ~OfMusic(c)
    IN  \A c \in Channels : ending(c) ~> ~ending(c) \/ paused

\* "Music will stop when fade out is finished" (api_music): the volume of a music
\* that fades out reaches 0 and the music stops there, if the cart does not start
\* another and the sound is not paused.
FadeOutEnds ==
    (Music("pattern") # None /\ Music("step") < 0)
        ~> (Music("pattern") = None \/ Music("step") >= 0 \/ paused)
=============================================================================
