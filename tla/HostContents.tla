---------------------------- MODULE HostContents ----------------------------
(* What deploys promise the bot that reads the host, free of containers,     *)
(* copies in the making, errors and crashes: a deploy only adds what its     *)
(* lock names, nothing the bot can read is taken away while a deploy runs or *)
(* after it died, and a deploy that says it is done has everything there.    *)
CONSTANTS
  Jars,
  Wishes   \* what locks name: sets of images, of versions and of <<jar, content>>

VARIABLES
  pulled,     \* the images that are there
  stocked,    \* the versions that are there, with all of their classes
  classpath,  \* the content of each jar, or "absent"
  wish,       \* what the last deploy was asked for
  phase       \* "over", "underway" or "kept"

contentsVars == <<pulled, stocked, classpath, wish, phase>>

ContentsInit ==
  /\ pulled = {} /\ stocked = {}
  /\ classpath = [j \in Jars |-> "absent"]
  /\ wish \in Wishes
  /\ phase = "over"

\* Whatever became of the deploy before it.
Ask(w) ==
  /\ phase # "underway"
  /\ wish' = w /\ phase' = "underway"
  /\ UNCHANGED <<pulled, stocked, classpath>>

Pull(i) ==
  /\ phase = "underway" /\ i \in wish.images
  /\ pulled' = pulled \union {i}
  /\ UNCHANGED <<stocked, classpath, wish, phase>>

\* A version comes into place in one step, and once.
Stock(v) ==
  /\ phase = "underway" /\ v \in wish.majors \ stocked
  /\ stocked' = stocked \union {v}
  /\ UNCHANGED <<pulled, classpath, wish, phase>>

\* So does a jar, in the place of another content of it.
Install(j, s) ==
  /\ phase = "underway" /\ <<j, s>> \in wish.jars
  /\ classpath' = [classpath EXCEPT ![j] = s]
  /\ UNCHANGED <<pulled, stocked, wish, phase>>

Keep ==
  /\ phase = "underway"
  /\ wish.images \subseteq pulled
  /\ wish.majors \subseteq stocked
  /\ \A e \in wish.jars : classpath[e[1]] = e[2]
  /\ phase' = "kept"
  /\ UNCHANGED <<pulled, stocked, classpath, wish>>

\* An error, or the death of the deploy: what is there stays.
Break ==
  /\ phase = "underway"
  /\ phase' = "over"
  /\ UNCHANGED <<pulled, stocked, classpath, wish>>

ContentsNext ==
  \/ \E w \in Wishes : Ask(w)
  \/ \E i \in wish.images : Pull(i)
  \/ \E v \in wish.majors : Stock(v)
  \/ \E e \in wish.jars : Install(e[1], e[2])
  \/ Keep
  \/ Break

ContentsSpec == ContentsInit /\ [][ContentsNext]_contentsVars

(* Nothing that can be read is taken away, and the content of a jar changes  *)
(* only to one that is asked for at the time.                                *)
OnlyAsked ==
  [][/\ pulled \subseteq pulled' /\ stocked \subseteq stocked'
     /\ \A j \in Jars : classpath'[j] # classpath[j] => <<j, classpath'[j]>> \in wish.jars
    ]_contentsVars

(* Once kept, a wish is fulfilled until the next is asked for.               *)
KeptIsFulfilled ==
  phase = "kept" =>
    /\ wish.images \subseteq pulled
    /\ wish.majors \subseteq stocked
    /\ \A e \in wish.jars : classpath[e[1]] = e[2]
=============================================================================
