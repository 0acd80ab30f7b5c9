----------------------------- MODULE Community -----------------------------
(***************************************************************************)
(* What the members of the loyalty service do besides buying: likes, the   *)
(* activations of a promo code and the streak of daily visits, which the   *)
(* replicas of the API keep in Redis by reading it and writing it back.    *)
(***************************************************************************)
EXTENDS Integers, FiniteSets

CONSTANTS Fans,            \* the members who like a post
          PromoMaxUses,    \* max_uses, 0 for no limit
          MaxActivations,  \* how many activations are published or repeated
          Replicas,        \* of the API
          MaxDay           \* the last day

ASSUME CommunityAssumption ==
  /\ IsFiniteSet(Fans) /\ PromoMaxUses \in Nat /\ MaxActivations \in Nat /\ MaxDay \in Nat \ {0}

VARIABLES
  likes,        \* post_likes
  likesCount,   \* posts.likes_count
  promoUses,    \* promos.current_uses
  promoOver,    \* the promo expired or was closed
  activations,  \* the messages of the promos topic: queued and delivered
  day,          \* today
  visited,      \* the days on which a visit was recorded
  pending,      \* the visit worker of every replica holds a visit
  read,         \* what a replica read from Redis, and the day it took for today
  streak        \* the hash in Redis

communityVars == <<likes, likesCount, promoUses, promoOver, activations, day, visited, pending,
                   read, streak>>

Never == [current |-> 0, longest |-> 0, last |-> 0]
Unread == [today |-> 0, was |-> Never]

CommunityInit ==
  /\ likes = {} /\ likesCount = 0
  /\ promoUses = 0 /\ promoOver = FALSE /\ activations = [queued |-> 0, taken |-> 0]
  /\ day = 1 /\ visited = {} /\ streak = Never
  /\ pending = [r \in Replicas |-> FALSE] /\ read = [r \in Replicas |-> Unread]

post    == <<likes, likesCount>>
code    == <<promoUses, promoOver, activations>>
visits  == <<day, visited, pending, read, streak>>

\* Like: the row and the counter in one transaction; a second like adds neither.
Like(u) ==
  /\ likes' = likes \union {u}
  /\ likesCount' = IF u \in likes THEN likesCount ELSE likesCount + 1
  /\ UNCHANGED <<code, visits>>

Unlike(u) ==
  /\ likes' = likes \ {u}
  /\ likesCount' = IF u \notin likes THEN likesCount
                   ELSE IF likesCount > 0 THEN likesCount - 1 ELSE 0
  /\ UNCHANGED <<code, visits>>
-----------------------------------------------------------------------------
Available == ~promoOver /\ (PromoMaxUses = 0 \/ promoUses < PromoMaxUses)

\* activate: the handler looks at the promo and queues the activation.
Activate ==
  /\ Available /\ activations.queued < MaxActivations
  /\ activations' = [activations EXCEPT !.queued = @ + 1]
  /\ UNCHANGED <<post, promoUses, promoOver, visits>>

\* Mutant: the UPDATE counts whatever the promo's limit says.
IncrementUsesUnchecked == promoUses' = promoUses + 1

\* IncrementUses, one UPDATE whose condition looks at the promo again.
IncrementUses == promoUses' = IF Available THEN promoUses + 1 ELSE promoUses

OnActivated ==
  /\ activations.taken < activations.queued
  /\ activations' = [activations EXCEPT !.taken = @ + 1]
  /\ IncrementUses
  /\ UNCHANGED <<post, promoOver, visits>>

\* The offset of a handled message was not committed when the worker stopped.
ActivationRepeated ==
  /\ activations.taken > 0 /\ activations.queued < MaxActivations
  /\ activations' = [activations EXCEPT !.queued = @ + 1]
  /\ UNCHANGED <<post, promoUses, promoOver, visits>>

PromoExpires == ~promoOver /\ promoOver' = TRUE /\ UNCHANGED <<post, promoUses, activations, visits>>
-----------------------------------------------------------------------------
NextDay == day < MaxDay /\ day' = day + 1 /\ UNCHANGED <<post, code, visited, pending, read, streak>>

\* A request of the member reaches a replica's visit worker.
Visit(r) ==
  /\ pending' = [pending EXCEPT ![r] = TRUE]
  /\ UNCHANGED <<post, code, day, visited, read, streak>>

\* RecordVisit on a flush: the first half reads the hash.
ReadStreak(r) ==
  /\ pending[r] /\ read[r] = Unread
  /\ pending' = [pending EXCEPT ![r] = FALSE]
  /\ read' = [read EXCEPT ![r] = [today |-> day, was |-> streak]]
  /\ visited' = visited \union {day}
  /\ UNCHANGED <<post, code, day, streak>>

\* The streak a visit makes of the one that was read.
Extended(was, today) ==
  LET current == IF was.last = today - 1 /\ was.last # 0 THEN was.current + 1 ELSE 1
  IN  IF was.last = today THEN was
      ELSE [current |-> current, last |-> today,
            longest |-> IF current > was.longest THEN current ELSE was.longest]

WriteStreak(r) ==
  /\ read[r] # Unread
  /\ streak' = IF read[r].was.last = read[r].today THEN streak
               ELSE Extended(read[r].was, read[r].today)
  /\ read' = [read EXCEPT ![r] = Unread]
  /\ UNCHANGED <<post, code, day, visited, pending>>

PostNext  == \E u \in Fans : Like(u) \/ Unlike(u)
PromoNext == Activate \/ OnActivated \/ ActivationRepeated \/ PromoExpires
VisitNext == NextDay \/ \E r \in Replicas : Visit(r) \/ ReadStreak(r) \/ WriteStreak(r)

CommunityNext == PostNext \/ PromoNext \/ VisitNext

CommunitySpec == CommunityInit /\ [][CommunityNext]_communityVars
-----------------------------------------------------------------------------
CommunityTypeOK ==
  /\ likes \subseteq Fans /\ likesCount \in 0 .. Cardinality(Fans)
  /\ promoUses \in Nat /\ promoOver \in BOOLEAN
  /\ day \in 1 .. MaxDay /\ visited \subseteq 1 .. day

\* The counter of a post is the number of its likes.
LikesCounted == likesCount = Cardinality(likes)

\* No order of activations, repeated or not, uses a promo more often than it allows.
PromoWithinLimit == PromoMaxUses > 0 => promoUses <= PromoMaxUses

\* A stored streak is a run of days that were really visited, and so is the
\* longest one: a replica that writes late may shorten a streak, but no order of
\* reads and writes makes up a day.
StreakEarned ==
  /\ \A d \in streak.last - streak.current + 1 .. streak.last : streak.last > 0 => d \in visited
  /\ streak.current <= streak.longest
  /\ streak.longest > 0 => \E d \in visited : d .. d + streak.longest - 1 \subseteq visited

\* What the run checks of likes, promo codes and streaks (post_repo.go, promo_repo.go,
\* streak.go).
CommunityCounts == CommunityTypeOK /\ LikesCounted /\ PromoWithinLimit /\ StreakEarned
=============================================================================
