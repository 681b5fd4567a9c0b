------------------------------ MODULE Previews ------------------------------
(***************************************************************************)
(* PreviewStore of src/src/workspace_edits.rs: rename previews that a      *)
(* client has seen and may apply, oldest first, and the bytes they retain. *)
(* A preview has at least an id, the time it was made and its size.        *)
(***************************************************************************)
EXTENDS Naturals, Sequences

CONSTANTS
  MaxPreviews,    \* MAX_PENDING_PREVIEWS
  MaxBytes,       \* MAX_PENDING_BYTES
  Lifetime        \* PREVIEW_LIFETIME

ASSUME PreviewsAssumption ==
  /\ MaxPreviews \in Nat \ {0}
  /\ MaxBytes \in Nat
  /\ Lifetime \in Nat \ {0}

NoPreviews == [previews |-> <<>>, retained |-> 0]

Retained(previews) ==
  LET sum[n \in 0..Len(previews)] ==
        IF n = 0 THEN 0 ELSE sum[n - 1] + previews[n].size
  IN sum[Len(previews)]

Expired(preview, now) == now - preview.created >= Lifetime

\* pop_front, n times.
Dropped(store, n) ==
  [previews |-> SubSeq(store.previews, n + 1, Len(store.previews)),
   retained |-> store.retained - Retained(SubSeq(store.previews, 1, n))]

LeastOf(S) == CHOOSE n \in S : \A m \in S : n <= m

RemoveExpired(store, now) ==
  LET kept == {n \in 0..Len(store.previews) :
                 n < Len(store.previews)
                   => ~Expired(store.previews[n + 1], now)}
  IN Dropped(store, LeastOf(kept))

\* Room for one more: the oldest give way.
MakeRoom(store, size) ==
  LET enough == {n \in 0..Len(store.previews) :
                   /\ Len(store.previews) - n < MaxPreviews
                   /\ Dropped(store, n).retained + size <= MaxBytes}
  IN Dropped(store, LeastOf(enough))

\* The n-th preview, those after it and a new one are more than fits.
CrowdedOut(previews, n, preview) ==
  LET all == Append(SubSeq(previews, n, Len(previews)), preview) IN
  Len(all) > MaxPreviews \/ Retained(all) > MaxBytes

Added(store, preview) ==
  [previews |-> Append(store.previews, preview),
   retained |-> store.retained + preview.size]

\* The mutant that makes room before it knows whether that can be enough.
InsertEager(store, preview, now) ==
  LET fresh == RemoveExpired(store, now) IN
  IF preview.size > MaxBytes
    THEN [store |-> Dropped(fresh, Len(fresh.previews)), inserted |-> FALSE]
    ELSE [store |-> Added(MakeRoom(fresh, preview.size), preview),
          inserted |-> TRUE]

\* The mutant that forgets what the preview that is taken retained.
TakeRetaining(store, id, now) ==
  LET fresh == RemoveExpired(store, now)
      others == SelectSeq(fresh.previews, LAMBDA preview : preview.id # id)
      found == SelectSeq(fresh.previews, LAMBDA preview : preview.id = id)
  IN [store |-> [fresh EXCEPT !.previews = others], preview |-> found]

\* A preview that fits in no store is refused before any gives way.
Insert(store, preview, now) ==
  LET fresh == RemoveExpired(store, now) IN
  IF preview.size > MaxBytes THEN [store |-> fresh, inserted |-> FALSE]
  ELSE [store |-> Added(MakeRoom(fresh, preview.size), preview),
        inserted |-> TRUE]

\* The preview of this id and the store without it, or no preview.
Take(store, id, now) ==
  LET fresh == RemoveExpired(store, now)
      found == {n \in DOMAIN fresh.previews : fresh.previews[n].id = id}
  IN IF found = {} THEN [store |-> fresh, preview |-> <<>>]
     ELSE LET n == LeastOf(found) IN
          [preview |-> <<fresh.previews[n]>>,
           store |-> [previews |-> SubSeq(fresh.previews, 1, n - 1)
                        \o SubSeq(fresh.previews, n + 1,
                                  Len(fresh.previews)),
                      retained |-> fresh.retained - fresh.previews[n].size]]
=============================================================================
