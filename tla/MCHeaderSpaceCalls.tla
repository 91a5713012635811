------------------------- MODULE MCHeaderSpaceCalls -------------------------
(* Headers of three bits.                                                  *)
EXTENDS HeaderSpaceCalls

V(a, b, c) == <<a, b, c>>

MCOperands ==
  {<<Element(V(Zero, X, X))>>, <<Element(V(X, X, Zero)), Element(V(One, One, X))>>,
   <<[mask |-> V(X, One, X), diff |-> <<V(One, One, Zero)>>]>>,
   <<[mask |-> Whole, diff |-> <<V(Zero, X, One)>>]>>,
   <<Element(V(X, X, Zero)), Element(V(X, X, One)),
     [mask |-> V(X, One, X), diff |-> <<V(Zero, One, One)>>]>>}

MCChangers == {Changer(V(Zero, X, X)),
               Compose(Changer(V(X, One, X)), Changer(V(X, Zero, Zero)))}

MCHops ==
  {[match |-> V(X, X, Zero), changer |-> Changer(V(X, X, One)),
    dst |-> <<[mask |-> Whole, diff |-> <<V(Zero, One, One), V(One, Zero, X)>>]>>],
   [match |-> V(X, One, X), changer |-> Changer(Whole),
    dst |-> <<[mask |-> V(X, X, X), diff |-> <<V(Zero, X, X)>>]>>],
   [match |-> Whole, changer |-> Changer(V(Zero, X, X)),
    dst |-> <<[mask |-> V(X, One, X), diff |-> <<V(X, One, Zero)>>]>>]}
====
