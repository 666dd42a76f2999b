------------------------------- MODULE Pricing -------------------------------
(***************************************************************************)
(* The arithmetic of BookingService: nights, prices, discounts and bonus   *)
(* points.  Money is counted in hundredths of the currency unit, so that a *)
(* double of the code with two decimals is an integer here; a bonus point  *)
(* is worth one currency unit.                                             *)
(***************************************************************************)
EXTENDS Integers

PointValue == 100

(* Number of nights charged: a stay of zero or a negative number of days   *)
(* is charged as one.                                                      *)
Nights(checkIn, checkOut) ==
  IF checkOut - checkIn <= 0 THEN 1 ELSE checkOut - checkIn

(* Price of a stay: the category's price per night and the services.       *)
StayPrice(basePrice, checkIn, checkOut, servicesCost) ==
  basePrice * Nights(checkIn, checkOut) + servicesCost

(* What a balance of bonus points takes off a price, never more than it;   *)
(* without the limit; with the limit the wrong way round.                  *)
DiscountUncapped(points, totalCost) == points * PointValue

DiscountInverted(points, totalCost) ==
  IF points * PointValue > totalCost THEN points * PointValue ELSE totalCost

Discount(points, totalCost) ==
  IF points * PointValue > totalCost THEN totalCost ELSE points * PointValue

(* Points taken for a discount: the cast to int drops the fraction.  The   *)
(* other form rounds it up.                                                *)
PointsRoundedUp(discount) == (discount + PointValue - 1) \div PointValue

PointsSpent(discount) == discount \div PointValue

(* Points earned by a completed stay: a tenth of its price, truncated.     *)
PointsGained(totalCost) == totalCost \div (10 * PointValue)
=============================================================================
