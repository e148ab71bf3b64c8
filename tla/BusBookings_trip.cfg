CONSTANTS
    b1 = b1
    b2 = b2
    n1 = n1
    h1 = h1
    NoPlace = NoPlace
    NoBooking = NoBooking
    Bookings = {b1, b2}
    Seats = {n1}
    Schemes = {"SEATS", "COUNT"}
    Rails = {"MTN_MOMO", "PEACH_CARD", "CASH"}
    Handlers = {h1}
    MaxFaults = 1
SPECIFICATION TripSpec
INVARIANTS EndsOnEvidence CountCoversWithoutFaults QuietTripAddsUp
PROPERTIES SeatsHonoured SettledIsFinal LapsedIsSettled PaidCardIsSettled
CHECK_DEADLOCK FALSE
