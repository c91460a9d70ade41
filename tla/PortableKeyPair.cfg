\* A pair written by one binding and read by another.
SPECIFICATION Spec
CONSTANT Bindings = {"Rust", "Java", "Swift"}
INVARIANT PairIsPortable
